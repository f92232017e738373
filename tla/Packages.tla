------------------------------ MODULE Packages ------------------------------
(***************************************************************************)
(* A chain of three nodes that brings a package to a host: on Debian a      *)
(* repository, apt-get update and the package (apt/apt_repository.py,       *)
(* apt/apt_update.py, apt/apt_package.py), on macOS Homebrew, a tap and a   *)
(* formula or a cask (brew/).  One action per call of the file system or of *)
(* a command; a command that fails may have had its effect.                 *)
(*                                                                         *)
(* Versions are numbers, 2 is the one params.version asks for.  The archive *)
(* of the distribution offers version 1, if it has the package at all, and  *)
(* the repository offers version 2.  Node is {1, 2, 3}.                     *)
(***************************************************************************)
EXTENDS Integers, FiniteSetsExt, Functions, NodeLife

CONSTANT MaxRuns  \* bound on how often the program calls start()

Wanted == 2

\* version, hold or pin, allow_downgrade of the package; url of the tap
Params == [version : BOOLEAN, keep : BOOLEAN, downgrade : BOOLEAN, url : BOOLEAN]

\* Of the world: does the key have the expected fingerprint, is the newest
\* Release file that is served younger than max_age, has the distribution the
\* package, does it leave configuration files, which version of a formula or a
\* cask does brew install, is there a formula name@2, and is brew_prefix on the PATH
\* of the program?
Nature == [keyed : BOOLEAN, recent : BOOLEAN, base : BOOLEAN, conf : BOOLEAN,
           newest : {2, 3}, at : BOOLEAN, path : BOOLEAN]

\* version is 0 for a package dpkg or brew does not know; conf: it was removed and
\* its configuration files are left; kept: held or pinned; at: name@2 is installed.
Package == [version : 0 .. 3, conf : BOOLEAN, kept : BOOLEAN, at : BOOLEAN]

Absent == [version |-> 0, conf |-> FALSE, kept |-> FALSE, at |-> FALSE]

VARIABLES
  faults,   \* may the calls of this host fail?
  manager,  \* "apt", "formula" or "cask"
  params,   \* self._params
  nature,
  keyring,  \* whose key the keyring holds
  sources,  \* the file under sources.list.d
  lists,    \* the package lists: are they recent, do they cover the repository?
  brew,     \* is Homebrew installed?
  tap,      \* the remote of the tap
  pkg,
  before,   \* the package when its transition began
  runs

setVars  == <<faults, manager, params, nature, runs>>
aptVars  == <<keyring, sources, lists>>
brewVars == <<brew, tap>>
vars     == <<setVars, aptVars, brewVars, pkg, before, lifeVars>>

\* The changers of nodes 1, 2 and 3.
Chain == IF manager = "apt" THEN <<"repository", "update", "apt">>
         ELSE <<"homebrew", "tap", manager>>

AptInit ==
  /\ params \in {p \in Params : ~p.url}
  /\ nature \in {w \in Nature : w.newest = 2 /\ ~w.at /\ w.path}
  /\ keyring \in {"none", "right", "wrong"}
  /\ sources \in {"none", "wanted", "other"}
  /\ lists \in {l \in [recent : BOOLEAN, repo : BOOLEAN] :
                  l.repo => keyring = "right" /\ sources = "wanted"}
  /\ brew = FALSE
  /\ tap = "none"
  /\ pkg \in {Absent} \cup {p \in Package : /\ p.version # 0 /\ ~p.at
                                            /\ p.conf => p.version = 2 /\ ~p.kept}

BrewInit ==
  /\ params \in {p \in Params : ~p.downgrade /\ (manager = "cask" => ~p.keep)}
  /\ nature \in {w \in Nature : w.keyed /\ w.recent /\ w.base /\ ~w.conf}
  /\ keyring = "none"
  /\ sources = "none"
  /\ lists = [recent |-> FALSE, repo |-> FALSE]
  /\ brew \in BOOLEAN
  /\ tap \in (IF brew THEN {"none", "wanted", "other"} ELSE {"none"})
  /\ pkg \in (IF brew THEN {p \in Package : /\ ~p.conf
                                            /\ p.kept => manager = "formula" /\ p.version # 0
                                            /\ p.at => manager = "formula" /\ nature.at}
              ELSE {Absent})

Init ==
  /\ faults \in BOOLEAN
  /\ manager \in {"apt", "formula", "cask"}
  /\ IF manager = "apt" THEN AptInit ELSE BrewInit
  /\ before = pkg
  /\ runs = 1
  /\ LifeInit

-----------------------------------------------------------------------------
(* assess_state.                                                            *)

RepositoryVerdict ==
  IF sources \in {"other", "torn"} \/ keyring = "wrong" THEN "INVALID"
  ELSE IF sources = "wanted" /\ keyring = "right" THEN "ALREADY_APPLIED"
  ELSE "READY"

UpdateVerdict == IF lists.recent THEN "ALREADY_APPLIED" ELSE "READY"

HomebrewVerdict == IF brew THEN "ALREADY_APPLIED" ELSE "READY"

\* The homebrew node looks into brew_prefix, the other two on PATH.
TapVerdict ==
  IF ~nature.path \/ (params.url /\ tap = "other") THEN "INVALID"
  ELSE IF tap = "none" THEN "READY"
  ELSE "ALREADY_APPLIED"

\* The versions apt-cache madison prints.
Available == {v \in {1} : nature.base} \cup {v \in {2} : lists.repo}

\* Mutant: _assess_downgrade finds no issue.
AptVerdictAnyVersion ==
  IF params.version /\ Wanted \notin Available THEN "INVALID"
  ELSE IF /\ pkg.version # 0
          /\ params.version => pkg.version = Wanted
          /\ params.keep => pkg.kept THEN "ALREADY_APPLIED"
  ELSE "READY"

\* dpkg -s also knows a package of which the configuration files are left.
AptVerdict ==
  IF /\ params.version
     /\ Wanted \notin Available \/ (pkg.version > Wanted /\ ~params.downgrade) THEN "INVALID"
  ELSE IF /\ pkg.version # 0
          /\ params.version => pkg.version = Wanted
          /\ params.keep => pkg.kept THEN "ALREADY_APPLIED"
  ELSE "READY"

OtherVersion == params.version /\ pkg.version \notin {0, Wanted}

FormulaVerdict ==
  IF ~nature.path \/ OtherVersion THEN "INVALID"
  ELSE IF pkg.version = 0 \/ (params.keep /\ ~pkg.kept) THEN "READY"
  ELSE "ALREADY_APPLIED"

CaskVerdict ==
  IF ~nature.path \/ OtherVersion THEN "INVALID"
  ELSE IF pkg.version = 0 THEN "READY"
  ELSE "ALREADY_APPLIED"

Verdict(changer) ==
  CASE changer = "repository" -> RepositoryVerdict
    [] changer = "update"     -> UpdateVerdict
    [] changer = "apt"        -> AptVerdict
    [] changer = "homebrew"   -> HomebrewVerdict
    [] changer = "tap"        -> TapVerdict
    [] changer = "formula"    -> FormulaVerdict
    [] changer = "cask"       -> CaskVerdict

\* An error of a probe is an issue, but an exit code other than 0 counts as "not
\* installed", and lists or a brew that cannot be read as old or missing.
FaultyVerdicts(changer) ==
  {"INVALID"} \cup (IF changer \notin {"repository", "tap"} /\ (nature.path \/ changer = "homebrew")
                   THEN {"READY"} ELSE {})

\* Mutant: the engine does not wait for the nodes a node depends on.
ReleasedAlways(n) == TRUE

Released(n) ==
  \A m \in Node : m < n =>
    outcome[m] \in {"SUCCESS", "SKIPPED_ALREADY_APPLIED", "SKIPPED_BY_TRANSITION"}

AssessState(n) ==
  /\ Released(n)
  /\ \E state \in {Verdict(Chain[n])} \cup (IF faults THEN FaultyVerdicts(Chain[n]) ELSE {}) :
       Assess(n, state) \/ Verify(n, state)
  /\ UNCHANGED <<setVars, aptVars, brewVars, pkg, before>>

\* The program calls start() again; meanwhile the lists may have aged.
StartAgain ==
  /\ \A n \in Node : phase[n] = "done" \/ ~Released(n)
  /\ runs < MaxRuns
  /\ runs' = runs + 1
  /\ lists' \in {lists, [lists EXCEPT !.recent = FALSE]}
  /\ before' = pkg
  /\ LifeAgain
  /\ UNCHANGED <<faults, manager, params, nature, keyring, sources, brewVars, pkg>>

-----------------------------------------------------------------------------
(* The transitions, and those of the inverses.                              *)

NodeOf(changer) == CHOOSE n \in Node : Chain[n] = changer

At(changer, p) == changer \in Range(Chain) /\ phase[NodeOf(changer)] = p

Continue(changer, p) == Goto(NodeOf(changer), p) /\ UNCHANGED <<outcome, result, undo>>
Succeeds(changer)    == Returns(NodeOf(changer), "SUCCESS")
Fails(changer)       == Returns(NodeOf(changer), "FAILURE")
GivesUp(changer)     == Undone(NodeOf(changer), "FAILURE")
Undoes(changer)      == Undone(NodeOf(changer), "SUCCESS")

\* _materialise_armored and _write_armored: the key is in a temporary file.  A key
\* that is not the expected one may be found out by its sha256.
FetchKey ==
  /\ At("repository", "transition")
  /\ \/ Continue("repository", "clear")
     \/ (faults \/ ~nature.keyed) /\ Fails("repository")
  /\ UNCHANGED <<setVars, aptVars, brewVars, pkg, before>>

ClearKeyring ==
  /\ At("repository", "clear")
  /\ \/ keyring' = "none" /\ Continue("repository", "dearmor")
     \/ faults /\ keyring # "none" /\ UNCHANGED keyring /\ Fails("repository")
  /\ UNCHANGED <<setVars, sources, lists, brewVars, pkg, before>>

\* gpg --dearmor
Dearmor ==
  /\ At("repository", "dearmor")
  /\ LET key == IF nature.keyed THEN "right" ELSE "wrong"
     IN \/ keyring' = key /\ Continue("repository", "fingerprint")
        \/ faults /\ keyring' \in {"none", "wrong", key} /\ Fails("repository")
  /\ UNCHANGED <<setVars, sources, lists, brewVars, pkg, before>>

\* A fingerprint that cannot be read is a wrong one; the keyring is deleted, as far
\* as it can be.
CheckFingerprint ==
  /\ At("repository", "fingerprint")
  /\ \/ keyring = "right" /\ UNCHANGED keyring /\ Continue("repository", "sources")
     \/ /\ keyring # "right" \/ faults
        /\ keyring' \in {"none"} \cup {k \in {keyring} : faults}
        /\ Fails("repository")
  /\ UNCHANGED <<setVars, sources, lists, brewVars, pkg, before>>

WriteSources ==
  /\ At("repository", "sources")
  /\ \/ sources' = "wanted" /\ Succeeds("repository")
     \/ faults /\ sources' \in {sources, "torn"} /\ Fails("repository")
  /\ UNCHANGED <<setVars, keyring, lists, brewVars, pkg, before>>

RemoveSources ==
  /\ At("repository", "rollback")
  /\ \/ sources' = "none" /\ Continue("repository", "undo_keyring")
     \/ faults /\ sources # "none" /\ UNCHANGED sources /\ GivesUp("repository")
  /\ UNCHANGED <<setVars, keyring, lists, brewVars, pkg, before>>

RemoveKeyring ==
  /\ At("repository", "undo_keyring")
  /\ \/ keyring' = "none" /\ Undoes("repository")
     \/ faults /\ keyring # "none" /\ UNCHANGED keyring /\ GivesUp("repository")
  /\ UNCHANGED <<setVars, sources, lists, brewVars, pkg, before>>

\* apt-get update gives the lists the times the server gives them.  Indexes it
\* cannot fetch are ignored with a warning, or make it fail.
AptUpdate ==
  /\ At("update", "transition")
  /\ LET fetched == [recent |-> nature.recent,
                     repo   |-> sources = "wanted" /\ keyring = "right"]
     IN \/ lists' = fetched /\ Succeeds("update")
        \/ faults /\ lists' \in {lists, fetched} /\ (Succeeds("update") \/ Fails("update"))
  /\ UNCHANGED <<setVars, keyring, sources, brewVars, pkg, before>>

\* apt_update and ensure_homebrew_installed cannot be rolled back.
CannotUndo ==
  /\ \E n \in Node : Chain[n] \in {"update", "homebrew"} /\ NoInverse(n)
  /\ UNCHANGED <<setVars, aptVars, brewVars, pkg, before>>

FetchScript ==
  /\ At("homebrew", "transition")
  /\ Continue("homebrew", "script") \/ (faults /\ Fails("homebrew"))
  /\ UNCHANGED <<setVars, aptVars, brewVars, pkg, before>>

\* The script may end with 0 and leave no brew: _brew_present is asked.
RunScript ==
  /\ At("homebrew", "script")
  /\ \/ brew' = TRUE /\ Succeeds("homebrew")
     \/ faults /\ brew' \in BOOLEAN /\ (brew => brew') /\ Fails("homebrew")
  /\ UNCHANGED <<setVars, aptVars, tap, pkg, before>>

BrewTap ==
  /\ At("tap", "transition")
  /\ \/ tap' = "wanted" /\ Succeeds("tap")
     \/ faults /\ tap' \in {tap, "wanted"} /\ Fails("tap")
  /\ UNCHANGED <<setVars, aptVars, brew, pkg, before>>

\* brew untap refuses if a formula of the tap is installed.
BrewUntap ==
  /\ At("tap", "rollback")
  /\ \/ tap # "none" /\ tap' = "none" /\ (Undoes("tap") \/ (faults /\ GivesUp("tap")))
     \/ /\ tap = "none" \/ pkg.version # 0 \/ pkg.at \/ faults
        /\ UNCHANGED tap
        /\ GivesUp("tap")
  /\ UNCHANGED <<setVars, aptVars, brew, pkg, before>>

-----------------------------------------------------------------------------
(* The package itself.                                                      *)

Present == pkg.version # 0 /\ ~pkg.conf

\* What apt-get -y install would install, at most one version.
Target == IF params.version THEN {Wanted} \cap Available
          ELSE LET known == Available \cup {v \in {pkg.version} : Present}
               IN {v \in known : v = Max(known)}

\* apt-get -y neither downgrades nor changes a held package.
Acceptable(v) == Present => v >= pkg.version /\ (pkg.kept => v = pkg.version)

\* Mutant: nothing is held or pinned.
InstalledUnkept(changer) == Succeeds(changer)

\* After a package has been installed: hold or pin it, if the parameters say so.
Installed(changer) ==
  IF params.keep THEN Continue(changer, "keep") ELSE Succeeds(changer)

AptInstall ==
  /\ At("apt", "transition")
  /\ \/ \E v \in Target :
          /\ Acceptable(v)
          /\ pkg' = [pkg EXCEPT !.version = v, !.conf = FALSE]
          /\ Installed("apt") \/ (faults /\ Fails("apt"))
     \/ /\ faults \/ ~\E v \in Target : Acceptable(v)
        /\ UNCHANGED pkg
        /\ Fails("apt")
  /\ before' = pkg
  /\ UNCHANGED <<setVars, aptVars, brewVars>>

\* A formula with a version is installed as name@version, which is another formula.
BrewInstall(changer) ==
  /\ At(changer, "transition")
  /\ LET versioned == changer = "formula" /\ params.version
     IN \/ /\ versioned => nature.at
           /\ pkg' \in (IF versioned THEN {[pkg EXCEPT !.at = TRUE]}
                        ELSE {[pkg EXCEPT !.version = v] :
                                v \in {nature.newest} \cup ({pkg.version} \ {0})})
           /\ Installed(changer) \/ (faults /\ Fails(changer))
        \/ /\ faults \/ (versioned /\ ~nature.at)
           /\ UNCHANGED pkg
           /\ Fails(changer)
  /\ before' = pkg
  /\ UNCHANGED <<setVars, aptVars, brewVars>>

\* apt-mark hold, or brew pin, which wants the formula itself to be installed.
Keep(changer) ==
  /\ At(changer, "keep")
  /\ \/ /\ pkg.version # 0
        /\ pkg' = [pkg EXCEPT !.kept = TRUE]
        /\ Succeeds(changer) \/ (faults /\ Fails(changer))
     \/ (faults \/ pkg.version = 0) /\ UNCHANGED pkg /\ Fails(changer)
  /\ UNCHANGED <<setVars, aptVars, brewVars, before>>

\* apt-get -y remove does not remove a held package; what is not installed it may
\* not know.
AptRemove ==
  /\ At("apt", "rollback")
  /\ \/ /\ Present /\ ~pkg.kept
        /\ pkg' = (IF nature.conf THEN [pkg EXCEPT !.conf = TRUE] ELSE Absent)
        /\ Undoes("apt") \/ (faults /\ GivesUp("apt"))
     \/ ~Present /\ UNCHANGED pkg /\ (Undoes("apt") \/ GivesUp("apt"))
     \/ (pkg.kept \/ faults) /\ UNCHANGED pkg /\ GivesUp("apt")
  /\ UNCHANGED <<setVars, aptVars, brewVars, before>>

\* brew uninstall says that a formula is pinned, with exit code 0 or not.
BrewUninstall(changer) ==
  /\ At(changer, "rollback")
  /\ \/ /\ pkg.version # 0 /\ ~pkg.kept
        /\ pkg' = [pkg EXCEPT !.version = 0]
        /\ Undoes(changer) \/ (faults /\ GivesUp(changer))
     \/ pkg.kept /\ UNCHANGED pkg /\ (Undoes(changer) \/ GivesUp(changer))
     \/ (faults \/ pkg.version = 0) /\ UNCHANGED pkg /\ GivesUp(changer)
  /\ UNCHANGED <<setVars, aptVars, brewVars, before>>

Next ==
  \/ StartAgain
  \/ \E n \in Node : AssessState(n)
  \/ FetchKey \/ ClearKeyring \/ Dearmor \/ CheckFingerprint \/ WriteSources
  \/ RemoveSources \/ RemoveKeyring
  \/ AptUpdate \/ CannotUndo \/ FetchScript \/ RunScript \/ BrewTap \/ BrewUntap
  \/ AptInstall \/ AptRemove
  \/ \E changer \in {"apt", "formula"} : Keep(changer)
  \/ \E changer \in {"formula", "cask"} : BrewInstall(changer) \/ BrewUninstall(changer)

Spec == Init /\ [][Next]_vars

-----------------------------------------------------------------------------
(* Properties.                                                              *)

TypeOK ==
  /\ LifeTypeOK
  /\ \A n \in Node : phase[n] \in {"assess", "transition", "clear", "dearmor", "fingerprint",
                                   "sources", "script", "keep", "verify", "rollback",
                                   "undo_keyring", "done"}
  /\ faults \in BOOLEAN
  /\ params \in Params
  /\ nature \in Nature
  /\ keyring \in {"none", "right", "wrong"}
  /\ sources \in {"none", "wanted", "other", "torn"}
  /\ lists \in [recent : BOOLEAN, repo : BOOLEAN]
  /\ brew \in BOOLEAN
  /\ tap \in {"none", "wanted", "other"}
  /\ {pkg, before} \subseteq Package
  /\ runs \in 1 .. MaxRuns

\* A package that is reported as installed is there in the wanted version, and held
\* or pinned if it should be, unless only its configuration files are left.  Without
\* faults, the second assessment confirms the transition.  The exceptions: lists
\* that are old on the server already, a formula that is asked for in a version and
\* is installed as another formula, and a cask of which brew installs another
\* version.
EffectConfirmed ==
  /\ outcome[3] \in {"SUCCESS", "SKIPPED_ALREADY_APPLIED"} =>
       \/ /\ Present
          /\ params.version => pkg.version = Wanted
          /\ params.keep => pkg.kept
       \/ pkg.conf /\ outcome[3] = "SKIPPED_ALREADY_APPLIED"
  /\ \A n \in Node : ~faults /\ result[n] = "MISMATCH" =>
       \/ Chain[n] = "update" /\ ~nature.recent
       \/ Chain[n] = "formula" /\ params.version /\ before.version = 0
       \/ Chain[n] = "cask" /\ params.version /\ nature.newest # Wanted

\* Without faults, a package that was installed before is still installed after the
\* run.  The exceptions, in which the rollback of an installation that fails removes
\* it: a downgrade the parameters allow and apt-get refuses, and a formula that only
\* lacks its pin, if there is no formula name@version.
PackageKept ==
  ~faults /\ before.version # 0 /\ ~before.conf =>
    \/ Present
    \/ manager = "apt" /\ params.version /\ params.downgrade /\ before.version > Wanted
    \/ manager = "formula" /\ params.version /\ ~nature.at

\* Without faults, the package is found and installed if the lists have been fetched
\* in the same run after the repository was configured, unless apt would have to
\* downgrade it or to change a held one.  Nothing is promised if the update was
\* skipped because the lists are recent: they need not cover the new repository.
UpdateFindsPackage ==
  /\ ~faults
  /\ manager = "apt"
  /\ outcome[2] = "SUCCESS"
  /\ outcome[3] \in {"FAILED_INVALID", "FAILED_TRANSITION"}
  => params.version /\ (before.version > Wanted \/ before.kept)

\* A rollback of a repository that reports success leaves neither of its files.
NoSourceLeft ==
  manager = "apt" /\ undo[1] = "SUCCESS" => sources = "none" /\ keyring = "none"
=============================================================================
