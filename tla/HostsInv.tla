------------------------------ MODULE HostsInv ------------------------------
(***************************************************************************)
(* The inductive invariant of MCHosts, one part for each kind of host.  The *)
(* proofs are in AccountsProofs, InstallProofs and HostsProofs.             *)
(***************************************************************************)
EXTENDS MCHosts

Three == {1, 2, 3}

Proceeded(n) == outcome[n] \in {"SUCCESS", "SKIPPED_ALREADY_APPLIED"}

Undoing == {"rollback", "disable", "delete", "undo_reload", "unload", "undo_keyring"}

\* How far a node is tells what it has to report.
LifeOf(n) ==
  /\ outcome[n] # "NONE" <=> phase[n] = "done"
  /\ phase[n] = "verify" => result[n] = "SUCCESS"
  /\ phase[n] \in Undoing => result[n] \in {"FAILURE", "MISMATCH"}
  /\ phase[n] \notin Undoing \cup {"verify", "done"} => result[n] = "NONE"
  /\ phase[n] = "done" =>
       /\ result[n] = "SUCCESS" <=> outcome[n] = "SUCCESS"
       /\ result[n] \in {"FAILURE", "MISMATCH"} <=> outcome[n] = "FAILED_TRANSITION"
  /\ undo[n] # "NONE" => phase[n] = "done" /\ result[n] \in {"FAILURE", "MISMATCH"}

\* A node of a chain begins when those before it have proceeded.
InOrder == \A m, n \in Three : m < n /\ phase[n] # "assess" => Proceeded(m)

-----------------------------------------------------------------------------
(* Accounts.                                                                *)

UserPhase  == {"assess", "transition", "create", "uid", "shell", "groups", "check",
               "verify", "rollback", "done"}
GroupPhase == {"assess", "transition", "group", "member", "verify", "rollback", "done"}
ShellPhase == {"assess", "transition", "append", "chsh", "verify", "rollback", "done"}

AccountLife ==
  /\ phase \in [Three -> UserPhase \cup GroupPhase \cup ShellPhase]
  /\ phase[1] \in UserPhase /\ phase[2] \in GroupPhase /\ phase[3] \in ShellPhase
  /\ \A n \in Three : LifeOf(n) /\ outcome[n] # "SKIPPED_BY_TRANSITION"
  /\ ordered => InOrder

AccountType ==
  /\ Acc!LifeTypeOK
  /\ faults \in BOOLEAN /\ ordered \in BOOLEAN /\ taken \in BOOLEAN
  /\ fresh \in BOOLEAN
  /\ created \in BOOLEAN
  /\ platform \in {"linux", "darwin"}
  /\ params \in Acc!Params
  /\ user \in Acc!User
  /\ group \in {"none", "empty", "member"}
  /\ shells \subseteq {"old", "fish", "zsh"}
  /\ buffer \subseteq {"old", "fish", "zsh"}
  /\ pre \in Acc!LoginShell \cup {"none"}
  /\ other \in {"no", "added", "raced"}
  /\ runs \in 1 .. MaxRuns
  /\ before \in [user : Acc!User, group : {"none", "empty", "member"},
                 shell : Acc!LoginShell \cup {"none"}]

\* Without an order, ensure_user demands a shell that ensure_default_shell changes.
Disputed == ~ordered /\ params.enforce /\ params.shell

\* On Linux an account is whole or not there at all.
AccountShape ==
  /\ ~ordered => ~faults /\ runs = 1 /\ params.supp /\ params.create /\ params.register
  /\ taken => params.uid
  /\ user.by = "none" => user = Acc!NoUser
  /\ platform = "linux" /\ user.by # "none" => Acc!Visible
  /\ ~Acc!Visible /\ user.by # "none" /\ runs = 1 => phase[1] \notin {"assess", "transition"}
  /\ ~ordered /\ phase[1] \in {"create", "uid", "shell"} => user.shell = "none"
  /\ phase[2] = "group" => group = "none"

\* What ensure_user counts as new was new, or there is a reason.
Claim == before.user.by # "none" => platform = "darwin" /\ (faults \/ runs > 1)

UserMade ==
  /\ phase[1] = "create" =>
       /\ platform = "darwin" => Claim
       /\ user.by = "none" => before.user.by = "none"
  /\ phase[1] \in {"uid", "shell"} => Claim /\ platform = "darwin" /\ user.by # "none"
  /\ phase[1] \in {"groups", "check"} /\ fresh => Claim
  /\ runs = 1 /\ created => phase[1] \in {"verify", "rollback", "done"} /\ Claim

\* Without faults ensure_user never loses its way.
UserSound ==
  ~faults =>
    /\ phase[1] \notin {"assess", "done"} => ~taken /\ (params.supp => group # "none")
    /\ phase[1] = "transition" =>
         /\ ~Acc!UidInUse
         /\ Acc!Visible => /\ params.enforce /\ params.uid => user.uid = "wanted"
                           /\ ordered /\ params.enforce /\ params.shell => user.shell = "bash"
    /\ phase[1] = "create" => ~Acc!Visible
    /\ phase[1] \in {"shell", "groups", "check"} /\ params.uid => user.uid # "none"
    /\ phase[1] \in {"groups", "check"} =>
         /\ params.shell => user.shell # "none"
         /\ user.by # "none"
         /\ before.user.by = "none" => fresh
    /\ phase[1] \in {"shell", "groups", "check", "verify"} /\ params.enforce /\ params.uid =>
         user.uid = "wanted"
    /\ phase[1] \in {"groups", "check", "verify"} /\ ordered /\ params.enforce /\ params.shell =>
         user.shell = "bash"
    /\ phase[1] \in {"check", "verify"} /\ params.supp /\ ~Disputed => group = "member"
    /\ phase[1] = "verify" => Acc!Visible /\ (before.user.by = "none" => created)
    /\ phase[1] = "rollback" =>
         IF result[1] = "MISMATCH"
         THEN Disputed /\ Acc!Visible /\ (before.user.by = "none" => created)
         ELSE ~Acc!Visible /\ platform = "darwin" /\ ~(params.uid /\ params.shell)
    /\ result[1] = "MISMATCH" => Disputed

\* Without faults and disputes, nothing gets in the way of the other two.
OthersSound ==
  ~faults /\ ~Disputed =>
    /\ phase[2] \in {"transition", "group", "member", "verify"} => Acc!Known
    /\ phase[2] = "transition" => group # "none" \/ params.create
    /\ phase[2] = "verify" => group = "member"
    /\ result[2] \in {"NONE", "SUCCESS"}
    /\ phase[3] \in {"transition", "append", "chsh", "verify"} => Acc!HasShell
    /\ phase[3] = "verify" => user.shell = "zsh"
    /\ result[3] \in {"NONE", "SUCCESS"}

\* What a node of an ordered graph has reported, no later one undoes.
AccountEffect ==
  ordered =>
    /\ Proceeded(1) => Acc!Visible /\ (params.supp => group = "member")
    /\ Proceeded(2) => group = "member"
    /\ Proceeded(3) => user.shell = "zsh"
    /\ params.supp => phase[2] \in {"assess", "done"} /\ result[2] = "NONE"

\* The group that was found, and the shell that is to be restored.
FoundInv ==
  ordered =>
    /\ phase[2] \in {"assess", "transition"} => (before.group = "none" <=> group = "none")
    /\ ~faults /\ before.group = "none" /\ group = "empty" => phase[2] = "member"
    /\ phase[3] \in {"append", "chsh"} => before.shell = user.shell
    /\ result[3] \in {"SUCCESS", "MISMATCH"} => pre = before.shell
    /\ runs = 1 /\ pre # "none" => result[3] \in {"SUCCESS", "MISMATCH"}

ShellsInv ==
  ~faults /\ phase[3] = "append" =>
    "old" \in buffer /\ (other = "added" => "fish" \in buffer)

\* A node that has proceeded is found applied the next time.
AccountSettled ==
  ~faults /\ ordered /\ ~(params.enforce /\ params.shell) =>
    \A n \in Three : Proceeded(n) => Acc!Verdict(n) = "ALREADY_APPLIED"

AccountCalm ==
  calm => /\ ~faults /\ ordered
          /\ ~(params.enforce /\ params.shell) =>
               \A n \in Three : /\ Acc!Verdict(n) = "ALREADY_APPLIED"
                                /\ phase[n] \in {"assess", "done"}
                                /\ outcome[n] \in {"NONE", "SKIPPED_ALREADY_APPLIED"}

AccountInv ==
  /\ AccountLife /\ AccountType /\ AccountShape
  /\ UserMade /\ UserSound /\ OthersSound /\ AccountEffect
  /\ FoundInv /\ ShellsInv /\ AccountSettled /\ AccountCalm
  /\ Acc!AccountKept /\ Acc!FreshAccountGone /\ Acc!ShellRestored /\ Acc!ShellsKept

-----------------------------------------------------------------------------
(* Install.                                                                 *)

InstallLife ==
  /\ phase[1] \in {"assess", "transition", "verify", "rollback", "raised", "done"}
  /\ phase[2] \in {"assess", "transition", "verify", "rollback", "done"}
  /\ phase[3] \in {"assess", "transition", "write", "verify", "rollback", "raised", "done"}
  /\ \A n \in Three : LifeOf(n)
  /\ "SKIPPED_BY_TRANSITION" \notin {outcome[1], outcome[2]}
  /\ InOrder

InstallType ==
  /\ Ins!LifeTypeOK
  /\ phase \in [Three -> {"assess", "transition", "write", "verify", "rollback", "raised",
                          "done"}]
  /\ faults \in BOOLEAN
  /\ aged \in BOOLEAN
  /\ present \in BOOLEAN
  /\ params \in Ins!Params
  /\ nature \in Ins!Nature
  /\ source \subseteq Ins!Contents
  /\ work \subseteq Ins!Work
  /\ text \in Ins!Text
  /\ buffer \in Ins!Text
  /\ pre \subseteq Ins!Text
  /\ before.text \in Ins!Text
  /\ other \in {"no", "edited", "raced"}
  /\ runs \in 1 .. MaxRuns
  /\ before = [source |-> before.source, text |-> before.text]

\* Each run replaces the matches at most once.
NewBound ==
  /\ text.new <= runs
  /\ phase[3] \in {"assess", "transition", "write"} => text.new < runs
  /\ buffer.new < runs
  /\ \A t \in pre : t.new < runs

\* No earlier run can have broken off and left its traces.
Clean == runs = 1 \/ (~faults /\ nature.archive = "sound" /\ nature.encodes)

\* The source and what the command has done are whole or not there, unless a
\* transition has failed.
SourceInv ==
  /\ Ins!Script => nature.listed /\ nature.archive = "sound"
                   /\ source \in {{}, Ins!Contents, {"head"}}
  /\ source \subseteq Ins!Whole
  /\ Clean => source \in {{}, Ins!Whole} \/ result[1] = "FAILURE" \/ phase[1] = "raised"
  /\ ~faults /\ nature.archive = "sound" => source \in {{}, Ins!Whole}
  /\ phase[1] = "verify" => source = Ins!Whole /\ (Ins!Script => ~aged)
  /\ result[1] = "MISMATCH" /\ phase[1] = "rollback" => source = Ins!Whole
  /\ Ins!Script /\ phase[1] = "raised" => faults /\ before.source = source
  /\ result[1] = "NONE" /\ phase[1] # "raised" => before.source = source
  /\ Clean /\ Proceeded(1) => source = Ins!Whole

WorkInv ==
  /\ Clean => work \in {{}, Ins!Work} \/ result[2] = "FAILURE"
  /\ Clean /\ ~faults => work \in {{}, Ins!Work}
  /\ phase[2] = "verify" => work = Ins!Work \/ source # Ins!Whole
  /\ Clean /\ Proceeded(2) => work = Ins!Work

\* What is torn was torn by a write that has failed or raised.
TornInv ==
  /\ ~present => text = Ins!NoText
  /\ runs = 1 /\ present /\ text.torn => result[3] \in {"FAILURE", "MISMATCH"} \/ phase[3] = "raised"
  /\ runs = 1 /\ phase[3] = "write" => ~buffer.torn
  /\ ~faults /\ nature.encodes =>
       /\ present => ~text.torn
       /\ phase[3] = "write" => ~buffer.torn
       /\ \A t \in pre : ~t.torn

\* What replace_in_file has read is what it found, and what it captured too.
CaptureInv ==
  /\ phase[3] = "write" => buffer = before.text /\ buffer.matches = "expected"
  /\ result[3] \in {"SUCCESS", "MISMATCH"} => pre = {before.text}
  /\ runs = 1 /\ pre # {} => result[3] \in {"SUCCESS", "MISMATCH"}
  /\ phase[3] = "assess" /\ before.text.edited => text.edited
  /\ phase[3] = "verify" =>
       params.keeps \/ other = "raced" \/ (present /\ text.matches = "none")

\* replace_in_file begins when there is something to replace, and skips only what
\* another program has changed meanwhile.
SkipInv ==
  other = "no" =>
    /\ phase[3] = "transition" => present /\ text.matches = "expected"
    /\ outcome[3] # "SKIPPED_BY_TRANSITION"

\* Without faults and other programs a text is replaced once, or restored.
OnceInv ==
  ~faults /\ other = "no" =>
    /\ text.new <= 1
    /\ text.new = 1 =>
         \/ text.matches = "none"
         \/ phase[3] \in {"verify", "rollback"} /\ result[3] \in {"SUCCESS", "MISMATCH"}
    /\ phase[3] = "write" => buffer.new = 0
    /\ \A t \in pre : t.new = 0
    /\ phase[3] \in {"write", "verify"} \/ result[3] = "MISMATCH" => present

InstallSettled ==
  \A n \in Three : Proceeded(n) /\ (n = 3 => other = "no") => Ins!Verdict(n) = "ALREADY_APPLIED"

InstallCalm ==
  calm => /\ ~faults /\ other = "no"
          /\ \A n \in Three : /\ Ins!Verdict(n) = "ALREADY_APPLIED"
                              /\ phase[n] \in {"assess", "done"}
                              /\ outcome[n] \in {"NONE", "SKIPPED_ALREADY_APPLIED"}

InstallInv ==
  /\ InstallLife /\ InstallType /\ NewBound /\ SourceInv /\ WorkInv
  /\ TornInv /\ CaptureInv /\ SkipInv /\ OnceInv /\ InstallSettled /\ InstallCalm
  /\ Ins!EffectConfirmed /\ Ins!CacheKept /\ Ins!TextRestored /\ Ins!EditsKept

-----------------------------------------------------------------------------
(* Packages.                                                                *)

\* What the initial states of the three managers have in common with all others.
PackageWorld ==
  /\ manager \in {"apt", "formula", "cask"}
  /\ manager = "cask" => ~params.keep
  /\ manager # "apt" => /\ ~pkg.conf /\ ~nature.conf
                        /\ pkg.kept => manager = "formula" /\ pkg.version # 0
  /\ manager = "apt" => /\ pkg.version = 0 => ~pkg.conf /\ ~pkg.kept
                        /\ pkg.conf => ~pkg.kept

PackageLife ==
  /\ phase[1] \in {"assess", "transition", "clear", "dearmor", "fingerprint", "sources",
                   "script", "verify", "rollback", "undo_keyring", "done"}
  /\ phase[2] \in {"assess", "transition", "verify", "rollback", "done"}
  /\ phase[3] \in {"assess", "transition", "keep", "verify", "rollback", "done"}
  /\ \A n \in Three : LifeOf(n) /\ outcome[n] # "SKIPPED_BY_TRANSITION"
  /\ InOrder

PackageType ==
  /\ Pkg!LifeTypeOK
  /\ phase \in [Three -> {"assess", "transition", "clear", "dearmor", "fingerprint", "sources",
                          "script", "keep", "verify", "rollback", "undo_keyring", "done"}]
  /\ faults \in BOOLEAN
  /\ params \in Pkg!Params
  /\ nature \in Pkg!Nature
  /\ keyring \in {"none", "right", "wrong"}
  /\ sources \in {"none", "wanted", "other", "torn"}
  /\ lists \in [recent : BOOLEAN, repo : BOOLEAN]
  /\ brew \in BOOLEAN
  /\ tap \in {"none", "wanted", "other"}
  /\ pkg \in Pkg!Package
  /\ before \in Pkg!Package
  /\ runs \in 1 .. MaxRuns

\* What assess_state of a node of the chain finds.
PackageVerdict(n) ==
  CASE n = 1 -> IF manager = "apt" THEN Pkg!RepositoryVerdict ELSE Pkg!HomebrewVerdict
    [] n = 2 -> IF manager = "apt" THEN Pkg!UpdateVerdict ELSE Pkg!TapVerdict
    [] n = 3 -> CASE manager = "apt"     -> Pkg!AptVerdict
                  [] manager = "formula" -> Pkg!FormulaVerdict
                  [] manager = "cask"    -> Pkg!CaskVerdict

\* The first two nodes of a chain for apt.
RepositoryInv ==
  manager = "apt" =>
    /\ phase[1] = "sources" => keyring = "right"
    /\ phase[1] = "verify" \/ Proceeded(1) => keyring = "right" /\ sources = "wanted"
    /\ phase[1] = "undo_keyring" => sources = "none"
    /\ result[1] = "MISMATCH" => faults
    /\ ~faults /\ phase[2] = "verify" => lists.recent = nature.recent /\ lists.repo
    /\ ~faults /\ result[2] = "MISMATCH" => ~nature.recent
    /\ ~faults /\ outcome[2] = "SUCCESS" => lists.repo

\* And of a chain for brew.
HomebrewInv ==
  manager # "apt" =>
    /\ phase[1] = "verify" => brew
    /\ phase[2] = "verify" => tap = "wanted"
    /\ \A n \in {2, 3} : phase[n] \notin {"assess", "done"} => nature.path
    /\ ~faults => result[1] # "MISMATCH" /\ result[2] # "MISMATCH"

\* before is the package as the third node has found it.
BeforeInv ==
  /\ phase[3] \in {"assess", "transition"} \/ outcome[3] = "FAILED_INVALID" => before = pkg
  /\ ~faults /\ phase[3] = "transition" => PackageVerdict(3) = "READY"

\* apt has installed the wanted version; it fails for a reason.
AptInv ==
  manager = "apt" =>
    /\ phase[3] \in {"keep", "verify"} =>
         /\ pkg.version # 0 /\ ~pkg.conf
         /\ params.version => pkg.version = Pkg!Wanted /\ Pkg!Wanted \in Pkg!Available
    /\ phase[3] = "verify" /\ params.keep => pkg.kept
    /\ ~faults /\ phase[3] = "rollback" =>
         /\ before = pkg
         /\ Pkg!Present /\ ~pkg.kept =>
              params.version /\ params.downgrade /\ before.version > Pkg!Wanted
         /\ outcome[2] = "SUCCESS" =>
              params.version /\ (before.version > Pkg!Wanted \/ before.kept)
    /\ ~faults => result[3] # "MISMATCH"

\* brew has installed the formula or the cask; it removes what was not there.
BrewInv ==
  manager # "apt" =>
    /\ phase[3] = "keep" => params.keep
    /\ phase[3] = "verify" /\ params.keep => pkg.kept
    /\ ~faults /\ phase[3] \in {"keep", "verify"} =>
         IF manager = "cask" THEN before.version = 0 /\ pkg.version = nature.newest
         ELSE IF params.version
         THEN before.version = pkg.version /\ pkg.version \in {0, Pkg!Wanted}
         ELSE pkg.version # 0
    /\ ~faults /\ phase[3] = "rollback" =>
         before.version = 0 \/ (manager = "formula" /\ params.version /\ ~nature.at)
    /\ ~faults /\ result[3] = "MISMATCH" =>
         params.version /\ (IF manager = "cask" THEN nature.newest # Pkg!Wanted
                            ELSE before.version = 0)

PackageSettled ==
  \A n \in Three : Proceeded(n) => PackageVerdict(n) = "ALREADY_APPLIED"

PackageCalm ==
  calm => /\ ~faults
          /\ \A n \in Three : /\ PackageVerdict(n) = "ALREADY_APPLIED"
                              /\ phase[n] \in {"assess", "done"}
                              /\ outcome[n] \in {"NONE", "SKIPPED_ALREADY_APPLIED"}

\* The first conjunct of EffectConfirmed of Packages.
PackageReported ==
  outcome[3] \in {"SUCCESS", "SKIPPED_ALREADY_APPLIED"} =>
    \/ /\ Pkg!Present
       /\ params.version => pkg.version = Pkg!Wanted
       /\ params.keep => pkg.kept
    \/ pkg.conf /\ outcome[3] = "SKIPPED_ALREADY_APPLIED"

PackageInv ==
  /\ PackageWorld /\ PackageLife /\ PackageType /\ RepositoryInv /\ HomebrewInv
  /\ BeforeInv /\ AptInv /\ BrewInv /\ PackageSettled /\ PackageCalm /\ PackageReported
  /\ Pkg!PackageKept /\ Pkg!UpdateFindsPackage /\ Pkg!NoSourceLeft

-----------------------------------------------------------------------------
(* Services.                                                                *)

LinuxPhase  == {"reload", "enable", "start", "disable", "undo_reload"}
DarwinPhase == {"bootstrap", "load", "unload"}

ServiceLife ==
  /\ LifeOf("node") /\ outcome["node"] # "SKIPPED_BY_TRANSITION"
  /\ phase["node"] \in LinuxPhase => platform = "linux"
  /\ phase["node"] \in DarwinPhase => platform = "darwin"

ServiceType ==
  /\ LifeTypeOK
  /\ phase \in [Node -> {"assess", "transition", "reload", "enable", "start", "bootstrap",
                         "load", "verify", "rollback", "disable", "delete", "undo_reload",
                         "unload", "done"}]
  /\ faults \in BOOLEAN
  /\ platform \in {"linux", "darwin"}
  /\ params \in Params
  /\ nature \in Nature
  /\ file \in File
  /\ known \in File
  /\ running \in Active
  /\ enabled \in BOOLEAN
  /\ changed \in BOOLEAN
  /\ runs \in 1 .. MaxRuns
  /\ crashes \in 0 .. MaxCrashes
  /\ before \in [file : File, known : File, running : Active]

\* The unit on its way: what has been written, read, enabled and started so far.
UnitInv ==
  platform = "linux" =>
    /\ phase["node"] \in {"reload", "enable", "start", "verify"} => file = "new"
    /\ phase["node"] \in {"enable", "start"} => known = "new"
    /\ phase["node"] = "start" => enabled = (params.enabled /\ nature.install)
    /\ crashes = 0 /\ phase["node"] \in {"reload", "enable", "start"} =>
         running = before.running
    /\ ~faults /\ crashes = 0 /\ phase["node"] = "verify" =>
         /\ EnabledMatches \/ (params.enabled /\ ~nature.install)
         /\ \/ ActiveMatches
            \/ params.started /\ ~nature.stays
            \/ ~params.started /\ before.running = "failed"
    /\ ~faults /\ phase["node"] \in {"disable", "delete", "undo_reload"} =>
         running \notin Version
    /\ phase["node"] = "undo_reload" => file = "none"

\* What runs is what is in the file, or is about to be restarted, if the unit is not
\* one that is reloaded.
RunningInv ==
  ~faults /\ platform = "linux" /\ params.reload_on_change /\ ~nature.reloads
          /\ running \in Version =>
    running = file \/ (changed /\ phase["node"] \in {"reload", "enable", "start"})

\* What is active after the last command was started from the new unit, or there is
\* one of the reasons that UpdateTakesEffect names.
StartedInv ==
  platform = "linux" /\ params.started /\ crashes = 0 /\ phase["node"] = "verify"
                     /\ running \in Version =>
    \/ running = "new"
    \/ /\ before.running \in Version
       /\ ~params.reload_on_change \/ nature.reloads \/ (faults /\ ~changed)

\* The agent on its way.
AgentInv ==
  platform = "darwin" =>
    /\ phase["node"] \in {"bootstrap", "load"} => file = "new"
    /\ phase["node"] = "bootstrap" => known = before.known
    /\ phase["node"] = "load" =>
         known = before.known \/ (faults /\ known = "new" /\ before.known = "none")
    /\ phase["node"] = "verify" => file = "new"
    /\ ~faults /\ phase["node"] = "load" => known # "none"
    /\ ~faults /\ phase["node"] \notin {"assess", "done"} /\ params.started => params.domain
    /\ phase["node"] = "verify" /\ params.started =>
         known # "none" /\ (known = "new" \/ before.known \notin {"none", "new"})
    /\ phase["node"] = "delete" /\ file # "none" => known = "none"

ServiceSettled ==
  crashes = 0 /\ Proceeded("node") => Verdict = "ALREADY_APPLIED"

ServiceCalm ==
  calm => /\ ~faults /\ Verdict = "ALREADY_APPLIED"
          /\ phase["node"] \in {"assess", "done"}
          /\ outcome["node"] \in {"NONE", "SKIPPED_ALREADY_APPLIED"}

ServiceInv ==
  /\ ServiceLife /\ ServiceType /\ UnitInv /\ RunningInv /\ StartedInv /\ AgentInv
  /\ ServiceSettled /\ ServiceCalm
  /\ EffectConfirmed /\ UpdateTakesEffect /\ NothingLeftLoaded

-----------------------------------------------------------------------------

HostsInv ==
  /\ host \in {"service", "package", "account", "install"}
  /\ host = "service" => ServiceInv
  /\ host = "package" => PackageInv
  /\ host = "account" => AccountInv
  /\ host = "install" => InstallInv
=============================================================================
