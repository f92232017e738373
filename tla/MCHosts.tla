------------------------------ MODULE MCHosts ------------------------------
(***************************************************************************)
(* Four kinds of host, whose changers work through commands: the one node   *)
(* of Services, or the three of Packages, Accounts or Install.  They have   *)
(* the life of a node in common; what only the others use stays as it is.   *)
(***************************************************************************)
EXTENDS Services

VARIABLES
  host,
  calm,      \* without faults, all nodes of the last run have proceeded, and since
             \* then nothing but the nodes has acted on the host
  manager, keyring, sources, lists, brew, tap, pkg,
  ordered, taken, user, group, shells, fresh, created,
  source, aged, work, present, text,
  pre, buffer, other

Pkg == INSTANCE Packages WITH Node <- {1, 2, 3}
Acc == INSTANCE Accounts WITH Node <- {1, 2, 3}
Ins == INSTANCE Install  WITH Node <- {1, 2, 3}

shared      == <<faults, params, nature, runs, before, lifeVars>>
serviceOnly == <<file, known, running, enabled, changed, crashes>>
packageOnly == <<manager, keyring, sources, lists, brew, tap, pkg>>
accountOnly == <<ordered, taken, user, group, shells, fresh, created>>
installOnly == <<source, aged, work, present, text>>
memory      == <<pre, buffer, other>>
hostsVars   == <<host, calm, platform, shared, serviceOnly, packageOnly, accountOnly,
                 installOnly, memory>>

NoService ==
  /\ file = "none" /\ known = "none" /\ running = "none"
  /\ enabled = FALSE /\ changed = FALSE /\ crashes = 0

NoPackage ==
  /\ manager = "apt" /\ keyring = "none" /\ sources = "none"
  /\ lists = [recent |-> FALSE, repo |-> FALSE]
  /\ brew = FALSE /\ tap = "none" /\ pkg = Pkg!Absent

NoAccount ==
  /\ ordered = FALSE /\ taken = FALSE /\ user = Acc!NoUser /\ group = "none"
  /\ shells = {} /\ fresh = FALSE /\ created = FALSE

NoInstall ==
  /\ source = {} /\ aged = FALSE /\ work = {} /\ present = FALSE /\ text = Ins!NoText

NoMemory == pre = {} /\ buffer = {} /\ other = "no"

MCInit ==
  /\ calm = FALSE
  /\ \/ /\ host = "service" /\ Init
        /\ NoPackage /\ NoAccount /\ NoInstall /\ NoMemory
     \/ /\ host = "package" /\ Pkg!Init /\ platform = "linux"
        /\ NoService /\ NoAccount /\ NoInstall /\ NoMemory
     \/ /\ host = "account" /\ Acc!Init /\ nature = {}
        /\ NoService /\ NoPackage /\ NoInstall
     \/ /\ host = "install" /\ Ins!Init /\ platform = "linux"
        /\ NoService /\ NoPackage /\ NoAccount

\* Once start() is called again after a run in which every node has proceeded.
CalmNext ==
  IF runs' = runs THEN calm /\ UNCHANGED <<crashes, other>>
  ELSE /\ ~faults /\ crashes = 0 /\ other = "no"
       /\ \A n \in DOMAIN outcome : Ins!Proceeds(n)
       /\ UNCHANGED <<lists, user, aged, text>>

MCNext ==
  /\ \/ /\ host = "service" /\ Next
        /\ UNCHANGED <<packageOnly, accountOnly, installOnly, memory>>
     \/ /\ host = "package" /\ Pkg!Next
        /\ UNCHANGED <<platform, serviceOnly, accountOnly, installOnly, memory>>
     \/ /\ host = "account" /\ Acc!Next
        /\ UNCHANGED <<nature, serviceOnly, packageOnly, installOnly>>
     \/ /\ host = "install" /\ Ins!Next
        /\ UNCHANGED <<platform, serviceOnly, packageOnly, accountOnly>>
  /\ calm' = CalmNext
  /\ UNCHANGED host

MCSpec == MCInit /\ [][MCNext]_hostsVars

-----------------------------------------------------------------------------

HostTypeOK ==
  CASE host = "service" -> TypeOK
    [] host = "package" -> Pkg!TypeOK
    [] host = "account" -> Acc!TypeOK
    [] host = "install" -> Ins!TypeOK

\* EffectConfirmed of the four, and ReportedWhole of Install: what a node reports is
\* what the host is like, and without faults the second assessment confirms the
\* transition.
EffectAsReported ==
  CASE host = "service" -> EffectConfirmed
    [] host = "package" -> Pkg!EffectConfirmed
    [] host = "account" -> Acc!EffectConfirmed
    [] host = "install" -> Ins!EffectConfirmed /\ Ins!ReportedWhole

\* NothingLeftLoaded of Services, NoSourceLeft of Packages, FreshAccountGone of
\* Accounts, CacheKept of Install: a rollback that reports success has removed what
\* the transition has made.
NothingLeft ==
  CASE host = "service" -> NothingLeftLoaded
    [] host = "package" -> Pkg!NoSourceLeft
    [] host = "account" -> Acc!FreshAccountGone
    [] host = "install" -> Ins!CacheKept

\* UpdateTakesEffect of Services, UpdateFindsPackage of Packages: a node that
\* succeeds after a change above or before it works with what is new.
UpdateReaches ==
  CASE host = "service" -> UpdateTakesEffect
    [] host = "package" -> Pkg!UpdateFindsPackage
    [] OTHER -> TRUE

\* PackageKept of Packages, AccountKept and ShellsKept of Accounts, EditsKept of
\* Install: what was there before the program is not lost by a failed transition.
OthersKept ==
  CASE host = "package" -> Pkg!PackageKept
    [] host = "account" -> Acc!AccountKept /\ Acc!ShellsKept
    [] host = "install" -> Ins!EditsKept
    [] OTHER -> TRUE

\* ShellRestored of Accounts, TextRestored of Install: a rollback that reports
\* success restores what this run has found.
FoundRestored ==
  CASE host = "account" -> Acc!ShellRestored
    [] host = "install" -> Ins!TextRestored
    [] OTHER -> TRUE

\* When every node of a run has proceeded and nothing else acts on the host, the next
\* run finds every node applied and begins no transition.  The exception: ensure_user
\* enforces a shell, and ensure_default_shell has set another one.
SecondRunQuiet ==
  calm => \/ host = "account" /\ params.enforce /\ params.shell
          \/ \A n \in DOMAIN outcome :
               /\ phase[n] \in {"assess", "done"}
               /\ outcome[n] \in {"NONE", "SKIPPED_ALREADY_APPLIED"}
=============================================================================
