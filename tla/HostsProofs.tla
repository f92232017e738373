---------------------------- MODULE HostsProofs -----------------------------
(***************************************************************************)
(* Proofs about the four kinds of host of MCHosts: each action of Packages  *)
(* and of Services preserves its part of HostsInv, and with AccountsProofs  *)
(* and InstallProofs, HostsInv is an invariant that implies the properties  *)
(* of MCHosts, for any number of runs and crashes.                          *)
(***************************************************************************)
EXTENDS InstallProofs

(* The chains of Packages.                                                  *)

USE DEF Pkg!Returns, Pkg!Failed, Pkg!Goto, Pkg!Report, Pkg!Undone, Pkg!NoInverse,
        Pkg!setVars, Pkg!aptVars, Pkg!brewVars, Pkg!lifeVars, Three

\* The changers of the three nodes.
LEMMA ChainOf ==
  ASSUME manager \in {"apt", "formula", "cask"}
  PROVE  /\ manager = "apt" => /\ Pkg!Chain[1] = "repository" /\ Pkg!Chain[2] = "update"
                               /\ Pkg!Chain[3] = "apt"
         /\ manager # "apt" => /\ Pkg!Chain[1] = "homebrew" /\ Pkg!Chain[2] = "tap"
                               /\ Pkg!Chain[3] = manager
         /\ DOMAIN Pkg!Chain = Three
<1>1. \A a, b, c : /\ <<a, b, c>>[1] = a /\ <<a, b, c>>[2] = b /\ <<a, b, c>>[3] = c
                   /\ DOMAIN <<a, b, c>> = {1, 2, 3}
  OBVIOUS
<1>. QED
  BY <1>1 DEF Pkg!Chain, Three

\* Every changer of the chain has one node.
LEMMA AtNode ==
  ASSUME manager \in {"apt", "formula", "cask"}, NEW changer, NEW p, Pkg!At(changer, p)
  PROVE  \E n \in Three : Pkg!Chain[n] = changer /\ Pkg!NodeOf(changer) = n /\ phase[n] = p
<1>1. PICK n \in Three : Pkg!Chain[n] = changer
  BY ChainOf DEF Pkg!At, Pkg!Range
<1>2. \A m \in {1, 2, 3} : Pkg!Chain[m] = changer => m = n
  BY <1>1, ChainOf DEF Three
<1>3. Pkg!NodeOf(changer) = n
  BY <1>1, <1>2 DEF Pkg!NodeOf, Three
<1>. QED
  BY <1>1, <1>3 DEF Pkg!At

\* Which node that is.
LEMMA AtChanger ==
  ASSUME manager \in {"apt", "formula", "cask"}, NEW p
  PROVE  /\ Pkg!At("repository", p) =>
              manager = "apt" /\ Pkg!NodeOf("repository") = 1 /\ phase[1] = p
         /\ Pkg!At("update", p) =>
              manager = "apt" /\ Pkg!NodeOf("update") = 2 /\ phase[2] = p
         /\ Pkg!At("apt", p) =>
              manager = "apt" /\ Pkg!NodeOf("apt") = 3 /\ phase[3] = p
         /\ Pkg!At("homebrew", p) =>
              manager # "apt" /\ Pkg!NodeOf("homebrew") = 1 /\ phase[1] = p
         /\ Pkg!At("tap", p) =>
              manager # "apt" /\ Pkg!NodeOf("tap") = 2 /\ phase[2] = p
         /\ \A c \in {"formula", "cask"} : Pkg!At(c, p) =>
              manager = c /\ Pkg!NodeOf(c) = 3 /\ phase[3] = p
<1>1. SUFFICES ASSUME NEW c \in {"repository", "update", "apt", "homebrew", "tap", "formula", "cask"},
                      Pkg!At(c, p)
               PROVE  /\ c \in {"repository", "update", "apt"} <=> manager = "apt"
                      /\ c \in {"formula", "cask"} => manager = c
                      /\ Pkg!NodeOf(c) = (IF c \in {"repository", "homebrew"} THEN 1
                                          ELSE IF c \in {"update", "tap"} THEN 2 ELSE 3)
                      /\ phase[Pkg!NodeOf(c)] = p
  BY SMTT(30)
<1>2. PICK n \in Three : Pkg!Chain[n] = c /\ Pkg!NodeOf(c) = n /\ phase[n] = p
  BY <1>1, AtNode
<1>. QED
  BY <1>2, ChainOf DEF Three

\* PackageVerdict is what assess_state of each node finds.
LEMMA ChainVerdict ==
  ASSUME manager \in {"apt", "formula", "cask"}, NEW n \in Three
  PROVE  Pkg!Verdict(Pkg!Chain[n]) = PackageVerdict(n)
  BY ChainOf DEF Three, PackageVerdict, Pkg!Verdict

\* The steps of the chain, with the node of the changer put in: apt_repository, ...
LEMMA FetchKeyDoes ==
  ASSUME PackageWorld, Pkg!FetchKey
  PROVE  /\ manager = "apt" /\ phase[1] = "transition"
         /\ \/ Pkg!Goto(1, "clear") /\ UNCHANGED <<outcome, result, undo>>
            \/ (faults \/ ~nature.keyed) /\ Pkg!Returns(1, "FAILURE")
         /\ UNCHANGED <<faults, manager, params, nature, runs, keyring, sources, lists,
                        brew, tap, pkg, before>>
  BY AtChanger DEF PackageWorld, Pkg!FetchKey, Pkg!Continue, Pkg!Fails, Pkg!Succeeds,
                   Pkg!GivesUp, Pkg!Undoes

LEMMA ClearKeyringDoes ==
  ASSUME PackageWorld, Pkg!ClearKeyring
  PROVE  /\ manager = "apt" /\ phase[1] = "clear"
         /\ \/ keyring' = "none" /\ Pkg!Goto(1, "dearmor") /\ UNCHANGED <<outcome, result,
                                                                          undo>>
            \/ faults /\ UNCHANGED keyring /\ Pkg!Returns(1, "FAILURE")
         /\ UNCHANGED <<faults, manager, params, nature, runs, sources, lists, brew, tap,
                        pkg, before>>
  BY AtChanger DEF PackageWorld, Pkg!ClearKeyring, Pkg!Continue, Pkg!Fails, Pkg!Succeeds,
                   Pkg!GivesUp, Pkg!Undoes

LEMMA DearmorDoes ==
  ASSUME PackageWorld, Pkg!Dearmor
  PROVE  /\ manager = "apt" /\ phase[1] = "dearmor"
         /\ keyring' \in {"none", "right", "wrong"}
         /\ \/ Pkg!Goto(1, "fingerprint") /\ UNCHANGED <<outcome, result, undo>>
            \/ faults /\ Pkg!Returns(1, "FAILURE")
         /\ UNCHANGED <<faults, manager, params, nature, runs, sources, lists, brew, tap,
                        pkg, before>>
  BY AtChanger DEF PackageWorld, Pkg!Dearmor, Pkg!Continue, Pkg!Fails, Pkg!Succeeds,
                   Pkg!GivesUp, Pkg!Undoes

LEMMA CheckFingerprintDoes ==
  ASSUME PackageWorld, Pkg!CheckFingerprint
  PROVE  /\ manager = "apt" /\ phase[1] = "fingerprint"
         /\ keyring' = "none" \/ UNCHANGED keyring
         /\ \/ keyring' = "right" /\ Pkg!Goto(1, "sources") /\ UNCHANGED <<outcome, result,
                                                                           undo>>
            \/ Pkg!Returns(1, "FAILURE")
         /\ UNCHANGED <<faults, manager, params, nature, runs, sources, lists, brew, tap,
                        pkg, before>>
  BY AtChanger DEF PackageWorld, Pkg!CheckFingerprint, Pkg!Continue, Pkg!Fails,
                   Pkg!Succeeds, Pkg!GivesUp, Pkg!Undoes

LEMMA WriteSourcesDoes ==
  ASSUME PackageWorld, Pkg!WriteSources
  PROVE  /\ manager = "apt" /\ phase[1] = "sources"
         /\ \/ sources' = "wanted" /\ Pkg!Returns(1, "SUCCESS")
            \/ /\ sources' = "torn" \/ UNCHANGED sources
               /\ Pkg!Returns(1, "FAILURE")
         /\ UNCHANGED <<faults, manager, params, nature, runs, keyring, lists, brew, tap,
                        pkg, before>>
  BY AtChanger DEF PackageWorld, Pkg!WriteSources, Pkg!Continue, Pkg!Fails, Pkg!Succeeds,
                   Pkg!GivesUp, Pkg!Undoes

LEMMA RemoveSourcesDoes ==
  ASSUME PackageWorld, Pkg!RemoveSources
  PROVE  /\ manager = "apt" /\ phase[1] = "rollback"
         /\ \/ /\ sources' = "none" /\ Pkg!Goto(1, "undo_keyring")
               /\ UNCHANGED <<outcome, result, undo>>
            \/ UNCHANGED sources /\ Pkg!Undone(1, "FAILURE")
         /\ UNCHANGED <<faults, manager, params, nature, runs, keyring, lists, brew, tap,
                        pkg, before>>
  BY AtChanger DEF PackageWorld, Pkg!RemoveSources, Pkg!Continue, Pkg!Fails, Pkg!Succeeds,
                   Pkg!GivesUp, Pkg!Undoes

LEMMA RemoveKeyringDoes ==
  ASSUME PackageWorld, Pkg!RemoveKeyring
  PROVE  /\ manager = "apt" /\ phase[1] = "undo_keyring"
         /\ \/ keyring' = "none" /\ Pkg!Undone(1, "SUCCESS")
            \/ UNCHANGED keyring /\ Pkg!Undone(1, "FAILURE")
         /\ UNCHANGED <<faults, manager, params, nature, runs, sources, lists, brew, tap,
                        pkg, before>>
  BY AtChanger DEF PackageWorld, Pkg!RemoveKeyring, Pkg!Continue, Pkg!Fails, Pkg!Succeeds,
                   Pkg!GivesUp, Pkg!Undoes

\* ... apt_update, ...
LEMMA AptUpdateDoes ==
  ASSUME PackageWorld, PackageType, Pkg!AptUpdate
  PROVE  /\ manager = "apt" /\ phase[2] = "transition"
         /\ lists' \in [recent : BOOLEAN, repo : BOOLEAN]
         /\ ~faults => /\ lists'.recent = nature.recent
                       /\ lists'.repo = (sources = "wanted" /\ keyring = "right")
         /\ Pkg!Returns(2, "SUCCESS") \/ (faults /\ Pkg!Returns(2, "FAILURE"))
         /\ UNCHANGED <<faults, manager, params, nature, runs, keyring, sources, brew, tap, pkg,
                        before>>
<1> DEFINE fetched == [recent |-> nature.recent,
                       repo   |-> sources = "wanted" /\ keyring = "right"]
<1>1. nature.recent \in BOOLEAN /\ lists \in [recent : BOOLEAN, repo : BOOLEAN]
  BY DEF PackageType, Pkg!Nature
<1>2. /\ fetched \in [recent : BOOLEAN, repo : BOOLEAN]
      /\ fetched.recent = nature.recent
      /\ fetched.repo = (sources = "wanted" /\ keyring = "right")
  BY <1>1
<1>3. lists' \in {lists, fetched} /\ (~faults => lists' = fetched)
  BY DEF Pkg!AptUpdate
<1>4. /\ manager = "apt" /\ phase[2] = "transition"
      /\ Pkg!Returns(2, "SUCCESS") \/ (faults /\ Pkg!Returns(2, "FAILURE"))
      /\ UNCHANGED <<faults, manager, params, nature, runs, keyring, sources, brew, tap, pkg,
                     before>>
  BY AtChanger DEF PackageWorld, Pkg!AptUpdate, Pkg!Fails, Pkg!Succeeds
<1> HIDE DEF fetched
<1>. QED
  BY <1>1, <1>2, <1>3, <1>4

\* ... ensure_homebrew_installed, ...
LEMMA FetchScriptDoes ==
  ASSUME PackageWorld, Pkg!FetchScript
  PROVE  /\ manager # "apt" /\ phase[1] = "transition"
         /\ \/ Pkg!Goto(1, "script") /\ UNCHANGED <<outcome, result, undo>>
            \/ faults /\ Pkg!Returns(1, "FAILURE")
         /\ UNCHANGED <<faults, manager, params, nature, runs, keyring, sources, lists,
                        brew, tap, pkg, before>>
  BY AtChanger DEF PackageWorld, Pkg!FetchScript, Pkg!Continue, Pkg!Fails, Pkg!Succeeds,
                   Pkg!GivesUp, Pkg!Undoes

LEMMA RunScriptDoes ==
  ASSUME PackageWorld, Pkg!RunScript
  PROVE  /\ manager # "apt" /\ phase[1] = "script"
         /\ \/ brew' /\ Pkg!Returns(1, "SUCCESS")
            \/ faults /\ Pkg!Returns(1, "FAILURE")
         /\ UNCHANGED <<faults, manager, params, nature, runs, keyring, sources, lists, tap,
                        pkg, before>>
  BY AtChanger DEF PackageWorld, Pkg!RunScript, Pkg!Fails, Pkg!Succeeds

\* ... brew_tap, ...
LEMMA BrewTapDoes ==
  ASSUME PackageWorld, Pkg!BrewTap
  PROVE  /\ manager # "apt" /\ phase[2] = "transition"
         /\ \/ tap' = "wanted" /\ Pkg!Returns(2, "SUCCESS")
            \/ /\ faults /\ Pkg!Returns(2, "FAILURE")
               /\ tap' = "wanted" \/ UNCHANGED tap
         /\ UNCHANGED <<faults, manager, params, nature, runs, keyring, sources, lists,
                        brew, pkg, before>>
  BY AtChanger DEF PackageWorld, Pkg!BrewTap, Pkg!Continue, Pkg!Fails, Pkg!Succeeds,
                   Pkg!GivesUp, Pkg!Undoes

LEMMA BrewUntapDoes ==
  ASSUME PackageWorld, Pkg!BrewUntap
  PROVE  /\ manager # "apt" /\ phase[2] = "rollback"
         /\ tap' = "none" \/ UNCHANGED tap
         /\ \E status \in {"SUCCESS", "FAILURE"} : Pkg!Undone(2, status)
         /\ UNCHANGED <<faults, manager, params, nature, runs, keyring, sources, lists,
                        brew, pkg, before>>
  BY AtChanger DEF PackageWorld, Pkg!BrewUntap, Pkg!Continue, Pkg!Fails, Pkg!Succeeds,
                   Pkg!GivesUp, Pkg!Undoes

\* ... and the two that cannot be rolled back.
LEMMA CannotUndoDoes ==
  ASSUME PackageWorld, Pkg!CannotUndo
  PROVE  /\ \E n \in {1, 2} : /\ n = 1 => manager # "apt"
                              /\ n = 2 => manager = "apt"
                              /\ Pkg!NoInverse(n)
         /\ UNCHANGED <<faults, manager, params, nature, runs, keyring, sources, lists, brew, tap,
                        pkg, before>>
  BY ChainOf DEF PackageWorld, Pkg!CannotUndo, Three

\* What apt-get would install is the wanted version, if one is wanted.
LEMMA TargetVersions ==
  ASSUME PackageType, NEW v \in Pkg!Target
  PROVE  /\ v \in 1 .. 3
         /\ params.version => v = Pkg!Wanted /\ Pkg!Wanted \in Pkg!Available
  BY DEF PackageType, Pkg!Target, Pkg!Available, Pkg!Present, Pkg!Wanted, Pkg!Package

\* Max of a set of versions.
LEMMA NewestVersion ==
  ASSUME NEW S \in SUBSET (0 .. 3), S # {}
  PROVE  Pkg!Max(S) \in S /\ \A y \in S : Pkg!Max(S) >= y
<1>1. \E x \in S : \A y \in S : x >= y
  <2>1. CASE 3 \in S
    BY <2>1
  <2>2. CASE 3 \notin S /\ 2 \in S
    BY <2>2
  <2>3. CASE 3 \notin S /\ 2 \notin S /\ 1 \in S
    BY <2>3
  <2>4. CASE 3 \notin S /\ 2 \notin S /\ 1 \notin S
    <3>1. PICK z \in S : TRUE
      OBVIOUS
    <3>2. \A y \in S : y = 0
      BY <2>4
    <3>3. 0 >= 0 /\ z = 0
      BY <3>2
    <3>. QED
      BY <3>2, <3>3
  <2>. QED
    BY <2>1, <2>2, <2>3, <2>4
<1>. QED
  BY <1>1 DEF Pkg!Max

\* apt-get refuses a package for a downgrade or for its hold only.
LEMMA RefusedFor ==
  ASSUME PackageWorld, PackageType, Pkg!AptVerdict = "READY",
         \A v \in Pkg!Target : ~Pkg!Acceptable(v)
  PROVE  /\ Pkg!Present /\ ~pkg.kept =>
              params.version /\ params.downgrade /\ pkg.version > Pkg!Wanted
         /\ lists.repo => params.version /\ (pkg.version > Pkg!Wanted \/ pkg.kept)
<1>0. /\ pkg.version \in 0 .. 3 /\ pkg.conf \in BOOLEAN /\ pkg.kept \in BOOLEAN
      /\ params.version \in BOOLEAN /\ params.keep \in BOOLEAN /\ params.downgrade \in BOOLEAN
      /\ lists.repo \in BOOLEAN /\ nature.base \in BOOLEAN
  BY DEF PackageType, Pkg!Package, Pkg!Params, Pkg!Nature
<1>1. CASE params.version
  <2>1. Pkg!Wanted \in Pkg!Available /\ (pkg.version > Pkg!Wanted => params.downgrade)
    BY <1>0, <1>1 DEF Pkg!AptVerdict
  <2>2. ~Pkg!Acceptable(Pkg!Wanted)
    BY <1>1, <2>1 DEF Pkg!Target
  <2>. QED
    BY <1>0, <1>1, <2>1, <2>2 DEF Pkg!Acceptable, Pkg!Wanted
<1>2. CASE ~params.version
  <2>1. Pkg!Present => ~pkg.kept
    BY <1>0, <1>2 DEF Pkg!AptVerdict, Pkg!Present
  <2> DEFINE offered == Pkg!Available \cup {v \in {pkg.version} : Pkg!Present}
  <2>2. offered = {}
    <3>1. SUFFICES ASSUME offered # {} PROVE FALSE
      OBVIOUS
    <3>2. offered \in SUBSET (0 .. 3)
      BY <1>0 DEF Pkg!Available
    <3>3. Pkg!Max(offered) \in offered /\ \A y \in offered : Pkg!Max(offered) >= y
      BY <3>1, <3>2, NewestVersion
    <3>4. Pkg!Max(offered) \in Pkg!Target
      BY <1>2, <3>3 DEF Pkg!Target
    <3>5. Pkg!Present => Pkg!Max(offered) >= pkg.version
      BY <3>3
    <3>. QED
      BY <2>1, <3>4, <3>5 DEF Pkg!Acceptable
  <2>. QED
    BY <2>2 DEF Pkg!Available
<1>. QED
  BY <1>0, <1>1, <1>2

\* apt-get installs an acceptable version, or fails for a reason.
LEMMA AptInstallDoes ==
  ASSUME PackageInv, Pkg!AptInstall
  PROVE  /\ manager = "apt" /\ phase[3] = "transition" /\ before' = pkg
         /\ pkg' \in Pkg!Package /\ pkg'.kept = pkg.kept /\ pkg'.at = pkg.at
         /\ \/ /\ pkg'.version # 0 /\ ~pkg'.conf
               /\ params.version => pkg'.version = Pkg!Wanted /\ Pkg!Wanted \in Pkg!Available
               /\ \/ params.keep /\ Pkg!Goto(3, "keep") /\ UNCHANGED <<outcome, result, undo>>
                  \/ ~params.keep /\ Pkg!Returns(3, "SUCCESS")
                  \/ faults /\ Pkg!Returns(3, "FAILURE")
            \/ /\ UNCHANGED pkg /\ Pkg!Returns(3, "FAILURE")
               /\ ~faults =>
                    /\ Pkg!Present /\ ~pkg.kept =>
                         params.version /\ params.downgrade /\ pkg.version > Pkg!Wanted
                    /\ outcome[2] = "SUCCESS" =>
                         params.version /\ (pkg.version > Pkg!Wanted \/ pkg.kept)
         /\ UNCHANGED <<faults, manager, params, nature, runs, keyring, sources, lists,
                        brew, tap>>
<1>1. /\ manager = "apt" /\ Pkg!NodeOf("apt") = 3 /\ phase[3] = "transition" /\ before' = pkg
      /\ UNCHANGED <<faults, manager, params, nature, runs, keyring, sources, lists, brew,
                     tap>>
  BY AtChanger DEF PackageInv, PackageWorld, Pkg!AptInstall
<1>2. PackageType /\ PackageWorld /\ pkg \in Pkg!Package
  BY DEF PackageInv, PackageType
<1>3. CASE \E v \in Pkg!Target :
              /\ Pkg!Acceptable(v)
              /\ pkg' = [pkg EXCEPT !.version = v, !.conf = FALSE]
              /\ Pkg!Installed("apt") \/ (faults /\ Pkg!Fails("apt"))
  <2>1. PICK v \in Pkg!Target :
              /\ pkg' = [pkg EXCEPT !.version = v, !.conf = FALSE]
              /\ Pkg!Installed("apt") \/ (faults /\ Pkg!Fails("apt"))
    BY <1>3
  <2>2. v \in 1 .. 3 /\ (params.version => v = Pkg!Wanted /\ Pkg!Wanted \in Pkg!Available)
    BY <1>2, TargetVersions
  <2>3. /\ pkg' \in Pkg!Package /\ pkg'.version = v /\ ~pkg'.conf
        /\ pkg'.kept = pkg.kept /\ pkg'.at = pkg.at
    <3>1. pkg.kept \in BOOLEAN /\ pkg.at \in BOOLEAN /\ v \in 0 .. 3
      BY <1>2, <2>2 DEF Pkg!Package
    <3>2. pkg' = [version |-> v, conf |-> FALSE, kept |-> pkg.kept, at |-> pkg.at]
      BY <1>2, <2>1 DEF Pkg!Package
    <3>. QED
      BY <3>1, <3>2 DEF Pkg!Package
  <2>4. \/ params.keep /\ Pkg!Goto(3, "keep") /\ UNCHANGED <<outcome, result, undo>>
        \/ ~params.keep /\ Pkg!Returns(3, "SUCCESS")
        \/ faults /\ Pkg!Returns(3, "FAILURE")
    BY <1>1, <2>1 DEF Pkg!Installed, Pkg!Continue, Pkg!Succeeds, Pkg!Fails
  <2>. QED
    BY <1>1, <2>2, <2>3, <2>4
<1>4. CASE /\ faults \/ ~\E v \in Pkg!Target : Pkg!Acceptable(v)
           /\ UNCHANGED pkg
           /\ Pkg!Fails("apt")
  <2>1. Pkg!Returns(3, "FAILURE")
    BY <1>1, <1>4 DEF Pkg!Fails
  <2>2. ~faults => Pkg!AptVerdict = "READY"
    BY <1>1 DEF PackageInv, BeforeInv, PackageVerdict
  <2>3. ~faults /\ outcome[2] = "SUCCESS" => lists.repo
    BY <1>1 DEF PackageInv, RepositoryInv
  <2>. QED
    BY <1>1, <1>2, <1>4, <2>1, <2>2, <2>3, RefusedFor
<1>. QED
  BY <1>3, <1>4 DEF Pkg!AptInstall

\* brew installs name@version, the newest version, or what is there already.
LEMMA BrewInstallDoes ==
  ASSUME PackageWorld, PackageType, NEW changer \in {"formula", "cask"}, Pkg!BrewInstall(changer)
  PROVE  /\ manager = changer /\ phase[3] = "transition" /\ before' = pkg
         /\ pkg' \in Pkg!Package /\ pkg'.kept = pkg.kept /\ pkg'.conf = pkg.conf
         /\ \/ /\ \/ /\ changer = "formula" /\ params.version /\ nature.at
                     /\ pkg'.version = pkg.version
                  \/ /\ ~(changer = "formula" /\ params.version)
                     /\ \/ pkg'.version = nature.newest
                        \/ pkg.version # 0 /\ pkg'.version = pkg.version
               /\ \/ params.keep /\ Pkg!Goto(3, "keep") /\ UNCHANGED <<outcome, result, undo>>
                  \/ ~params.keep /\ Pkg!Returns(3, "SUCCESS")
                  \/ faults /\ Pkg!Returns(3, "FAILURE")
            \/ /\ faults \/ (changer = "formula" /\ params.version /\ ~nature.at)
               /\ UNCHANGED pkg /\ Pkg!Returns(3, "FAILURE")
         /\ UNCHANGED <<faults, manager, params, nature, runs, keyring, sources, lists,
                        brew, tap>>
<1>1. /\ manager = changer /\ Pkg!NodeOf(changer) = 3 /\ phase[3] = "transition"
      /\ before' = pkg
      /\ UNCHANGED <<faults, manager, params, nature, runs, keyring, sources, lists, brew,
                     tap>>
  BY AtChanger DEF PackageWorld, Pkg!BrewInstall
<1>2. pkg \in Pkg!Package /\ nature.newest \in {2, 3}
  BY DEF PackageType, Pkg!Nature
<1> DEFINE versioned == changer = "formula" /\ params.version
<1>3. CASE /\ versioned => nature.at
           /\ pkg' \in (IF versioned THEN {[pkg EXCEPT !.at = TRUE]}
                        ELSE {[pkg EXCEPT !.version = v] :
                                v \in {nature.newest} \cup ({pkg.version} \ {0})})
           /\ Pkg!Installed(changer) \/ (faults /\ Pkg!Fails(changer))
  <2>1. \/ params.keep /\ Pkg!Goto(3, "keep") /\ UNCHANGED <<outcome, result, undo>>
        \/ ~params.keep /\ Pkg!Returns(3, "SUCCESS")
        \/ faults /\ Pkg!Returns(3, "FAILURE")
    BY <1>1, <1>3 DEF Pkg!Installed, Pkg!Continue, Pkg!Succeeds, Pkg!Fails
  <2>2. CASE versioned
    <3>1. pkg' = [pkg EXCEPT !.at = TRUE] /\ nature.at
      BY <1>3, <2>2
    <3>2. /\ pkg' \in Pkg!Package /\ pkg'.kept = pkg.kept /\ pkg'.conf = pkg.conf
          /\ pkg'.version = pkg.version
      BY <1>2, <3>1 DEF Pkg!Package
    <3>. QED
      BY <1>1, <2>1, <2>2, <3>1, <3>2
  <2>3. CASE ~versioned
    <3>1. PICK v \in {nature.newest} \cup ({pkg.version} \ {0}) : pkg' = [pkg EXCEPT !.version = v]
      BY <1>3, <2>3
    <3>2. /\ pkg' \in Pkg!Package /\ pkg'.kept = pkg.kept /\ pkg'.conf = pkg.conf
          /\ pkg'.version = v
      BY <1>2, <3>1 DEF Pkg!Package
    <3>. QED
      BY <1>1, <2>1, <2>3, <3>1, <3>2
  <2>. QED
    BY <2>2, <2>3
<1>4. CASE /\ faults \/ (versioned /\ ~nature.at)
           /\ UNCHANGED pkg
           /\ Pkg!Fails(changer)
  BY <1>1, <1>2, <1>4 DEF Pkg!Fails
<1>. QED
  BY <1>3, <1>4 DEF Pkg!BrewInstall

\* The package is held or pinned, or the call fails.
LEMMA KeepDoes ==
  ASSUME PackageWorld, PackageType, NEW changer \in {"apt", "formula"}, Pkg!Keep(changer)
  PROVE  /\ manager = changer /\ phase[3] = "keep"
         /\ pkg' \in Pkg!Package /\ pkg'.version = pkg.version /\ pkg'.conf = pkg.conf
         /\ \/ /\ pkg.version # 0 /\ pkg'.kept
               /\ Pkg!Returns(3, "SUCCESS") \/ (faults /\ Pkg!Returns(3, "FAILURE"))
            \/ /\ faults \/ pkg.version = 0
               /\ UNCHANGED pkg /\ Pkg!Returns(3, "FAILURE")
         /\ UNCHANGED <<faults, manager, params, nature, runs, keyring, sources, lists, brew, tap,
                        before>>
<1>1. /\ manager = changer /\ Pkg!NodeOf(changer) = 3 /\ phase[3] = "keep"
      /\ UNCHANGED <<faults, manager, params, nature, runs, keyring, sources, lists, brew, tap,
                     before>>
  BY AtChanger DEF PackageWorld, Pkg!Keep
<1>2. pkg \in Pkg!Package
  BY DEF PackageType
<1>3. pkg' = [pkg EXCEPT !.kept = TRUE] =>
        /\ pkg' \in Pkg!Package /\ pkg'.version = pkg.version /\ pkg'.conf = pkg.conf /\ pkg'.kept
  BY <1>2 DEF Pkg!Package
<1>. QED
  BY <1>1, <1>2, <1>3 DEF Pkg!Keep, Pkg!Succeeds, Pkg!Fails

\* apt-get removes what is present and not held.
LEMMA AptRemoveDoes ==
  ASSUME PackageWorld, PackageType, Pkg!AptRemove
  PROVE  /\ manager = "apt" /\ phase[3] = "rollback" /\ pkg' \in Pkg!Package
         /\ \/ /\ Pkg!Present /\ ~pkg.kept /\ ~pkg'.kept
               /\ pkg'.version = 0 <=> ~pkg'.conf
            \/ UNCHANGED pkg
         /\ \E status \in {"SUCCESS", "FAILURE"} : Pkg!Undone(3, status)
         /\ UNCHANGED <<faults, manager, params, nature, runs, keyring, sources, lists, brew, tap,
                        before>>
<1>1. /\ manager = "apt" /\ Pkg!NodeOf("apt") = 3 /\ phase[3] = "rollback"
      /\ UNCHANGED <<faults, manager, params, nature, runs, keyring, sources, lists, brew, tap,
                     before>>
  BY AtChanger DEF PackageWorld, Pkg!AptRemove
<1>2. pkg \in Pkg!Package
  BY DEF PackageType
<1>3. /\ [pkg EXCEPT !.conf = TRUE] \in Pkg!Package
      /\ [pkg EXCEPT !.conf = TRUE].version = pkg.version
      /\ [pkg EXCEPT !.conf = TRUE].kept = pkg.kept
      /\ [pkg EXCEPT !.conf = TRUE].conf = TRUE
  BY <1>2 DEF Pkg!Package
<1>4. Pkg!Absent \in Pkg!Package /\ Pkg!Absent.version = 0 /\ ~Pkg!Absent.conf /\ ~Pkg!Absent.kept
  BY DEF Pkg!Package, Pkg!Absent
<1>5. \E status \in {"SUCCESS", "FAILURE"} : Pkg!Undone(3, status)
  BY <1>1 DEF Pkg!AptRemove, Pkg!Undoes, Pkg!GivesUp
<1>6. \/ /\ Pkg!Present /\ ~pkg.kept
         /\ pkg' = (IF nature.conf THEN [pkg EXCEPT !.conf = TRUE] ELSE Pkg!Absent)
      \/ UNCHANGED pkg
  BY DEF Pkg!AptRemove
<1>7. CASE /\ Pkg!Present /\ ~pkg.kept
           /\ pkg' = (IF nature.conf THEN [pkg EXCEPT !.conf = TRUE] ELSE Pkg!Absent)
  <2>1. pkg.version # 0
    BY <1>7 DEF Pkg!Present
  <2>2. pkg' \in Pkg!Package /\ ~pkg'.kept /\ (pkg'.version = 0 <=> ~pkg'.conf)
    BY <1>3, <1>4, <1>7, <2>1
  <2>. QED
    BY <1>1, <1>5, <1>7, <2>2
<1>8. CASE UNCHANGED pkg
  BY <1>1, <1>2, <1>5, <1>8
<1>. QED
  BY <1>6, <1>7, <1>8

\* brew uninstalls what is not pinned.
LEMMA BrewUninstallDoes ==
  ASSUME PackageWorld, PackageType, NEW changer \in {"formula", "cask"},
         Pkg!BrewUninstall(changer)
  PROVE  /\ manager = changer /\ phase[3] = "rollback" /\ pkg' \in Pkg!Package
         /\ \/ /\ ~pkg.kept
               /\ pkg'.version = 0 /\ pkg'.kept = pkg.kept /\ pkg'.conf = pkg.conf
            \/ UNCHANGED pkg
         /\ \E status \in {"SUCCESS", "FAILURE"} : Pkg!Undone(3, status)
         /\ UNCHANGED <<faults, manager, params, nature, runs, keyring, sources, lists, brew, tap,
                        before>>
<1>1. /\ manager = changer /\ Pkg!NodeOf(changer) = 3 /\ phase[3] = "rollback"
      /\ UNCHANGED <<faults, manager, params, nature, runs, keyring, sources, lists, brew, tap,
                     before>>
  BY AtChanger DEF PackageWorld, Pkg!BrewUninstall
<1>2. pkg \in Pkg!Package
  BY DEF PackageType
<1>3. pkg' = [pkg EXCEPT !.version = 0] =>
        /\ pkg' \in Pkg!Package /\ pkg'.version = 0 /\ pkg'.kept = pkg.kept
        /\ pkg'.conf = pkg.conf
  BY <1>2 DEF Pkg!Package
<1>4. \E status \in {"SUCCESS", "FAILURE"} : Pkg!Undone(3, status)
  BY <1>1 DEF Pkg!BrewUninstall, Pkg!Undoes, Pkg!GivesUp
<1>5. \/ ~pkg.kept /\ pkg' = [pkg EXCEPT !.version = 0]
      \/ UNCHANGED pkg
  BY DEF Pkg!BrewUninstall
<1>. QED
  BY <1>1, <1>2, <1>3, <1>4, <1>5

\* assess_state of a node returns its verdict, or after a fault something but ALREADY_APPLIED.
LEMMA PackageAssessed ==
  ASSUME PackageInv, NEW n \in Three, Pkg!AssessState(n)
  PROVE  /\ \A m \in Three : m < n => Proceeded(m)
         /\ \E state \in {"READY", "ALREADY_APPLIED", "INVALID"} :
              /\ ~faults => state = PackageVerdict(n)
              /\ manager # "apt" /\ n # 1 /\ state = "READY" => nature.path
              /\ state # PackageVerdict(n) => state # "ALREADY_APPLIED"
              /\ Pkg!Assess(n, state) \/ Pkg!Verify(n, state)
         /\ UNCHANGED <<faults, manager, params, nature, runs, keyring, sources, lists, brew, tap,
                        pkg, before>>
<1>1. \A m \in Three : m < n => Proceeded(m)
  BY DEF Pkg!AssessState, Pkg!Released, Three, Proceeded, PackageInv, PackageLife, LifeOf
<1>2. Pkg!Verdict(Pkg!Chain[n]) = PackageVerdict(n)
  BY ChainVerdict DEF PackageInv, PackageWorld
<1>3. PackageVerdict(n) \in {"READY", "ALREADY_APPLIED", "INVALID"}
  BY DEF PackageInv, PackageWorld, Three, PackageVerdict, Pkg!RepositoryVerdict,
         Pkg!HomebrewVerdict, Pkg!UpdateVerdict, Pkg!TapVerdict, Pkg!AptVerdict,
         Pkg!FormulaVerdict, Pkg!CaskVerdict
<1>4. PICK state \in {PackageVerdict(n)}
                       \cup (IF faults THEN Pkg!FaultyVerdicts(Pkg!Chain[n]) ELSE {}) :
             Pkg!Assess(n, state) \/ Pkg!Verify(n, state)
  BY <1>2 DEF Pkg!AssessState
<1>5. /\ ~faults => state = PackageVerdict(n)
      /\ state \in {PackageVerdict(n), "READY", "INVALID"}
  BY <1>4 DEF Pkg!FaultyVerdicts
<1>7. ASSUME manager # "apt", n # 1, state = "READY"
      PROVE  nature.path
  <2>1. CASE PackageVerdict(n) = "READY"
    BY <1>7, <2>1 DEF PackageInv, PackageWorld, PackageVerdict, Three, Pkg!TapVerdict,
                      Pkg!FormulaVerdict, Pkg!CaskVerdict
  <2>2. CASE PackageVerdict(n) # "READY"
    BY <1>4, <1>7, <2>2 DEF Pkg!FaultyVerdicts, Pkg!Chain, Three, PackageInv, PackageWorld
  <2>. QED
    BY <2>1, <2>2
<1>6. UNCHANGED <<faults, manager, params, nature, runs, keyring, sources, lists, brew, tap,
                  pkg, before>>
  BY DEF Pkg!AssessState
<1>. QED
  BY <1>1, <1>3, <1>4, <1>5, <1>6, <1>7

\* What it decides then.
LEMMA PackageAssess ==
  ASSUME PackageInv, NEW n \in Three, Pkg!AssessState(n)
  PROVE  /\ \A m \in Three : m < n => Proceeded(m)
         /\ \/ /\ phase[n] = "assess" /\ UNCHANGED result
               /\ \/ /\ ~faults => PackageVerdict(n) = "READY"
                     /\ manager # "apt" /\ n # 1 => nature.path
                     /\ phase' = [phase EXCEPT ![n] = "transition"] /\ UNCHANGED outcome
                  \/ /\ PackageVerdict(n) = "ALREADY_APPLIED"
                     /\ phase' = [phase EXCEPT ![n] = "done"]
                     /\ outcome' = [outcome EXCEPT ![n] = "SKIPPED_ALREADY_APPLIED"]
                  \/ /\ ~faults => PackageVerdict(n) = "INVALID"
                     /\ phase' = [phase EXCEPT ![n] = "done"]
                     /\ outcome' = [outcome EXCEPT ![n] = "FAILED_INVALID"]
            \/ /\ phase[n] = "verify"
               /\ \/ /\ PackageVerdict(n) = "ALREADY_APPLIED" /\ UNCHANGED result
                     /\ phase' = [phase EXCEPT ![n] = "done"]
                     /\ outcome' = [outcome EXCEPT ![n] = "SUCCESS"]
                  \/ /\ ~faults => PackageVerdict(n) # "ALREADY_APPLIED"
                     /\ result' = [result EXCEPT ![n] = "MISMATCH"]
                     /\ phase' = [phase EXCEPT ![n] = "rollback"] /\ UNCHANGED outcome
         /\ UNCHANGED <<faults, manager, params, nature, runs, keyring, sources, lists, brew, tap,
                        pkg, before, undo>>
<1>1. PICK state \in {"READY", "ALREADY_APPLIED", "INVALID"} :
        /\ ~faults => state = PackageVerdict(n)
        /\ manager # "apt" /\ n # 1 /\ state = "READY" => nature.path
        /\ state # PackageVerdict(n) => state # "ALREADY_APPLIED"
        /\ Pkg!Assess(n, state) \/ Pkg!Verify(n, state)
  BY PackageAssessed
<1>2. CASE Pkg!Assess(n, state)
  BY <1>1, <1>2, PackageAssessed DEF Pkg!Assess
<1>3. CASE Pkg!Verify(n, state)
  BY <1>1, <1>3, PackageAssessed DEF Pkg!Verify
<1>. QED
  BY <1>1, <1>2, <1>3

\* Verdicts depend on the host and the parameters alone.
LEMMA SameVerdicts ==
  ASSUME UNCHANGED <<manager, params, nature, keyring, sources, lists, brew, tap, pkg>>
  PROVE  \A n \in Three : PackageVerdict(n)' = PackageVerdict(n)
  BY DEF PackageVerdict, Pkg!RepositoryVerdict, Pkg!HomebrewVerdict, Pkg!UpdateVerdict,
         Pkg!TapVerdict, Pkg!AptVerdict, Pkg!FormulaVerdict, Pkg!CaskVerdict, Pkg!Available,
         Pkg!OtherVersion, Pkg!Wanted

\* A node that is reported as applied was found applied.
LEMMA PackageAssessSettled ==
  ASSUME PackageInv, NEW n \in Three, Pkg!AssessState(n)
  PROVE  PackageSettled'
<1>1. \A m \in Three : PackageVerdict(m)' = PackageVerdict(m)
  BY PackageAssess, SameVerdicts
<1>2. SUFFICES ASSUME NEW m \in Three, Proceeded(m)'
               PROVE  PackageVerdict(m) = "ALREADY_APPLIED"
  BY <1>1 DEF PackageSettled
<1>3. CASE Proceeded(m)
  BY <1>3 DEF PackageInv, PackageSettled
<1>4. CASE ~Proceeded(m)
  BY <1>2, <1>4, PackageAssess DEF Proceeded, PackageInv, PackageType, Pkg!LifeTypeOK
<1>. QED
  BY <1>3, <1>4

\* A calm host stays calm.
LEMMA PackageAssessCalm ==
  ASSUME PackageInv, NEW n \in Three, Pkg!AssessState(n), calm' = CalmNext
  PROVE  PackageCalm'
<1>1. \A m \in Three : PackageVerdict(m)' = PackageVerdict(m)
  BY PackageAssess, SameVerdicts
<1>2. SUFFICES ASSUME calm' PROVE PackageCalm'
  BY DEF PackageCalm
<1>3. calm /\ ~faults /\ ~faults'
  BY <1>2, PackageAssess, CalmKept DEF PackageInv, PackageCalm
<1>4. \A m \in Three : /\ phase'[m] \in {"assess", "done"}
                       /\ outcome'[m] \in {"NONE", "SKIPPED_ALREADY_APPLIED"}
  BY <1>3, PackageAssess DEF PackageInv, PackageCalm, PackageType, Pkg!LifeTypeOK
<1>. QED
  BY <1>1, <1>3, <1>4 DEF PackageInv, PackageCalm

\* The second assessment of the first node confirms it.
LEMMA FirstFound ==
  ASSUME PackageInv
  PROVE  /\ phase[1] = "verify" => PackageVerdict(1) = "ALREADY_APPLIED"
         /\ manager = "apt" /\ PackageVerdict(1) = "ALREADY_APPLIED" =>
              keyring = "right" /\ sources = "wanted"
  BY DEF PackageInv, RepositoryInv, HomebrewInv, PackageVerdict, Pkg!RepositoryVerdict,
         Pkg!HomebrewVerdict

\* That of the second node does, unless the server's lists are old.
LEMMA SecondFound ==
  ASSUME PackageInv, ~faults, phase[2] = "verify"
  PROVE  /\ manager = "apt" /\ nature.recent => PackageVerdict(2) = "ALREADY_APPLIED"
         /\ manager # "apt" => PackageVerdict(2) = "ALREADY_APPLIED"
  BY DEF PackageInv, RepositoryInv, HomebrewInv, PackageVerdict, Pkg!UpdateVerdict,
         Pkg!TapVerdict

\* That of the third does, with the exceptions of EffectConfirmed.
LEMMA ThirdFound ==
  ASSUME PackageInv
  PROVE  /\ manager = "apt" /\ ~faults /\ phase[3] = "verify" =>
              PackageVerdict(3) = "ALREADY_APPLIED"
         /\ manager = "formula" /\ ~faults /\ phase[3] = "verify" =>
              PackageVerdict(3) = "ALREADY_APPLIED" \/ (params.version /\ before.version = 0)
         /\ manager = "cask" /\ ~faults /\ phase[3] = "verify" =>
              PackageVerdict(3) = "ALREADY_APPLIED"
              \/ (params.version /\ nature.newest # Pkg!Wanted)
         /\ PackageVerdict(3) = "ALREADY_APPLIED" =>
              /\ pkg.version # 0
              /\ params.version => pkg.version = Pkg!Wanted
              /\ params.keep => pkg.kept
         /\ manager = "apt" /\ PackageVerdict(3) = "INVALID" /\ lists.repo =>
              params.version /\ pkg.version > Pkg!Wanted
<1>1. /\ PackageWorld /\ AptInv /\ BrewInv /\ params.version \in BOOLEAN
      /\ manager # "apt" /\ phase[3] = "verify" => nature.path
      /\ params.keep \in BOOLEAN /\ pkg.kept \in BOOLEAN /\ nature.newest \in {2, 3}
  BY DEF PackageInv, PackageType, Pkg!Params, Pkg!Package, Pkg!Nature, HomebrewInv
<1>2. CASE manager = "apt"
  BY <1>1, <1>2 DEF AptInv, PackageVerdict, Pkg!AptVerdict, Pkg!Available, Pkg!Wanted
<1>3. CASE manager = "formula"
  BY <1>1, <1>3 DEF BrewInv, PackageVerdict, Pkg!FormulaVerdict, Pkg!OtherVersion,
                    Pkg!Wanted
<1>4. CASE manager = "cask"
  BY <1>1, <1>4 DEF BrewInv, PackageWorld, PackageVerdict, Pkg!CaskVerdict,
                    Pkg!OtherVersion, Pkg!Wanted
<1>. QED
  BY <1>1, <1>2, <1>3, <1>4 DEF PackageWorld

\* What brew is to install is not there, or there in the wanted version.
LEMMA ThirdReady ==
  ASSUME PackageInv, ~faults, phase[3] = "transition"
  PROVE  /\ manager = "cask" => pkg.version = 0
         /\ manager = "formula" /\ params.version => pkg.version \in {0, Pkg!Wanted}
<1>1. PackageVerdict(3) = "READY" /\ params.version \in BOOLEAN
  BY DEF PackageInv, BeforeInv, PackageType, Pkg!Params
<1>2. CASE manager = "formula"
  BY <1>1, <1>2 DEF PackageVerdict, Pkg!FormulaVerdict, Pkg!OtherVersion,
                    Pkg!Wanted
<1>3. CASE manager = "cask"
  BY <1>1, <1>3 DEF PackageVerdict, Pkg!CaskVerdict, Pkg!OtherVersion, PackageInv, PackageType,
                    Pkg!Package
<1>. QED
  BY <1>2, <1>3

\* What brew has installed when nothing has failed.
LEMMA BrewInstalled ==
  ASSUME PackageInv, NEW changer \in {"formula", "cask"}, Pkg!BrewInstall(changer),
         ~faults', phase'[3] \in {"keep", "verify"}
  PROVE  IF manager = "cask" THEN before'.version = 0 /\ pkg'.version = nature.newest
         ELSE IF params.version
         THEN before'.version = pkg'.version /\ pkg'.version \in {0, Pkg!Wanted}
         ELSE pkg'.version # 0
<1>1. PackageWorld /\ PackageType /\ nature.newest \in {2, 3} /\ params.version \in BOOLEAN
  BY DEF PackageInv, PackageType, Pkg!Nature, Pkg!Params
<1>2. /\ manager = changer /\ phase[3] = "transition" /\ before' = pkg /\ ~faults
      /\ \/ changer = "formula" /\ params.version /\ pkg'.version = pkg.version
         \/ /\ ~(changer = "formula" /\ params.version)
            /\ \/ pkg'.version = nature.newest
               \/ pkg.version # 0 /\ pkg'.version = pkg.version
         \/ Pkg!Returns(3, "FAILURE")
  BY <1>1, BrewInstallDoes
<1>3. ~Pkg!Returns(3, "FAILURE")
  BY <1>1 DEF PackageType
<1>. QED
  BY <1>1, <1>2, <1>3, ThirdReady

\* brew is there or not.
LEMMA RunScriptBrew ==
  ASSUME PackageInv, Pkg!RunScript
  PROVE  brew' \in BOOLEAN
  BY DEF Pkg!RunScript

\* The actions of Packages preserve the invariant, part by part.
\* The key is fetched.
LEMMA FetchKeyStep ==
  ASSUME PackageInv,
         Pkg!FetchKey,
         calm' = CalmNext
  PROVE  PackageInv'
<1>1. PackageWorld'
  BY FetchKeyDoes DEF PackageWorld, PackageInv
<1>2. PackageLife'
  BY FetchKeyDoes DEF PackageLife, LifeOf, InOrder, Proceeded, Undoing, PackageInv,
                      PackageType, Pkg!LifeTypeOK
<1>3. PackageType'
  BY FetchKeyDoes DEF PackageType, PackageInv, Pkg!LifeTypeOK, Pkg!Status
<1>4. RepositoryInv'
  BY FetchKeyDoes DEF RepositoryInv, Proceeded, PackageInv, PackageType, Pkg!LifeTypeOK
<1>5. HomebrewInv'
  BY FetchKeyDoes DEF HomebrewInv, PackageInv
<1>6. BeforeInv'
  BY FetchKeyDoes DEF BeforeInv, PackageInv, PackageLife, PackageType, LifeOf, InOrder,
                      Proceeded
<1>7. AptInv'
  BY FetchKeyDoes DEF AptInv, Pkg!Present, Pkg!Available, PackageInv, PackageType,
                      Pkg!LifeTypeOK
<1>8. BrewInv'
  BY FetchKeyDoes DEF BrewInv, PackageInv
<1>9. PackageSettled'
  BY FetchKeyDoes DEF PackageSettled, Proceeded, PackageLife, LifeOf, InOrder, PackageInv
<1>10. PackageCalm'
  BY CalmKept, FetchKeyDoes DEF PackageCalm, PackageInv
<1>11. PackageReported'
  BY FetchKeyDoes DEF PackageReported, Pkg!Present, PackageInv
<1>12. Pkg!PackageKept'
  BY FetchKeyDoes DEF Pkg!PackageKept, Pkg!Present, PackageInv
<1>13. Pkg!UpdateFindsPackage'
  BY FetchKeyDoes DEF Pkg!UpdateFindsPackage, PackageInv
<1>14. Pkg!NoSourceLeft'
  BY FetchKeyDoes DEF Pkg!NoSourceLeft, PackageInv
<1>. QED
  BY <1>1, <1>2, <1>3, <1>4, <1>5, <1>6, <1>7, <1>8, <1>9, <1>10, <1>11, <1>12, <1>13, <1>14
     DEF PackageInv

\* An old keyring is deleted.
LEMMA ClearKeyringStep ==
  ASSUME PackageInv,
         Pkg!ClearKeyring,
         calm' = CalmNext
  PROVE  PackageInv'
<1>1. PackageWorld'
  BY ClearKeyringDoes DEF PackageWorld, PackageInv
<1>2. PackageLife'
  BY ClearKeyringDoes DEF PackageLife, LifeOf, InOrder, Proceeded, Undoing, PackageInv,
                          PackageType, Pkg!LifeTypeOK
<1>3. PackageType'
  BY ClearKeyringDoes DEF PackageType, PackageInv, Pkg!LifeTypeOK, Pkg!Status
<1>4. RepositoryInv'
  BY ClearKeyringDoes DEF RepositoryInv, Proceeded, PackageInv, PackageLife, PackageType,
                          LifeOf
<1>5. HomebrewInv'
  BY ClearKeyringDoes DEF HomebrewInv, PackageInv
<1>6. BeforeInv'
  BY ClearKeyringDoes DEF BeforeInv, PackageInv, PackageLife, PackageType, LifeOf, InOrder,
                          Proceeded
<1>7. AptInv'
  BY ClearKeyringDoes DEF AptInv, Pkg!Present, Pkg!Available, PackageInv, PackageType
<1>8. BrewInv'
  BY ClearKeyringDoes DEF BrewInv, PackageInv
<1>9. PackageSettled'
  BY ClearKeyringDoes DEF PackageSettled, Proceeded, PackageLife, LifeOf, InOrder,
                          PackageInv
<1>10. PackageCalm'
  BY CalmKept, ClearKeyringDoes DEF PackageCalm, PackageInv
<1>11. PackageReported'
  BY ClearKeyringDoes DEF PackageReported, Pkg!Present, PackageInv
<1>12. Pkg!PackageKept'
  BY ClearKeyringDoes DEF Pkg!PackageKept, Pkg!Present, PackageInv
<1>13. Pkg!UpdateFindsPackage'
  BY ClearKeyringDoes DEF Pkg!UpdateFindsPackage, PackageInv
<1>14. Pkg!NoSourceLeft'
  BY ClearKeyringDoes DEF Pkg!NoSourceLeft, PackageInv
<1>. QED
  BY <1>1, <1>2, <1>3, <1>4, <1>5, <1>6, <1>7, <1>8, <1>9, <1>10, <1>11, <1>12, <1>13, <1>14
     DEF PackageInv

\* gpg --dearmor.
LEMMA DearmorStep ==
  ASSUME PackageInv,
         Pkg!Dearmor,
         calm' = CalmNext
  PROVE  PackageInv'
<1>1. PackageWorld'
  BY DearmorDoes DEF PackageWorld, PackageInv
<1>2. PackageLife'
  BY DearmorDoes DEF PackageLife, LifeOf, InOrder, Proceeded, Undoing, PackageInv,
                     PackageType, Pkg!LifeTypeOK
<1>3. PackageType'
  BY DearmorDoes DEF PackageType, PackageInv, Pkg!LifeTypeOK, Pkg!Status
<1>4. RepositoryInv'
  BY DearmorDoes DEF RepositoryInv, Proceeded, PackageInv, PackageLife, PackageType, LifeOf
<1>5. HomebrewInv'
  BY DearmorDoes DEF HomebrewInv, PackageInv
<1>6. BeforeInv'
  BY DearmorDoes DEF BeforeInv, PackageInv, PackageLife, PackageType, LifeOf, InOrder,
                     Proceeded
<1>7. AptInv'
  BY DearmorDoes DEF AptInv, Pkg!Present, Pkg!Available, PackageInv, PackageType
<1>8. BrewInv'
  BY DearmorDoes DEF BrewInv, PackageInv
<1>9. PackageSettled'
  BY DearmorDoes DEF PackageSettled, Proceeded, PackageLife, LifeOf, InOrder, PackageInv
<1>10. PackageCalm'
  BY CalmKept, DearmorDoes DEF PackageCalm, PackageInv
<1>11. PackageReported'
  BY DearmorDoes DEF PackageReported, Pkg!Present, PackageInv
<1>12. Pkg!PackageKept'
  BY DearmorDoes DEF Pkg!PackageKept, Pkg!Present, PackageInv
<1>13. Pkg!UpdateFindsPackage'
  BY DearmorDoes DEF Pkg!UpdateFindsPackage, PackageInv
<1>14. Pkg!NoSourceLeft'
  BY DearmorDoes DEF Pkg!NoSourceLeft, PackageInv, PackageLife, LifeOf
<1>. QED
  BY <1>1, <1>2, <1>3, <1>4, <1>5, <1>6, <1>7, <1>8, <1>9, <1>10, <1>11, <1>12, <1>13, <1>14
     DEF PackageInv

\* The fingerprint is checked.
LEMMA CheckFingerprintStep ==
  ASSUME PackageInv,
         Pkg!CheckFingerprint,
         calm' = CalmNext
  PROVE  PackageInv'
<1>1. PackageWorld'
  BY CheckFingerprintDoes DEF PackageWorld, PackageInv
<1>2. PackageLife'
  BY CheckFingerprintDoes DEF PackageLife, LifeOf, InOrder, Proceeded, Undoing, PackageInv,
                              PackageType, Pkg!LifeTypeOK
<1>3. PackageType'
  BY CheckFingerprintDoes DEF PackageType, PackageInv, Pkg!LifeTypeOK, Pkg!Status
<1>4. RepositoryInv'
  BY CheckFingerprintDoes DEF RepositoryInv, Proceeded, PackageInv, PackageLife,
                              PackageType, LifeOf, Pkg!LifeTypeOK
<1>5. HomebrewInv'
  BY CheckFingerprintDoes DEF HomebrewInv, PackageInv
<1>6. BeforeInv'
  BY CheckFingerprintDoes DEF BeforeInv, PackageInv, PackageLife, PackageType, LifeOf,
                              InOrder, Proceeded
<1>7. AptInv'
  BY CheckFingerprintDoes DEF AptInv, Pkg!Present, Pkg!Available, PackageInv, PackageType,
                              Pkg!LifeTypeOK
<1>8. BrewInv'
  BY CheckFingerprintDoes DEF BrewInv, PackageInv
<1>9. PackageSettled'
  BY CheckFingerprintDoes DEF PackageSettled, Proceeded, PackageLife, LifeOf, InOrder,
                              PackageInv
<1>10. PackageCalm'
  BY CalmKept, CheckFingerprintDoes DEF PackageCalm, PackageInv
<1>11. PackageReported'
  BY CheckFingerprintDoes DEF PackageReported, Pkg!Present, PackageInv
<1>12. Pkg!PackageKept'
  BY CheckFingerprintDoes DEF Pkg!PackageKept, Pkg!Present, PackageInv
<1>13. Pkg!UpdateFindsPackage'
  BY CheckFingerprintDoes DEF Pkg!UpdateFindsPackage, PackageInv
<1>14. Pkg!NoSourceLeft'
  BY CheckFingerprintDoes DEF Pkg!NoSourceLeft, PackageInv
<1>. QED
  BY <1>1, <1>2, <1>3, <1>4, <1>5, <1>6, <1>7, <1>8, <1>9, <1>10, <1>11, <1>12, <1>13, <1>14
     DEF PackageInv

\* The source file is written.
LEMMA WriteSourcesStep ==
  ASSUME PackageInv,
         Pkg!WriteSources,
         calm' = CalmNext
  PROVE  PackageInv'
<1>1. PackageWorld'
  BY WriteSourcesDoes DEF PackageWorld, PackageInv
<1>2. PackageLife'
  BY WriteSourcesDoes DEF PackageLife, LifeOf, InOrder, Proceeded, Undoing, PackageInv,
                          PackageType, Pkg!LifeTypeOK
<1>3. PackageType'
  BY WriteSourcesDoes DEF PackageType, PackageInv, Pkg!LifeTypeOK, Pkg!Status
<1>4. RepositoryInv'
  BY WriteSourcesDoes DEF RepositoryInv, Proceeded, PackageInv, PackageLife, PackageType,
                          LifeOf, Pkg!LifeTypeOK
<1>5. HomebrewInv'
  BY WriteSourcesDoes DEF HomebrewInv, PackageInv
<1>6. BeforeInv'
  BY WriteSourcesDoes DEF BeforeInv, PackageInv, PackageLife, PackageType, LifeOf, InOrder,
                          Proceeded
<1>7. AptInv'
  BY WriteSourcesDoes DEF AptInv, Pkg!Present, Pkg!Available, PackageInv, PackageType,
                          Pkg!LifeTypeOK
<1>8. BrewInv'
  BY WriteSourcesDoes DEF BrewInv, PackageInv
<1>9. PackageSettled'
  BY WriteSourcesDoes DEF PackageSettled, Proceeded, PackageLife, LifeOf, InOrder,
                          PackageInv
<1>10. PackageCalm'
  BY CalmKept, WriteSourcesDoes DEF PackageCalm, PackageInv
<1>11. PackageReported'
  BY WriteSourcesDoes DEF PackageReported, Pkg!Present, PackageInv
<1>12. Pkg!PackageKept'
  BY WriteSourcesDoes DEF Pkg!PackageKept, Pkg!Present, PackageInv
<1>13. Pkg!UpdateFindsPackage'
  BY WriteSourcesDoes DEF Pkg!UpdateFindsPackage, PackageInv
<1>14. Pkg!NoSourceLeft'
  BY WriteSourcesDoes DEF Pkg!NoSourceLeft, PackageInv, PackageLife, LifeOf
<1>. QED
  BY <1>1, <1>2, <1>3, <1>4, <1>5, <1>6, <1>7, <1>8, <1>9, <1>10, <1>11, <1>12, <1>13, <1>14
     DEF PackageInv

\* The inverse deletes it.
LEMMA RemoveSourcesStep ==
  ASSUME PackageInv,
         Pkg!RemoveSources,
         calm' = CalmNext
  PROVE  PackageInv'
<1>1. PackageWorld'
  BY RemoveSourcesDoes DEF PackageWorld, PackageInv
<1>2. PackageLife'
  BY RemoveSourcesDoes DEF PackageLife, LifeOf, InOrder, Proceeded, Undoing, PackageInv,
                           PackageType, Pkg!LifeTypeOK
<1>3. PackageType'
  BY RemoveSourcesDoes DEF PackageType, PackageInv, Pkg!LifeTypeOK, Pkg!Status
<1>4. RepositoryInv'
  BY RemoveSourcesDoes DEF RepositoryInv, Proceeded, PackageInv, PackageLife, PackageType,
                           LifeOf, Pkg!LifeTypeOK
<1>5. HomebrewInv'
  BY RemoveSourcesDoes DEF HomebrewInv, PackageInv
<1>6. BeforeInv'
  BY RemoveSourcesDoes DEF BeforeInv, PackageInv, PackageLife, PackageType, LifeOf, InOrder,
                           Proceeded
<1>7. AptInv'
  BY RemoveSourcesDoes DEF AptInv, Pkg!Present, Pkg!Available, PackageInv, PackageType,
                           Pkg!LifeTypeOK
<1>8. BrewInv'
  BY RemoveSourcesDoes DEF BrewInv, PackageInv
<1>9. PackageSettled'
  BY RemoveSourcesDoes DEF PackageSettled, Proceeded, PackageLife, LifeOf, InOrder,
                           PackageInv, PackageType, Pkg!LifeTypeOK
<1>10. PackageCalm'
  BY CalmKept, RemoveSourcesDoes DEF PackageCalm, PackageInv
<1>11. PackageReported'
  BY RemoveSourcesDoes DEF PackageReported, Pkg!Present, PackageInv, PackageType,
                           Pkg!LifeTypeOK
<1>12. Pkg!PackageKept'
  BY RemoveSourcesDoes DEF Pkg!PackageKept, Pkg!Present, PackageInv
<1>13. Pkg!UpdateFindsPackage'
  BY RemoveSourcesDoes DEF Pkg!UpdateFindsPackage, PackageInv, PackageType, Pkg!LifeTypeOK
<1>14. Pkg!NoSourceLeft'
  BY RemoveSourcesDoes DEF Pkg!NoSourceLeft, PackageInv, PackageType, Pkg!LifeTypeOK
<1>. QED
  BY <1>1, <1>2, <1>3, <1>4, <1>5, <1>6, <1>7, <1>8, <1>9, <1>10, <1>11, <1>12, <1>13, <1>14
     DEF PackageInv

\* The inverse deletes the keyring.
LEMMA RemoveKeyringStep ==
  ASSUME PackageInv,
         Pkg!RemoveKeyring,
         calm' = CalmNext
  PROVE  PackageInv'
<1>1. PackageWorld'
  BY RemoveKeyringDoes DEF PackageWorld, PackageInv
<1>2. PackageLife'
  BY RemoveKeyringDoes DEF PackageLife, LifeOf, InOrder, Proceeded, Undoing, PackageInv,
                           PackageType, Pkg!LifeTypeOK
<1>3. PackageType'
  BY RemoveKeyringDoes DEF PackageType, PackageInv, Pkg!LifeTypeOK, Pkg!Status
<1>4. RepositoryInv'
  BY RemoveKeyringDoes DEF RepositoryInv, Proceeded, PackageInv, PackageType, Pkg!LifeTypeOK
<1>5. HomebrewInv'
  BY RemoveKeyringDoes DEF HomebrewInv, PackageInv
<1>6. BeforeInv'
  BY RemoveKeyringDoes DEF BeforeInv, PackageInv, PackageLife, PackageType, LifeOf, InOrder,
                           Proceeded
<1>7. AptInv'
  BY RemoveKeyringDoes DEF AptInv, Pkg!Present, Pkg!Available, PackageInv, PackageType,
                           Pkg!LifeTypeOK
<1>8. BrewInv'
  BY RemoveKeyringDoes DEF BrewInv, PackageInv
<1>9. PackageSettled'
  BY RemoveKeyringDoes DEF PackageSettled, Proceeded, PackageLife, LifeOf, InOrder,
                           PackageInv, PackageType, Pkg!LifeTypeOK
<1>10. PackageCalm'
  BY CalmKept, RemoveKeyringDoes DEF PackageCalm, PackageInv
<1>11. PackageReported'
  BY RemoveKeyringDoes DEF PackageReported, Pkg!Present, PackageInv, PackageType,
                           Pkg!LifeTypeOK
<1>12. Pkg!PackageKept'
  BY RemoveKeyringDoes DEF Pkg!PackageKept, Pkg!Present, PackageInv
<1>13. Pkg!UpdateFindsPackage'
  BY RemoveKeyringDoes DEF Pkg!UpdateFindsPackage, PackageInv, PackageType, Pkg!LifeTypeOK
<1>14. Pkg!NoSourceLeft'
  BY RemoveKeyringDoes DEF Pkg!NoSourceLeft, PackageInv, PackageType, Pkg!LifeTypeOK,
                           RepositoryInv
<1>. QED
  BY <1>1, <1>2, <1>3, <1>4, <1>5, <1>6, <1>7, <1>8, <1>9, <1>10, <1>11, <1>12, <1>13, <1>14
     DEF PackageInv

\* apt-get update.
LEMMA AptUpdateStep ==
  ASSUME PackageInv,
         Pkg!AptUpdate,
         calm' = CalmNext
  PROVE  PackageInv'
<1>1. PackageWorld'
  BY AptUpdateDoes DEF PackageWorld, PackageInv
<1>2. PackageLife'
  BY AptUpdateDoes DEF PackageLife, LifeOf, InOrder, Proceeded, Undoing, PackageInv,
                       PackageType, Pkg!LifeTypeOK
<1>3. PackageType'
  BY AptUpdateDoes DEF PackageType, PackageInv, Pkg!LifeTypeOK, Pkg!Status
<1>4. RepositoryInv'
  BY AptUpdateDoes DEF RepositoryInv, PackageInv, PackageLife, PackageType, Pkg!LifeTypeOK,
                       InOrder
<1>5. HomebrewInv'
  BY AptUpdateDoes DEF HomebrewInv, PackageInv
<1>6. BeforeInv'
  BY AptUpdateDoes DEF BeforeInv, PackageInv, PackageLife, PackageType, LifeOf, InOrder,
                       Proceeded
<1>7. AptInv'
  BY AptUpdateDoes DEF AptInv, PackageInv, PackageLife, PackageType, LifeOf, Pkg!LifeTypeOK,
                       InOrder, Proceeded
<1>8. BrewInv'
  BY AptUpdateDoes DEF BrewInv, PackageInv
<1>9. PackageSettled'
  BY AptUpdateDoes DEF PackageSettled, Proceeded, PackageLife, LifeOf, InOrder,
                       PackageVerdict, Pkg!RepositoryVerdict, PackageInv
<1>10. PackageCalm'
  BY CalmKept, AptUpdateDoes DEF PackageCalm, PackageInv
<1>11. PackageReported'
  BY AptUpdateDoes DEF PackageReported, Pkg!Present, PackageInv
<1>12. Pkg!PackageKept'
  BY AptUpdateDoes DEF Pkg!PackageKept, Pkg!Present, PackageInv
<1>13. Pkg!UpdateFindsPackage'
  BY AptUpdateDoes DEF Pkg!UpdateFindsPackage, PackageInv
<1>14. Pkg!NoSourceLeft'
  BY AptUpdateDoes DEF Pkg!NoSourceLeft, PackageInv
<1>. QED
  BY <1>1, <1>2, <1>3, <1>4, <1>5, <1>6, <1>7, <1>8, <1>9, <1>10, <1>11, <1>12, <1>13, <1>14
     DEF PackageInv

\* The script of Homebrew is fetched.
LEMMA FetchScriptStep ==
  ASSUME PackageInv,
         Pkg!FetchScript,
         calm' = CalmNext
  PROVE  PackageInv'
<1>1. PackageWorld'
  BY FetchScriptDoes DEF PackageWorld, PackageInv
<1>2. PackageLife'
  BY FetchScriptDoes DEF PackageLife, LifeOf, InOrder, Proceeded, Undoing, PackageInv,
                         PackageType, Pkg!LifeTypeOK
<1>3. PackageType'
  BY FetchScriptDoes DEF PackageType, PackageInv, Pkg!LifeTypeOK, Pkg!Status
<1>4. RepositoryInv'
  BY FetchScriptDoes DEF RepositoryInv, PackageInv
<1>5. HomebrewInv'
  BY FetchScriptDoes DEF HomebrewInv, PackageInv, PackageType
<1>6. BeforeInv'
  BY FetchScriptDoes DEF BeforeInv, PackageVerdict, Pkg!FormulaVerdict, Pkg!CaskVerdict,
                         Pkg!OtherVersion, PackageInv, PackageType, PackageWorld
<1>7. AptInv'
  BY FetchScriptDoes DEF AptInv, PackageInv
<1>8. BrewInv'
  BY FetchScriptDoes DEF BrewInv, PackageInv, PackageType
<1>9. PackageSettled'
  BY FetchScriptDoes DEF PackageSettled, Proceeded, PackageLife, LifeOf, InOrder, PackageInv
<1>10. PackageCalm'
  BY CalmKept, FetchScriptDoes DEF PackageCalm, PackageInv
<1>11. PackageReported'
  BY FetchScriptDoes DEF PackageReported, Pkg!Present, PackageInv
<1>12. Pkg!PackageKept'
  BY FetchScriptDoes DEF Pkg!PackageKept, Pkg!Present, PackageInv
<1>13. Pkg!UpdateFindsPackage'
  BY FetchScriptDoes DEF Pkg!UpdateFindsPackage, PackageInv
<1>14. Pkg!NoSourceLeft'
  BY FetchScriptDoes DEF Pkg!NoSourceLeft, PackageInv
<1>. QED
  BY <1>1, <1>2, <1>3, <1>4, <1>5, <1>6, <1>7, <1>8, <1>9, <1>10, <1>11, <1>12, <1>13, <1>14
     DEF PackageInv

\* The script is run.
LEMMA RunScriptStep ==
  ASSUME PackageInv,
         Pkg!RunScript,
         calm' = CalmNext
  PROVE  PackageInv'
<1>1. PackageWorld'
  BY RunScriptDoes DEF PackageWorld, PackageInv
<1>2. PackageLife'
  BY RunScriptDoes DEF PackageLife, LifeOf, InOrder, Proceeded, Undoing, PackageInv,
                       PackageType, Pkg!LifeTypeOK
<1>3. PackageType'
  <2>1. (Pkg!LifeTypeOK)'
    BY RunScriptDoes DEF PackageType, PackageInv, Pkg!LifeTypeOK, Pkg!Status
  <2>2. (phase \in [Three -> {"assess", "transition", "clear", "dearmor", "fingerprint", "sources",
                             "script", "keep", "verify", "rollback", "undo_keyring", "done"}])'
    BY RunScriptDoes DEF PackageType, PackageInv
  <2>3. (faults \in BOOLEAN)'
    BY RunScriptDoes DEF PackageType, PackageInv
  <2>4. (params \in Pkg!Params)'
    BY RunScriptDoes DEF PackageType, PackageInv
  <2>5. (nature \in Pkg!Nature)'
    BY RunScriptDoes DEF PackageType, PackageInv
  <2>6. (keyring \in {"none", "right", "wrong"})'
    BY RunScriptDoes DEF PackageType, PackageInv
  <2>7. (sources \in {"none", "wanted", "other", "torn"})'
    BY RunScriptDoes DEF PackageType, PackageInv
  <2>8. (lists \in [recent : BOOLEAN, repo : BOOLEAN])'
    BY RunScriptDoes DEF PackageType, PackageInv
  <2>9. (brew \in BOOLEAN)'
    BY RunScriptBrew
  <2>10. (tap \in {"none", "wanted", "other"})'
    BY RunScriptDoes DEF PackageType, PackageInv
  <2>11. (pkg \in Pkg!Package)'
    BY RunScriptDoes DEF PackageType, PackageInv
  <2>12. (before \in Pkg!Package)'
    BY RunScriptDoes DEF PackageType, PackageInv
  <2>13. (runs \in 1 .. MaxRuns)'
    BY RunScriptDoes DEF PackageType, PackageInv
  <2>. QED
    BY <2>1, <2>2, <2>3, <2>4, <2>5, <2>6, <2>7, <2>8, <2>9, <2>10, <2>11, <2>12, <2>13
       DEF PackageType
<1>4. RepositoryInv'
  BY RunScriptDoes DEF RepositoryInv, PackageInv
<1>5. HomebrewInv'
  BY RunScriptDoes DEF HomebrewInv, PackageInv, PackageType, Pkg!LifeTypeOK
<1>6. BeforeInv'
  BY RunScriptDoes DEF BeforeInv, PackageVerdict, Pkg!FormulaVerdict, Pkg!CaskVerdict,
                       Pkg!OtherVersion, PackageInv, PackageType, PackageWorld
<1>7. AptInv'
  BY RunScriptDoes DEF AptInv, PackageInv
<1>8. BrewInv'
  BY RunScriptDoes DEF BrewInv, PackageInv, PackageType, Pkg!LifeTypeOK
<1>9. PackageSettled'
  BY RunScriptDoes DEF PackageSettled, Proceeded, PackageLife, LifeOf, InOrder, PackageInv
<1>10. PackageCalm'
  BY CalmKept, RunScriptDoes DEF PackageCalm, PackageInv
<1>11. PackageReported'
  BY RunScriptDoes DEF PackageReported, Pkg!Present, PackageInv
<1>12. Pkg!PackageKept'
  BY RunScriptDoes DEF Pkg!PackageKept, Pkg!Present, PackageInv
<1>13. Pkg!UpdateFindsPackage'
  BY RunScriptDoes DEF Pkg!UpdateFindsPackage, PackageInv
<1>14. Pkg!NoSourceLeft'
  BY RunScriptDoes DEF Pkg!NoSourceLeft, PackageInv
<1>. QED
  BY <1>1, <1>2, <1>3, <1>4, <1>5, <1>6, <1>7, <1>8, <1>9, <1>10, <1>11, <1>12, <1>13, <1>14
     DEF PackageInv

\* brew tap.
LEMMA BrewTapStep ==
  ASSUME PackageInv,
         Pkg!BrewTap,
         calm' = CalmNext
  PROVE  PackageInv'
<1>1. PackageWorld'
  BY BrewTapDoes DEF PackageWorld, PackageInv
<1>2. PackageLife'
  BY BrewTapDoes DEF PackageLife, LifeOf, InOrder, Proceeded, Undoing, PackageInv,
                     PackageType, Pkg!LifeTypeOK
<1>3. PackageType'
  BY BrewTapDoes DEF PackageType, PackageInv, Pkg!LifeTypeOK, Pkg!Status
<1>4. RepositoryInv'
  BY BrewTapDoes DEF RepositoryInv, PackageInv
<1>5. HomebrewInv'
  BY BrewTapDoes DEF HomebrewInv, PackageInv, PackageType, Pkg!LifeTypeOK
<1>6. BeforeInv'
  BY BrewTapDoes DEF BeforeInv, PackageVerdict, Pkg!FormulaVerdict, Pkg!CaskVerdict,
                     Pkg!OtherVersion, PackageInv, PackageType, PackageWorld
<1>7. AptInv'
  BY BrewTapDoes DEF AptInv, PackageInv
<1>8. BrewInv'
  BY BrewTapDoes DEF BrewInv, PackageInv, PackageType, Pkg!LifeTypeOK
<1>9. PackageSettled'
  BY BrewTapDoes DEF PackageSettled, Proceeded, PackageLife, LifeOf, InOrder,
                     PackageVerdict, Pkg!HomebrewVerdict, PackageInv
<1>10. PackageCalm'
  BY CalmKept, BrewTapDoes DEF PackageCalm, PackageInv
<1>11. PackageReported'
  BY BrewTapDoes DEF PackageReported, Pkg!Present, PackageInv
<1>12. Pkg!PackageKept'
  BY BrewTapDoes DEF Pkg!PackageKept, Pkg!Present, PackageInv
<1>13. Pkg!UpdateFindsPackage'
  BY BrewTapDoes DEF Pkg!UpdateFindsPackage, PackageInv
<1>14. Pkg!NoSourceLeft'
  BY BrewTapDoes DEF Pkg!NoSourceLeft, PackageInv
<1>. QED
  BY <1>1, <1>2, <1>3, <1>4, <1>5, <1>6, <1>7, <1>8, <1>9, <1>10, <1>11, <1>12, <1>13, <1>14
     DEF PackageInv

\* brew untap.
LEMMA BrewUntapStep ==
  ASSUME PackageInv,
         Pkg!BrewUntap,
         calm' = CalmNext
  PROVE  PackageInv'
<1>1. PackageWorld'
  BY BrewUntapDoes DEF PackageWorld, PackageInv
<1>2. PackageLife'
  BY BrewUntapDoes DEF PackageLife, LifeOf, InOrder, Proceeded, Undoing, PackageInv,
                       PackageType, Pkg!LifeTypeOK
<1>3. PackageType'
  BY BrewUntapDoes DEF PackageType, PackageInv, Pkg!LifeTypeOK, Pkg!Status
<1>4. RepositoryInv'
  BY BrewUntapDoes DEF RepositoryInv, PackageInv
<1>5. HomebrewInv'
  BY BrewUntapDoes DEF HomebrewInv, PackageInv, PackageType
<1>6. BeforeInv'
  BY BrewUntapDoes DEF BeforeInv, PackageInv, PackageLife, PackageType, LifeOf, InOrder,
                       Proceeded
<1>7. AptInv'
  BY BrewUntapDoes DEF AptInv, PackageInv
<1>8. BrewInv'
  BY BrewUntapDoes DEF BrewInv, PackageInv, PackageType
<1>9. PackageSettled'
  BY BrewUntapDoes DEF PackageSettled, Proceeded, PackageLife, LifeOf, InOrder,
                       PackageVerdict, Pkg!HomebrewVerdict, PackageInv, PackageType,
                       Pkg!LifeTypeOK
<1>10. PackageCalm'
  BY CalmKept, BrewUntapDoes DEF PackageCalm, PackageInv
<1>11. PackageReported'
  BY BrewUntapDoes DEF PackageReported, Pkg!Present, PackageInv, PackageType, Pkg!LifeTypeOK
<1>12. Pkg!PackageKept'
  BY BrewUntapDoes DEF Pkg!PackageKept, Pkg!Present, PackageInv
<1>13. Pkg!UpdateFindsPackage'
  BY BrewUntapDoes DEF Pkg!UpdateFindsPackage, PackageInv
<1>14. Pkg!NoSourceLeft'
  BY BrewUntapDoes DEF Pkg!NoSourceLeft, PackageInv
<1>. QED
  BY <1>1, <1>2, <1>3, <1>4, <1>5, <1>6, <1>7, <1>8, <1>9, <1>10, <1>11, <1>12, <1>13, <1>14
     DEF PackageInv

\* Nodes without an inverse.
LEMMA CannotUndoStep ==
  ASSUME PackageInv,
         Pkg!CannotUndo,
         calm' = CalmNext
  PROVE  PackageInv'
<1>1. PackageWorld'
  BY CannotUndoDoes DEF PackageWorld, PackageInv
<1>2. PackageLife'
  BY CannotUndoDoes DEF PackageLife, LifeOf, InOrder, Proceeded, Undoing, PackageInv,
                        PackageType, Pkg!LifeTypeOK
<1>3. PackageType'
  BY CannotUndoDoes DEF PackageType, PackageInv, Pkg!LifeTypeOK
<1>4. RepositoryInv'
  BY CannotUndoDoes DEF RepositoryInv, Proceeded, PackageInv, PackageType, Pkg!LifeTypeOK
<1>5. HomebrewInv'
  BY CannotUndoDoes DEF HomebrewInv, PackageInv, PackageType
<1>6. BeforeInv'
  BY CannotUndoDoes DEF BeforeInv, PackageInv, PackageLife, PackageType, LifeOf, InOrder,
                        Proceeded
<1>7. AptInv'
  BY CannotUndoDoes DEF AptInv, Pkg!Present, Pkg!Available, PackageInv, PackageType,
                        Pkg!LifeTypeOK
<1>8. BrewInv'
  BY CannotUndoDoes DEF BrewInv, PackageInv, PackageType
<1>9. PackageSettled'
  BY CannotUndoDoes DEF PackageSettled, Proceeded, PackageLife, LifeOf, InOrder,
                        PackageVerdict, Pkg!RepositoryVerdict, PackageInv, PackageType,
                        Pkg!LifeTypeOK
<1>10. PackageCalm'
  BY CalmKept, CannotUndoDoes DEF PackageCalm, PackageInv
<1>11. PackageReported'
  BY CannotUndoDoes DEF PackageReported, Pkg!Present, PackageInv, PackageType,
                        Pkg!LifeTypeOK
<1>12. Pkg!PackageKept'
  BY CannotUndoDoes DEF Pkg!PackageKept, Pkg!Present, PackageInv
<1>13. Pkg!UpdateFindsPackage'
  BY CannotUndoDoes DEF Pkg!UpdateFindsPackage, PackageInv, PackageType, Pkg!LifeTypeOK
<1>14. Pkg!NoSourceLeft'
  BY CannotUndoDoes DEF Pkg!NoSourceLeft, PackageInv
<1>. QED
  BY <1>1, <1>2, <1>3, <1>4, <1>5, <1>6, <1>7, <1>8, <1>9, <1>10, <1>11, <1>12, <1>13, <1>14
     DEF PackageInv

\* apt-get install.
LEMMA AptInstallStep ==
  ASSUME PackageInv,
         Pkg!AptInstall,
         calm' = CalmNext
  PROVE  PackageInv'
<1>1. PackageWorld'
  BY AptInstallDoes DEF PackageWorld, PackageInv
<1>2. PackageLife'
  BY AptInstallDoes DEF PackageLife, LifeOf, InOrder, Proceeded, Undoing, PackageInv,
                        PackageType, Pkg!LifeTypeOK
<1>3. PackageType'
  BY AptInstallDoes DEF PackageType, PackageInv, Pkg!LifeTypeOK, Pkg!Status
<1>4. RepositoryInv'
  BY AptInstallDoes DEF RepositoryInv, Proceeded, PackageInv, PackageType, Pkg!LifeTypeOK
<1>5. HomebrewInv'
  BY AptInstallDoes DEF HomebrewInv
<1>6. BeforeInv'
  BY AptInstallDoes DEF BeforeInv, PackageInv, PackageLife, PackageType, LifeOf
<1>7. AptInv'
  BY AptInstallDoes DEF AptInv, Pkg!Present, Pkg!Available, PackageInv, PackageType,
                        Pkg!LifeTypeOK
<1>8. BrewInv'
  BY AptInstallDoes DEF BrewInv
<1>9. PackageSettled'
  BY AptInstallDoes DEF PackageSettled, Proceeded, PackageLife, LifeOf, PackageVerdict,
                        Pkg!RepositoryVerdict, Pkg!UpdateVerdict, PackageInv, PackageWorld
<1>10. PackageCalm'
  BY CalmKept, AptInstallDoes DEF PackageCalm, PackageInv
<1>11. PackageReported'
  BY AptInstallDoes DEF PackageReported, PackageInv, PackageLife, LifeOf
<1>12. Pkg!PackageKept'
  BY AptInstallDoes DEF Pkg!PackageKept, Pkg!Present
<1>13. Pkg!UpdateFindsPackage'
  BY AptInstallDoes DEF Pkg!UpdateFindsPackage, PackageInv, PackageLife, LifeOf
<1>14. Pkg!NoSourceLeft'
  BY AptInstallDoes DEF Pkg!NoSourceLeft, PackageInv
<1>. QED
  BY <1>1, <1>2, <1>3, <1>4, <1>5, <1>6, <1>7, <1>8, <1>9, <1>10, <1>11, <1>12, <1>13, <1>14
     DEF PackageInv

\* apt-get remove.
LEMMA AptRemoveStep ==
  ASSUME PackageInv,
         Pkg!AptRemove,
         calm' = CalmNext
  PROVE  PackageInv'
<1>1. PackageWorld'
  BY AptRemoveDoes DEF PackageWorld, PackageInv
<1>2. PackageLife'
  BY AptRemoveDoes DEF PackageLife, LifeOf, InOrder, Proceeded, Undoing, PackageInv,
                       PackageType, Pkg!LifeTypeOK
<1>3. PackageType'
  BY AptRemoveDoes DEF PackageType, PackageInv, Pkg!LifeTypeOK, Pkg!Status
<1>4. RepositoryInv'
  BY AptRemoveDoes DEF RepositoryInv, Proceeded, PackageInv, PackageType, Pkg!LifeTypeOK
<1>5. HomebrewInv'
  BY AptRemoveDoes DEF HomebrewInv, PackageInv
<1>6. BeforeInv'
  BY AptRemoveDoes DEF BeforeInv, PackageInv, PackageType, Pkg!LifeTypeOK
<1>7. AptInv'
  BY AptRemoveDoes DEF AptInv, PackageInv, PackageType
<1>8. BrewInv'
  BY AptRemoveDoes DEF BrewInv, PackageInv
<1>9. PackageSettled'
  BY AptRemoveDoes DEF PackageSettled, Proceeded, PackageVerdict, Pkg!RepositoryVerdict,
                       Pkg!UpdateVerdict, PackageInv, PackageType, Pkg!LifeTypeOK
<1>10. PackageCalm'
  BY CalmKept, AptRemoveDoes DEF PackageCalm, PackageInv
<1>11. PackageReported'
  BY AptRemoveDoes DEF PackageReported, PackageInv, PackageType, Pkg!LifeTypeOK
<1>12. Pkg!PackageKept'
  BY AptRemoveDoes DEF Pkg!PackageKept, Pkg!Present, PackageInv, AptInv
<1>13. Pkg!UpdateFindsPackage'
  BY AptRemoveDoes DEF Pkg!UpdateFindsPackage, PackageInv, PackageType, Pkg!LifeTypeOK,
                       AptInv
<1>14. Pkg!NoSourceLeft'
  BY AptRemoveDoes DEF Pkg!NoSourceLeft, PackageInv, PackageType, Pkg!LifeTypeOK
<1>. QED
  BY <1>1, <1>2, <1>3, <1>4, <1>5, <1>6, <1>7, <1>8, <1>9, <1>10, <1>11, <1>12, <1>13, <1>14
     DEF PackageInv

\* apt-mark hold or brew pin.
LEMMA KeepStep ==
  ASSUME PackageInv,
         NEW changer \in {"apt", "formula"},
         Pkg!Keep(changer),
         calm' = CalmNext
  PROVE  PackageInv'
<1>1. PackageWorld'
  BY KeepDoes DEF PackageWorld, PackageInv, AptInv
<1>2. PackageLife'
  BY KeepDoes DEF PackageLife, LifeOf, InOrder, Proceeded, Undoing, PackageInv, PackageType,
                  Pkg!LifeTypeOK
<1>3. PackageType'
  BY KeepDoes DEF PackageType, PackageInv, Pkg!LifeTypeOK, Pkg!Status
<1>4. RepositoryInv'
  BY KeepDoes DEF RepositoryInv, Proceeded, PackageInv, PackageType, Pkg!LifeTypeOK
<1>5. HomebrewInv'
  BY KeepDoes DEF HomebrewInv, PackageInv, PackageType, Pkg!LifeTypeOK
<1>6. BeforeInv'
  BY KeepDoes DEF BeforeInv, PackageInv, PackageLife, PackageType, LifeOf
<1>7. AptInv'
  BY KeepDoes DEF AptInv, Pkg!Available, PackageInv, PackageType, Pkg!LifeTypeOK
<1>8. BrewInv'
  BY KeepDoes DEF BrewInv, PackageInv, PackageType, Pkg!LifeTypeOK
<1>9. PackageSettled'
  BY KeepDoes DEF PackageSettled, Proceeded, PackageLife, LifeOf, PackageVerdict,
                  Pkg!RepositoryVerdict, Pkg!HomebrewVerdict, Pkg!UpdateVerdict,
                  Pkg!TapVerdict, PackageInv
<1>10. PackageCalm'
  BY CalmKept, KeepDoes DEF PackageCalm, PackageInv
<1>11. PackageReported'
  BY KeepDoes DEF PackageReported, Pkg!Present, PackageInv
<1>12. Pkg!PackageKept'
  BY KeepDoes DEF Pkg!PackageKept, Pkg!Present, PackageInv
<1>13. Pkg!UpdateFindsPackage'
  BY KeepDoes DEF Pkg!UpdateFindsPackage, PackageInv
<1>14. Pkg!NoSourceLeft'
  BY KeepDoes DEF Pkg!NoSourceLeft, PackageInv
<1>. QED
  BY <1>1, <1>2, <1>3, <1>4, <1>5, <1>6, <1>7, <1>8, <1>9, <1>10, <1>11, <1>12, <1>13, <1>14
     DEF PackageInv

\* brew install.
LEMMA BrewInstallStep ==
  ASSUME PackageInv,
         NEW changer \in {"formula", "cask"},
         Pkg!BrewInstall(changer),
         calm' = CalmNext
  PROVE  PackageInv'
<1>1. PackageWorld'
  BY BrewInstallDoes DEF PackageWorld, PackageInv, PackageType, Pkg!Nature
<1>2. PackageLife'
  BY BrewInstallDoes DEF PackageLife, LifeOf, InOrder, Proceeded, Undoing, PackageInv,
                         PackageType, Pkg!LifeTypeOK
<1>3. PackageType'
  BY BrewInstallDoes DEF PackageType, PackageInv, Pkg!LifeTypeOK, Pkg!Status
<1>4. RepositoryInv'
  BY BrewInstallDoes DEF RepositoryInv, PackageInv
<1>5. HomebrewInv'
  BY BrewInstallDoes DEF HomebrewInv, PackageInv, PackageType, Pkg!LifeTypeOK
<1>6. BeforeInv'
  BY BrewInstallDoes DEF BeforeInv, PackageInv, PackageLife, PackageType, LifeOf
<1>7. AptInv'
  BY BrewInstallDoes DEF AptInv, PackageInv
<1>8. BrewInv'
  <2>1. (manager # "apt" =>
          (phase[3] = "keep" => params.keep))'
    BY BrewInstallDoes DEF BrewInv, PackageInv, PackageType
  <2>2. (manager # "apt" =>
          (phase[3] = "verify" /\ params.keep => pkg.kept))'
    BY BrewInstallDoes DEF BrewInv, PackageInv, PackageType
  <2>3. (manager # "apt" =>
          (~faults /\ phase[3] \in {"keep", "verify"} =>
             IF manager = "cask" THEN before.version = 0 /\ pkg.version = nature.newest
             ELSE IF params.version
             THEN before.version = pkg.version /\ pkg.version \in {0, Pkg!Wanted}
             ELSE pkg.version # 0))'
    BY BrewInstalled, BrewInstallDoes DEF PackageInv
  <2>4. (manager # "apt" =>
          (~faults /\ phase[3] = "rollback" =>
             before.version = 0 \/ (manager = "formula" /\ params.version /\ ~nature.at)))'
    BY BrewInstallDoes DEF BrewInv, PackageInv, PackageType
  <2>5. (manager # "apt" =>
          (~faults /\ result[3] = "MISMATCH" =>
             params.version /\ (IF manager = "cask" THEN nature.newest # Pkg!Wanted
                                ELSE before.version = 0)))'
    BY BrewInstallDoes DEF BrewInv, PackageInv, PackageLife, PackageType, LifeOf, Undoing,
                           Pkg!LifeTypeOK
  <2>. QED
    BY <2>1, <2>2, <2>3, <2>4, <2>5 DEF BrewInv
<1>9. PackageSettled'
  BY BrewInstallDoes DEF PackageSettled, Proceeded, PackageLife, LifeOf, PackageVerdict,
                         Pkg!HomebrewVerdict, Pkg!TapVerdict, PackageInv
<1>10. PackageCalm'
  BY CalmKept, BrewInstallDoes DEF PackageCalm, PackageInv
<1>11. PackageReported'
  BY BrewInstallDoes DEF PackageReported, PackageInv, PackageLife, LifeOf
<1>12. Pkg!PackageKept'
  BY BrewInstallDoes DEF Pkg!PackageKept, Pkg!Present, PackageInv, PackageType, Pkg!Nature
<1>13. Pkg!UpdateFindsPackage'
  BY BrewInstallDoes DEF Pkg!UpdateFindsPackage, PackageInv
<1>14. Pkg!NoSourceLeft'
  BY BrewInstallDoes DEF Pkg!NoSourceLeft, PackageInv
<1>. QED
  BY <1>1, <1>2, <1>3, <1>4, <1>5, <1>6, <1>7, <1>8, <1>9, <1>10, <1>11, <1>12, <1>13, <1>14
     DEF PackageInv

\* brew uninstall.
LEMMA BrewUninstallStep ==
  ASSUME PackageInv,
         NEW changer \in {"formula", "cask"},
         Pkg!BrewUninstall(changer),
         calm' = CalmNext
  PROVE  PackageInv'
<1>1. PackageWorld'
  BY BrewUninstallDoes DEF PackageWorld, PackageInv
<1>2. PackageLife'
  BY BrewUninstallDoes DEF PackageLife, LifeOf, InOrder, Proceeded, Undoing, PackageInv,
                           PackageType, Pkg!LifeTypeOK
<1>3. PackageType'
  BY BrewUninstallDoes DEF PackageType, PackageInv, Pkg!LifeTypeOK, Pkg!Status
<1>4. RepositoryInv'
  BY BrewUninstallDoes DEF RepositoryInv, PackageInv
<1>5. HomebrewInv'
  BY BrewUninstallDoes DEF HomebrewInv, PackageInv, PackageType
<1>6. BeforeInv'
  BY BrewUninstallDoes DEF BeforeInv, PackageInv, PackageType, Pkg!LifeTypeOK
<1>7. AptInv'
  BY BrewUninstallDoes DEF AptInv, PackageInv
<1>8. BrewInv'
  BY BrewUninstallDoes DEF BrewInv, PackageInv, PackageType
<1>9. PackageSettled'
  BY BrewUninstallDoes DEF PackageSettled, Proceeded, PackageVerdict, Pkg!HomebrewVerdict,
                           Pkg!TapVerdict, PackageInv, PackageType, Pkg!LifeTypeOK
<1>10. PackageCalm'
  BY CalmKept, BrewUninstallDoes DEF PackageCalm, PackageInv
<1>11. PackageReported'
  BY BrewUninstallDoes DEF PackageReported, PackageInv, PackageType, Pkg!LifeTypeOK
<1>12. Pkg!PackageKept'
  BY BrewUninstallDoes DEF Pkg!PackageKept, PackageInv, BrewInv
<1>13. Pkg!UpdateFindsPackage'
  BY BrewUninstallDoes DEF Pkg!UpdateFindsPackage, PackageInv
<1>14. Pkg!NoSourceLeft'
  BY BrewUninstallDoes DEF Pkg!NoSourceLeft, PackageInv
<1>. QED
  BY <1>1, <1>2, <1>3, <1>4, <1>5, <1>6, <1>7, <1>8, <1>9, <1>10, <1>11, <1>12, <1>13, <1>14
     DEF PackageInv

\* assess_state of the first node.
LEMMA AssessFirstStep ==
  ASSUME PackageInv,
         Pkg!AssessState(1),
         calm' = CalmNext
  PROVE  PackageInv'
<1>1. PackageWorld'
  BY PackageAssess, FirstFound DEF PackageWorld, PackageInv
<1>2. PackageLife'
  BY PackageAssess, FirstFound DEF PackageLife, LifeOf, InOrder, Proceeded, Undoing,
                                   PackageInv, PackageType, Pkg!LifeTypeOK
<1>3. PackageType'
  BY PackageAssess, FirstFound DEF PackageType, PackageInv, Pkg!LifeTypeOK
<1>4. RepositoryInv'
  BY PackageAssess, FirstFound DEF RepositoryInv, Proceeded, PackageInv, PackageType,
                                   Pkg!LifeTypeOK
<1>5. HomebrewInv'
  BY PackageAssess, FirstFound DEF HomebrewInv, PackageInv, PackageType
<1>6. BeforeInv'
  BY PackageAssess, FirstFound DEF BeforeInv, PackageInv, PackageLife, PackageType, LifeOf,
                                   InOrder, Proceeded
<1>7. AptInv'
  BY PackageAssess, FirstFound DEF AptInv, Pkg!Present, Pkg!Available, PackageInv,
                                   PackageType, Pkg!LifeTypeOK
<1>8. BrewInv'
  BY PackageAssess, FirstFound DEF BrewInv, PackageInv, PackageType
<1>9. PackageSettled'
  BY PackageAssessSettled
<1>10. PackageCalm'
  BY PackageAssessCalm
<1>11. PackageReported'
  BY PackageAssess, FirstFound DEF PackageReported, Pkg!Present, PackageInv, PackageType,
                                   Pkg!LifeTypeOK
<1>12. Pkg!PackageKept'
  BY PackageAssess, FirstFound DEF Pkg!PackageKept, Pkg!Present, PackageInv
<1>13. Pkg!UpdateFindsPackage'
  BY PackageAssess, FirstFound DEF Pkg!UpdateFindsPackage, PackageInv, PackageType,
                                   Pkg!LifeTypeOK
<1>14. Pkg!NoSourceLeft'
  BY PackageAssess, FirstFound DEF Pkg!NoSourceLeft, PackageInv
<1>. QED
  BY <1>1, <1>2, <1>3, <1>4, <1>5, <1>6, <1>7, <1>8, <1>9, <1>10, <1>11, <1>12, <1>13, <1>14
     DEF PackageInv

\* assess_state of the second node.
LEMMA AssessSecondStep ==
  ASSUME PackageInv,
         Pkg!AssessState(2),
         calm' = CalmNext
  PROVE  PackageInv'
<1>1. PackageWorld'
  BY PackageAssess, SecondFound DEF PackageWorld, PackageInv
<1>2. PackageLife'
  BY PackageAssess, SecondFound DEF PackageLife, LifeOf, InOrder, Proceeded, Undoing,
                                    PackageInv, PackageType, Pkg!LifeTypeOK
<1>3. PackageType'
  BY PackageAssess, SecondFound DEF PackageType, PackageInv, Pkg!LifeTypeOK
<1>4. RepositoryInv'
  BY PackageAssess, SecondFound DEF RepositoryInv, PackageInv, PackageType, Pkg!LifeTypeOK
<1>5. HomebrewInv'
  BY PackageAssess, SecondFound DEF HomebrewInv, PackageInv, PackageType
<1>6. BeforeInv'
  BY PackageAssess, SecondFound DEF BeforeInv, PackageInv, PackageLife, PackageType, LifeOf,
                                    InOrder, Proceeded
<1>7. AptInv'
  BY PackageAssess, SecondFound DEF AptInv, PackageInv, PackageLife, PackageType, LifeOf,
                                    Pkg!LifeTypeOK, InOrder, Proceeded
<1>8. BrewInv'
  BY PackageAssess, SecondFound DEF BrewInv, PackageInv, PackageType
<1>9. PackageSettled'
  BY PackageAssessSettled
<1>10. PackageCalm'
  BY PackageAssessCalm
<1>11. PackageReported'
  BY PackageAssess, SecondFound DEF PackageReported, Pkg!Present, PackageInv, PackageType,
                                    Pkg!LifeTypeOK
<1>12. Pkg!PackageKept'
  BY PackageAssess, SecondFound DEF Pkg!PackageKept, Pkg!Present, PackageInv
<1>13. Pkg!UpdateFindsPackage'
  BY PackageAssess, SecondFound DEF Pkg!UpdateFindsPackage, PackageInv, PackageLife,
                                    PackageType, LifeOf, Pkg!LifeTypeOK, InOrder, Proceeded
<1>14. Pkg!NoSourceLeft'
  BY PackageAssess, SecondFound DEF Pkg!NoSourceLeft, PackageInv
<1>. QED
  BY <1>1, <1>2, <1>3, <1>4, <1>5, <1>6, <1>7, <1>8, <1>9, <1>10, <1>11, <1>12, <1>13, <1>14
     DEF PackageInv

\* assess_state of the third node.
LEMMA AssessThirdStep ==
  ASSUME PackageInv,
         Pkg!AssessState(3),
         calm' = CalmNext
  PROVE  PackageInv'
<1>1. PackageWorld'
  BY PackageAssess, ThirdFound DEF PackageWorld, PackageInv
<1>2. PackageLife'
  BY PackageAssess, ThirdFound DEF PackageLife, LifeOf, InOrder, Proceeded, Undoing,
                                   PackageInv, PackageType, Pkg!LifeTypeOK
<1>3. PackageType'
  BY PackageAssess, ThirdFound DEF PackageType, PackageInv, Pkg!LifeTypeOK
<1>4. RepositoryInv'
  BY PackageAssess, ThirdFound DEF RepositoryInv, PackageInv, PackageType, Pkg!LifeTypeOK
<1>5. HomebrewInv'
  BY PackageAssess, ThirdFound DEF HomebrewInv, PackageInv, PackageType, Pkg!LifeTypeOK
<1>6. BeforeInv'
  BY PackageAssess, ThirdFound DEF BeforeInv, PackageVerdict, Pkg!AptVerdict,
                                   Pkg!FormulaVerdict, Pkg!CaskVerdict,
                                   Pkg!OtherVersion, PackageInv, PackageType,
                                   Pkg!LifeTypeOK, PackageWorld, Pkg!Available
<1>7. AptInv'
  BY PackageAssess, ThirdFound DEF AptInv, PackageInv, PackageType
<1>8. BrewInv'
  BY PackageAssess, ThirdFound DEF BrewInv, PackageInv, PackageType, PackageWorld
<1>9. PackageSettled'
  BY PackageAssessSettled
<1>10. PackageCalm'
  BY PackageAssessCalm
<1>11. PackageReported'
  BY PackageAssess, ThirdFound DEF PackageReported, Pkg!Present, PackageInv, PackageType,
                                   Pkg!LifeTypeOK, PackageWorld, AptInv
<1>12. Pkg!PackageKept'
  BY PackageAssess, ThirdFound DEF Pkg!PackageKept, Pkg!Present, PackageInv
<1>13. Pkg!UpdateFindsPackage'
  BY PackageAssess, ThirdFound DEF Pkg!UpdateFindsPackage, PackageInv, PackageType,
                                   Pkg!LifeTypeOK, BeforeInv, RepositoryInv
<1>14. Pkg!NoSourceLeft'
  BY PackageAssess, ThirdFound DEF Pkg!NoSourceLeft, PackageInv
<1>. QED
  BY <1>1, <1>2, <1>3, <1>4, <1>5, <1>6, <1>7, <1>8, <1>9, <1>10, <1>11, <1>12, <1>13, <1>14
     DEF PackageInv

\* start() is called again; the lists may have aged.
LEMMA PackageStartStep ==
  ASSUME PackageInv, Pkg!StartAgain, calm' = CalmNext
  PROVE  PackageInv'
<1>1. /\ phase' = [n \in Three |-> "assess"] /\ outcome' = [n \in Three |-> "NONE"]
      /\ result' = [n \in Three |-> "NONE"] /\ undo' = [n \in Three |-> "NONE"]
  BY DEF Pkg!StartAgain, Pkg!LifeAgain, Three
<1>2. /\ UNCHANGED <<faults, manager, params, nature, keyring, sources, brew, tap, pkg>>
      /\ before' = pkg
  BY DEF Pkg!StartAgain, Pkg!brewVars
<1>3. runs' \in 1 .. MaxRuns /\ runs' # runs
  BY BoundsAssumption DEF Pkg!StartAgain, PackageInv, PackageType
<1>4. lists' \in [recent : BOOLEAN, repo : BOOLEAN]
  <2>1. [lists EXCEPT !.recent = FALSE] \in [recent : BOOLEAN, repo : BOOLEAN]
    BY DEF PackageInv, PackageType
  <2>. QED
    BY <2>1 DEF Pkg!StartAgain, PackageInv, PackageType
<1>5. calm' => /\ ~faults /\ UNCHANGED lists
               /\ \A n \in Three : Proceeded(n)
  <2>1. calm' => ~faults /\ UNCHANGED lists /\ \A n \in DOMAIN outcome : Ins!Proceeds(n)
    BY <1>3 DEF CalmNext
  <2>2. DOMAIN outcome = Three
    BY DEF PackageInv, PackageType, Pkg!LifeTypeOK, Three
  <2>3. \A n \in Three : Ins!Proceeds(n) => Proceeded(n)
    BY DEF Ins!Proceeds, Proceeded, PackageInv, PackageLife, LifeOf
  <2>. QED
    BY <2>1, <2>2, <2>3
<1>11. PackageWorld'
  BY <1>2 DEF PackageInv, PackageWorld
<1>12. PackageLife'
  BY <1>1 DEF PackageLife, LifeOf, InOrder, Undoing, Three
<1>13. PackageType'
  BY <1>1, <1>2, <1>3, <1>4 DEF PackageInv, PackageType, Pkg!LifeTypeOK, Three
<1>14. /\ RepositoryInv' /\ HomebrewInv' /\ BeforeInv' /\ AptInv' /\ BrewInv'
       /\ Pkg!UpdateFindsPackage' /\ Pkg!NoSourceLeft' /\ PackageReported'
  BY <1>1, <1>2 DEF RepositoryInv, HomebrewInv, BeforeInv, AptInv, BrewInv, Proceeded,
                    Three, Pkg!UpdateFindsPackage, Pkg!NoSourceLeft, PackageReported
<1>15. PackageSettled'
  BY <1>1 DEF PackageSettled, Proceeded
<1>16. PackageCalm'
  <2>1. SUFFICES ASSUME calm' PROVE PackageCalm'
    BY DEF PackageCalm
  <2>2. \A n \in Three : PackageVerdict(n)' = PackageVerdict(n)
    BY <1>2, <1>5, <2>1, SameVerdicts
  <2>3. \A n \in Three : PackageVerdict(n) = "ALREADY_APPLIED"
    BY <1>5, <2>1 DEF PackageInv, PackageSettled
  <2>. QED
    BY <1>1, <1>2, <1>5, <2>1, <2>2, <2>3 DEF PackageCalm
<1>17. Pkg!PackageKept'
  BY <1>2 DEF Pkg!PackageKept, Pkg!Present
<1>. QED
  BY <1>11, <1>12, <1>13, <1>14, <1>15, <1>16, <1>17 DEF PackageInv

\* Nothing of the packages changes.
LEMMA PackageStutter ==
  ASSUME PackageInv,
         UNCHANGED <<phase, outcome, result, undo, faults, manager, params, nature, runs, keyring,
                     sources, lists, brew, tap, pkg, before, calm>>
  PROVE  PackageInv'
<1>1. \A n \in Three : PackageVerdict(n)' = PackageVerdict(n)
  BY SameVerdicts
<1>2. /\ PackageSettled' /\ PackageCalm' /\ BeforeInv'
  BY <1>1 DEF PackageInv, PackageSettled, PackageCalm, BeforeInv, Proceeded, Three
<1>3. PackageWorld' /\ PackageLife' /\ PackageType'
  BY DEF PackageInv, PackageWorld, PackageLife, PackageType, LifeOf, InOrder, Proceeded,
         Pkg!LifeTypeOK
<1>4. RepositoryInv' /\ HomebrewInv' /\ AptInv' /\ BrewInv'
  BY DEF PackageInv, RepositoryInv, HomebrewInv, AptInv, BrewInv, Proceeded, Pkg!Available,
         Pkg!Present
<1>5. /\ Pkg!UpdateFindsPackage' /\ Pkg!NoSourceLeft' /\ PackageReported' /\ Pkg!PackageKept'
  BY DEF PackageInv, Pkg!UpdateFindsPackage, Pkg!NoSourceLeft, PackageReported,
         Pkg!PackageKept, Pkg!Present
<1>. QED
  BY <1>2, <1>3, <1>4, <1>5 DEF PackageInv

\* The hosts a program may find.
LEMMA PackageInit ==
  ASSUME Pkg!Init, calm = FALSE
  PROVE  PackageInv
<1>1. /\ phase = [n \in Three |-> "assess"] /\ outcome = [n \in Three |-> "NONE"]
      /\ result = [n \in Three |-> "NONE"] /\ undo = [n \in Three |-> "NONE"]
  BY DEF Pkg!Init, Pkg!LifeInit, Three
<1>2. /\ faults \in BOOLEAN /\ manager \in {"apt", "formula", "cask"} /\ before = pkg /\ runs = 1
  BY DEF Pkg!Init
<1>3. /\ params \in Pkg!Params /\ nature \in Pkg!Nature
      /\ keyring \in {"none", "right", "wrong"} /\ sources \in {"none", "wanted", "other"}
      /\ brew \in BOOLEAN /\ tap \in {"none", "wanted", "other"}
  BY DEF Pkg!Init, Pkg!AptInit, Pkg!BrewInit
<1>4. lists \in [recent : BOOLEAN, repo : BOOLEAN]
  <2>1. CASE manager = "apt"
    BY <2>1 DEF Pkg!Init, Pkg!AptInit
  <2>2. CASE manager # "apt"
    <3>1. lists = [recent |-> FALSE, repo |-> FALSE]
      BY <2>2 DEF Pkg!Init, Pkg!BrewInit
    <3>. QED
      BY <3>1
  <2>. QED
    BY <2>1, <2>2
<1>5. Pkg!Absent \in Pkg!Package /\ Pkg!Absent.version = 0 /\ ~Pkg!Absent.conf /\ ~Pkg!Absent.kept
  BY DEF Pkg!Package, Pkg!Absent
<1>6. pkg \in Pkg!Package
  BY <1>5 DEF Pkg!Init, Pkg!AptInit, Pkg!BrewInit
<1>7. PackageWorld
  <2>1. CASE manager = "apt"
    BY <1>2, <1>5, <2>1 DEF Pkg!Init, Pkg!AptInit, PackageWorld
  <2>2. CASE manager # "apt"
    <3>1. manager = "cask" => ~params.keep
      BY <2>2 DEF Pkg!Init, Pkg!BrewInit
    <3>2. ~nature.conf
      BY <2>2 DEF Pkg!Init, Pkg!BrewInit
    <3>3. ~pkg.conf /\ (pkg.kept => manager = "formula" /\ pkg.version # 0)
      BY <1>5, <2>2 DEF Pkg!Init, Pkg!BrewInit
    <3>. QED
      BY <1>2, <2>2, <3>1, <3>2, <3>3 DEF PackageWorld
  <2>. QED
    BY <2>1, <2>2
<1>12. PackageLife
  BY <1>1 DEF PackageLife, LifeOf, InOrder, Undoing, Three
<1>13. PackageType
  <2>1. runs \in 1 .. MaxRuns
    BY <1>2, BoundsAssumption
  <2>. QED
    BY <1>1, <1>2, <1>3, <1>4, <1>6, <2>1 DEF PackageType, Pkg!LifeTypeOK, Three
<1>14. /\ RepositoryInv /\ HomebrewInv /\ BeforeInv /\ AptInv /\ BrewInv
       /\ Pkg!UpdateFindsPackage /\ Pkg!NoSourceLeft /\ PackageReported
  BY <1>1, <1>2 DEF RepositoryInv, HomebrewInv, BeforeInv, AptInv, BrewInv, Proceeded,
                    Three, Pkg!UpdateFindsPackage, Pkg!NoSourceLeft, PackageReported
<1>15. PackageSettled /\ PackageCalm
  BY <1>1 DEF PackageSettled, Proceeded, PackageCalm
<1>16. Pkg!PackageKept
  BY <1>2 DEF Pkg!PackageKept, Pkg!Present
<1>. QED
  BY <1>7, <1>12, <1>13, <1>14, <1>15, <1>16 DEF PackageInv

HIDE DEF Pkg!Returns, Pkg!Failed, Pkg!Goto, Pkg!Report, Pkg!Undone, Pkg!NoInverse,
         Pkg!setVars, Pkg!aptVars, Pkg!brewVars, Pkg!lifeVars, Three

-----------------------------------------------------------------------------
(* The unit or the agent of Services.                                       *)

USE NodeAssumption DEF At, Continue, Succeeds, Fails, Returns, Failed, Goto, Report, Undone,
                       GivesUp, setVars, hostVars, lifeVars, Linux, Darwin

\* What assess_state decides when nothing fails.
LEMMA ServiceAssessed ==
  ASSUME ServiceInv, AssessState, ~faults
  PROVE  \/ /\ phase["node"] = "assess" /\ UNCHANGED result
            /\ \/ Verdict = "READY" /\ phase' = [phase EXCEPT !["node"] = "transition"]
                  /\ UNCHANGED outcome
               \/ Verdict = "ALREADY_APPLIED" /\ phase' = [phase EXCEPT !["node"] = "done"]
                  /\ outcome' = [outcome EXCEPT !["node"] = "SKIPPED_ALREADY_APPLIED"]
               \/ Verdict = "INVALID" /\ phase' = [phase EXCEPT !["node"] = "done"]
                  /\ outcome' = [outcome EXCEPT !["node"] = "FAILED_INVALID"]
         \/ /\ phase["node"] = "verify"
            /\ \/ Verdict = "ALREADY_APPLIED" /\ phase' = [phase EXCEPT !["node"] = "done"]
                  /\ outcome' = [outcome EXCEPT !["node"] = "SUCCESS"] /\ UNCHANGED result
               \/ Verdict # "ALREADY_APPLIED" /\ phase' = [phase EXCEPT !["node"] = "rollback"]
                  /\ result' = [result EXCEPT !["node"] = "MISMATCH"] /\ UNCHANGED outcome
  BY DEF AssessState, Assess, Verify

\* A calm service stays calm: the node finds itself applied.
LEMMA ServiceAssessCalm ==
  ASSUME ServiceInv, AssessState, calm' = CalmNext
  PROVE  ServiceCalm'
<1>0. UNCHANGED <<faults, platform, params, nature, runs, file, known, running, enabled>>
  BY DEF AssessState
<1>1. SUFFICES ASSUME calm' PROVE ServiceCalm'
  BY DEF ServiceCalm
<1>2. ~faults /\ ServiceCalm /\ calm
  BY <1>0, <1>1, CalmKept DEF ServiceInv, ServiceCalm
<1>3. Verdict' = Verdict
  BY <1>0 DEF Verdict, UnitVerdict, AgentVerdict, EnabledMatches, ActiveMatches
<1>. QED
  BY <1>0, <1>2, <1>3, ServiceAssessed DEF ServiceCalm, ServiceInv, ServiceType, LifeTypeOK

\* Crashes stay within their bound.
LEMMA CrashBound ==
  ASSUME ServiceInv, Crash
  PROVE  crashes' \in 0 .. MaxCrashes
<1>1. crashes \in Nat /\ crashes < MaxCrashes /\ crashes' = crashes + 1
  BY DEF ServiceInv, ServiceType, Crash
<1>. QED
  BY <1>1, BoundsAssumption

\* After the unit is written, an old version that runs is noted as changed.
LEMMA WriteUnitRunning ==
  ASSUME ServiceInv, WriteUnit
  PROVE  RunningInv'
<1>1. SUFFICES ASSUME ~faults, platform = "linux", params.reload_on_change, ~nature.reloads,
                      running \in Version
               PROVE  running = "new" \/ changed'
  BY DEF WriteUnit, RunningInv, Version, ServiceInv, ServiceType
<1>2. running = file /\ file # "none"
  BY <1>1 DEF WriteUnit, ServiceInv, RunningInv, Version
<1>3. changed' = (file \notin {"none", "new"})
  BY <1>1 DEF WriteUnit
<1>. QED
  BY <1>2, <1>3

\* The inverse disables the unit or gives up.
LEMMA RollbackDisableDoes ==
  ASSUME ServiceInv, RollbackDisable
  PROVE  /\ phase["node"] = "disable"
         /\ \/ phase' = [phase EXCEPT !["node"] = "delete"] /\ UNCHANGED <<outcome, undo>>
            \/ /\ faults
               /\ phase' = [phase EXCEPT !["node"] = "done"]
               /\ outcome' = [outcome EXCEPT !["node"] = "FAILED_TRANSITION"]
               /\ undo' = [undo EXCEPT !["node"] = "FAILURE"]
         /\ enabled' \in BOOLEAN
         /\ UNCHANGED <<faults, platform, params, nature, runs, crashes, file, known, running,
                        changed, before, result>>
<1>1. enabled' \in BOOLEAN
  BY DEF RollbackDisable, ServiceInv, ServiceType
<1>. QED
  BY <1>1 DEF RollbackDisable

\* The actions of Services preserve the invariant, part by part.
\* The service dies.
LEMMA CrashStep ==
  ASSUME ServiceInv,
         Crash,
         calm' = CalmNext
  PROVE  ServiceInv'
<1>1. ServiceLife'
  BY DEF Crash, ServiceLife, LifeOf, ServiceInv
<1>2. ServiceType'
  <2>1. (LifeTypeOK)'
    BY DEF Crash, ServiceType, LifeTypeOK, ServiceInv
  <2>2. (phase \in [Node -> {"assess", "transition", "reload", "enable", "start", "bootstrap",
                            "load", "verify", "rollback", "disable", "delete", "undo_reload",
                            "unload", "done"}])'
    BY DEF Crash, ServiceType, ServiceInv
  <2>3. (faults \in BOOLEAN)'
    BY DEF Crash, ServiceType, ServiceInv
  <2>4. (platform \in {"linux", "darwin"})'
    BY DEF Crash, ServiceType
  <2>5. (params \in Params)'
    BY DEF Crash, ServiceType, ServiceInv
  <2>6. (nature \in Nature)'
    BY DEF Crash, ServiceType, ServiceInv
  <2>7. (file \in File)'
    BY DEF Crash, ServiceType, ServiceInv
  <2>8. (known \in File)'
    BY DEF Crash, ServiceType, ServiceInv
  <2>9. (running \in Active)'
    BY DEF Crash, ServiceType, Active
  <2>10. (enabled \in BOOLEAN)'
    BY DEF Crash, ServiceType, ServiceInv
  <2>11. (changed \in BOOLEAN)'
    BY DEF Crash, ServiceType, ServiceInv
  <2>12. (runs \in 1 .. MaxRuns)'
    BY DEF Crash, ServiceType, ServiceInv
  <2>13. (crashes \in 0 .. MaxCrashes)'
    BY CrashBound
  <2>14. (before \in [file : File, known : File, running : Active])'
    BY DEF Crash, ServiceType, ServiceInv
  <2>. QED
    BY <2>1, <2>2, <2>3, <2>4, <2>5, <2>6, <2>7, <2>8, <2>9, <2>10, <2>11, <2>12, <2>13,
       <2>14
       DEF ServiceType
<1>3. UnitInv'
  BY DEF Crash, UnitInv, ServiceInv, ServiceType
<1>4. RunningInv'
  BY DEF Crash, RunningInv, Version
<1>5. AgentInv'
  BY DEF Crash, AgentInv
<1>6. ServiceSettled'
  BY DEF Crash, ServiceSettled, ServiceInv, ServiceType
<1>7. ServiceCalm'
  BY CalmKept DEF Crash, ServiceCalm
<1>8. EffectConfirmed'
  BY DEF Crash, EffectConfirmed, ServiceInv, ServiceType
<1>9. UpdateTakesEffect'
  BY DEF Crash, UpdateTakesEffect, ServiceInv, ServiceType
<1>10. NothingLeftLoaded'
  BY DEF Crash, NothingLeftLoaded, ServiceInv
<1>11. StartedInv'
  BY DEF Crash, StartedInv, ServiceInv, ServiceType
<1>. QED
  BY <1>1, <1>2, <1>3, <1>4, <1>5, <1>6, <1>7, <1>8, <1>9, <1>10, <1>11
     DEF ServiceInv

\* The unit file.
LEMMA WriteUnitStep ==
  ASSUME ServiceInv,
         WriteUnit,
         calm' = CalmNext
  PROVE  ServiceInv'
<1>1. ServiceLife'
  BY DEF WriteUnit, ServiceLife, LifeOf, Undoing, DarwinPhase, ServiceInv, ServiceType,
         LifeTypeOK
<1>2. ServiceType'
  BY DEF WriteUnit, Service, ServiceType, LifeTypeOK, Status, File, Version, ServiceInv
<1>3. UnitInv'
  BY DEF WriteUnit, Service, UnitInv, ServiceInv, ServiceType
<1>4. RunningInv'
  BY WriteUnitRunning
<1>5. AgentInv'
  BY DEF WriteUnit, AgentInv
<1>6. ServiceSettled'
  BY DEF WriteUnit, ServiceSettled, Proceeded, ServiceInv, ServiceLife, LifeOf
<1>7. ServiceCalm'
  BY CalmKept DEF WriteUnit, ServiceCalm, ServiceInv
<1>8. EffectConfirmed'
  BY DEF WriteUnit, EffectConfirmed, ServiceInv, ServiceLife, LifeOf, Undoing
<1>9. UpdateTakesEffect'
  BY DEF WriteUnit, UpdateTakesEffect, ServiceInv, ServiceLife, LifeOf
<1>10. NothingLeftLoaded'
  BY DEF WriteUnit, NothingLeftLoaded, ServiceInv, ServiceLife, LifeOf
<1>11. StartedInv'
  BY DEF WriteUnit, StartedInv, ServiceInv, ServiceType
<1>. QED
  BY <1>1, <1>2, <1>3, <1>4, <1>5, <1>6, <1>7, <1>8, <1>9, <1>10, <1>11
     DEF ServiceInv

\* systemctl daemon-reload.
LEMMA DaemonReloadStep ==
  ASSUME ServiceInv,
         DaemonReload,
         calm' = CalmNext
  PROVE  ServiceInv'
<1>1. ServiceLife'
  BY DEF DaemonReload, Call, ServiceLife, LifeOf, Undoing, LinuxPhase, DarwinPhase,
         ServiceInv, ServiceType, LifeTypeOK
<1>2. ServiceType'
  BY DEF DaemonReload, Call, ServiceType, LifeTypeOK, Status, ServiceInv
<1>3. UnitInv'
  BY DEF DaemonReload, Call, UnitInv, ServiceInv, ServiceType
<1>4. RunningInv'
  BY DEF DaemonReload, Call, RunningInv, ServiceInv, ServiceType
<1>5. AgentInv'
  BY DEF DaemonReload, Call, AgentInv, ServiceInv, ServiceType
<1>6. ServiceSettled'
  BY DEF DaemonReload, Call, ServiceSettled, Proceeded, Verdict, UnitVerdict, AgentVerdict,
         EnabledMatches, ActiveMatches, ServiceInv
<1>7. ServiceCalm'
  BY CalmKept DEF DaemonReload, Call, ServiceCalm, ServiceInv
<1>8. EffectConfirmed'
  BY DEF DaemonReload, Call, EffectConfirmed, ServiceInv
<1>9. UpdateTakesEffect'
  BY DEF DaemonReload, Call, UpdateTakesEffect, ServiceInv, ServiceLife, LinuxPhase
<1>10. NothingLeftLoaded'
  BY DEF DaemonReload, Call, NothingLeftLoaded, ServiceInv
<1>11. StartedInv'
  BY DEF DaemonReload, Call, StartedInv, ServiceInv, ServiceType
<1>. QED
  BY <1>1, <1>2, <1>3, <1>4, <1>5, <1>6, <1>7, <1>8, <1>9, <1>10, <1>11
     DEF ServiceInv

\* systemctl enable or disable.
LEMMA ApplyEnabledStep ==
  ASSUME ServiceInv,
         ApplyEnabled,
         calm' = CalmNext
  PROVE  ServiceInv'
<1>1. ServiceLife'
  BY DEF ApplyEnabled, Call, ServiceLife, LifeOf, Undoing, LinuxPhase, DarwinPhase,
         ServiceInv, ServiceType, LifeTypeOK
<1>2. ServiceType'
  <2>1. (LifeTypeOK)'
    BY DEF ApplyEnabled, Call, ServiceType, LifeTypeOK, Status, ServiceInv
  <2>2. (phase \in [Node -> {"assess", "transition", "reload", "enable", "start", "bootstrap",
                            "load", "verify", "rollback", "disable", "delete", "undo_reload",
                            "unload", "done"}])'
    BY DEF ApplyEnabled, Call, ServiceType, ServiceInv
  <2>3. (faults \in BOOLEAN)'
    BY DEF ApplyEnabled, Call, ServiceType, ServiceInv
  <2>4. (platform \in {"linux", "darwin"})'
    BY DEF ApplyEnabled, Call, ServiceType, ServiceInv
  <2>5. (params \in Params)'
    BY DEF ApplyEnabled, Call, ServiceType, ServiceInv
  <2>6. (nature \in Nature)'
    BY DEF ApplyEnabled, Call, ServiceType, ServiceInv
  <2>7. (file \in File)'
    BY DEF ApplyEnabled, Call, ServiceType, ServiceInv
  <2>8. (known \in File)'
    BY DEF ApplyEnabled, Call, ServiceType, ServiceInv
  <2>9. (running \in Active)'
    BY DEF ApplyEnabled, Call, ServiceType, ServiceInv
  <2>10. (enabled \in BOOLEAN)'
    BY DEF ApplyEnabled, Call, ServiceType, LifeTypeOK, Status, File, Version, ServiceInv
  <2>11. (changed \in BOOLEAN)'
    BY DEF ApplyEnabled, Call, ServiceType, ServiceInv
  <2>12. (runs \in 1 .. MaxRuns)'
    BY DEF ApplyEnabled, Call, ServiceType, ServiceInv
  <2>13. (crashes \in 0 .. MaxCrashes)'
    BY DEF ApplyEnabled, Call, ServiceType, ServiceInv
  <2>14. (before \in [file : File, known : File, running : Active])'
    BY DEF ApplyEnabled, Call, ServiceType, ServiceInv
  <2>. QED
    BY <2>1, <2>2, <2>3, <2>4, <2>5, <2>6, <2>7, <2>8, <2>9, <2>10, <2>11, <2>12, <2>13,
       <2>14
       DEF ServiceType
<1>3. UnitInv'
  BY DEF ApplyEnabled, Call, UnitInv, ServiceInv, ServiceType
<1>4. RunningInv'
  BY DEF ApplyEnabled, Call, RunningInv, ServiceInv, ServiceType
<1>5. AgentInv'
  BY DEF ApplyEnabled, Call, AgentInv, ServiceInv, ServiceType
<1>6. ServiceSettled'
  BY DEF ApplyEnabled, Call, ServiceSettled, Proceeded, Verdict, UnitVerdict, AgentVerdict,
         EnabledMatches, ActiveMatches, ServiceInv, ServiceType
<1>7. ServiceCalm'
  BY CalmKept DEF ApplyEnabled, Call, ServiceCalm, ServiceInv
<1>8. EffectConfirmed'
  BY DEF ApplyEnabled, Call, EffectConfirmed, ServiceInv
<1>9. UpdateTakesEffect'
  BY DEF ApplyEnabled, Call, UpdateTakesEffect, ServiceInv
<1>10. NothingLeftLoaded'
  BY DEF ApplyEnabled, Call, NothingLeftLoaded, ServiceInv
<1>11. StartedInv'
  BY DEF ApplyEnabled, Call, StartedInv, ServiceInv, ServiceType
<1>. QED
  BY <1>1, <1>2, <1>3, <1>4, <1>5, <1>6, <1>7, <1>8, <1>9, <1>10, <1>11
     DEF ServiceInv

\* systemctl start, restart or stop.
LEMMA ApplyStartedStep ==
  ASSUME ServiceInv,
         ApplyStarted,
         calm' = CalmNext
  PROVE  ServiceInv'
<1>1. ServiceLife'
  BY DEF ApplyStarted, Call, ActiveAfter, Started, Stopped, ServiceLife, LifeOf, Undoing,
         LinuxPhase, DarwinPhase, ServiceInv, ServiceType, LifeTypeOK
<1>2. ServiceType'
  BY DEF ApplyStarted, Call, ActiveAfter, Started, Stopped, ServiceType, LifeTypeOK, Status,
         File, ServiceInv, Active
<1>3. UnitInv'
  BY DEF ApplyStarted, Call, ActiveAfter, Retained, Started, Stopped, UnitInv,
         EnabledMatches, ActiveMatches, ServiceInv, ServiceType, File, Version, Nature
<1>4. RunningInv'
  BY DEF ApplyStarted, Call, ActiveAfter, Retained, Started, Stopped, RunningInv, Version,
         ServiceInv, ServiceType, UnitInv
<1>5. AgentInv'
  BY DEF ApplyStarted, Call, ActiveAfter, Started, Stopped, AgentInv, ServiceInv,
         ServiceLife, LinuxPhase
<1>6. ServiceSettled'
  BY DEF ApplyStarted, Call, ActiveAfter, Started, Stopped, ServiceSettled, Proceeded,
         ServiceInv, ServiceLife, LifeOf
<1>7. ServiceCalm'
  BY CalmKept DEF ApplyStarted, Call, ActiveAfter, Started, Stopped, ServiceCalm, ServiceInv
<1>8. EffectConfirmed'
  BY DEF ApplyStarted, Call, ActiveAfter, Started, Stopped, EffectConfirmed, ServiceInv,
         ServiceType, LifeTypeOK
<1>9. UpdateTakesEffect'
  BY DEF ApplyStarted, Call, ActiveAfter, Started, Stopped, UpdateTakesEffect, ServiceInv,
         ServiceLife, LifeOf
<1>10. NothingLeftLoaded'
  BY DEF ApplyStarted, Call, ActiveAfter, Started, Stopped, NothingLeftLoaded, ServiceInv
<1>11. StartedInv'
  <2>1. SUFFICES ASSUME platform = "linux", params.started, crashes = 0,
                        phase'["node"] = "verify", running' \in Version, running' # "new"
                 PROVE  /\ before.running \in Version
                        /\ ~params.reload_on_change \/ nature.reloads \/ (faults /\ ~changed)
    BY DEF ApplyStarted, StartedInv
  <2>2. phase["node"] = "start" /\ running' = ActiveAfter
    BY <2>1 DEF ApplyStarted, Call, ServiceInv, ServiceType
  <2>3. known = "new" /\ running = before.running
    BY <2>1, <2>2 DEF ServiceInv, UnitInv
  <2>4. Retained /\ running' = running
    BY <2>1, <2>2, <2>3 DEF ActiveAfter, Started, Version
  <2>5. faults \/ changed \/ ~params.reload_on_change \/ nature.reloads
    BY <2>1, <2>2, <2>4 DEF Retained, ServiceInv, RunningInv, UnitInv
  <2>. QED
    BY <2>3, <2>4, <2>5 DEF Retained, ServiceInv, ServiceType
<1>. QED
  BY <1>1, <1>2, <1>3, <1>4, <1>5, <1>6, <1>7, <1>8, <1>9, <1>10, <1>11
     DEF ServiceInv

\* The inverse stops the unit.
LEMMA RollbackStopStep ==
  ASSUME ServiceInv,
         RollbackStop,
         calm' = CalmNext
  PROVE  ServiceInv'
<1>1. ServiceLife'
  BY DEF RollbackStop, Stopped, ServiceLife, LifeOf, Undoing, DarwinPhase, ServiceInv,
         ServiceType, LifeTypeOK
<1>2. ServiceType'
  BY DEF RollbackStop, Stopped, ServiceType, LifeTypeOK, Status, ServiceInv, Active
<1>3. UnitInv'
  BY DEF RollbackStop, Stopped, UnitInv, ServiceInv, ServiceType, Version
<1>4. RunningInv'
  BY DEF RollbackStop, Stopped, RunningInv, Version
<1>5. AgentInv'
  BY DEF RollbackStop, Stopped, AgentInv
<1>6. ServiceSettled'
  BY DEF RollbackStop, Stopped, ServiceSettled, Proceeded, ServiceInv, ServiceLife,
         ServiceType, LifeOf, LifeTypeOK
<1>7. ServiceCalm'
  BY CalmKept DEF RollbackStop, Stopped, ServiceCalm, ServiceInv
<1>8. EffectConfirmed'
  BY DEF RollbackStop, Stopped, EffectConfirmed, ServiceInv
<1>9. UpdateTakesEffect'
  BY DEF RollbackStop, Stopped, UpdateTakesEffect, ServiceInv, ServiceLife, LifeOf,
         Undoing, ServiceType, LifeTypeOK
<1>10. NothingLeftLoaded'
  BY DEF RollbackStop, Stopped, NothingLeftLoaded, ServiceInv, ServiceType, LifeTypeOK
<1>11. StartedInv'
  BY DEF RollbackStop, Stopped, StartedInv, ServiceInv, ServiceType
<1>. QED
  BY <1>1, <1>2, <1>3, <1>4, <1>5, <1>6, <1>7, <1>8, <1>9, <1>10, <1>11
     DEF ServiceInv

\* It deletes the file.
LEMMA DeleteUnitStep ==
  ASSUME ServiceInv,
         DeleteUnit,
         calm' = CalmNext
  PROVE  ServiceInv'
<1>1. ServiceLife'
  BY DEF DeleteUnit, ServiceLife, LifeOf, Undoing, DarwinPhase, ServiceInv, ServiceType,
         LifeTypeOK
<1>2. ServiceType'
  BY DEF DeleteUnit, ServiceType, LifeTypeOK, Status, File, ServiceInv
<1>3. UnitInv'
  BY DEF DeleteUnit, UnitInv, ServiceInv, ServiceType
<1>4. RunningInv'
  BY DEF DeleteUnit, RunningInv, ServiceInv, UnitInv
<1>5. AgentInv'
  BY DEF DeleteUnit, AgentInv
<1>6. ServiceSettled'
  BY DEF DeleteUnit, ServiceSettled, Proceeded, ServiceInv, ServiceLife, ServiceType,
         LifeOf, LifeTypeOK
<1>7. ServiceCalm'
  BY CalmKept DEF DeleteUnit, ServiceCalm, ServiceInv
<1>8. EffectConfirmed'
  BY DEF DeleteUnit, EffectConfirmed, ServiceInv
<1>9. UpdateTakesEffect'
  BY DEF DeleteUnit, UpdateTakesEffect, ServiceInv, ServiceType, LifeTypeOK
<1>10. NothingLeftLoaded'
  BY DEF DeleteUnit, NothingLeftLoaded, ServiceInv, ServiceType, LifeTypeOK
<1>11. StartedInv'
  BY DEF DeleteUnit, StartedInv, ServiceInv, ServiceType, LifeTypeOK
<1>. QED
  BY <1>1, <1>2, <1>3, <1>4, <1>5, <1>6, <1>7, <1>8, <1>9, <1>10, <1>11
     DEF ServiceInv

\* It has the manager read it again.
LEMMA RollbackReloadStep ==
  ASSUME ServiceInv,
         RollbackReload,
         calm' = CalmNext
  PROVE  ServiceInv'
<1>1. ServiceLife'
  BY DEF RollbackReload, ServiceLife, LifeOf, Undoing, LinuxPhase, DarwinPhase, ServiceInv,
         ServiceType, LifeTypeOK
<1>2. ServiceType'
  BY DEF RollbackReload, ServiceType, LifeTypeOK, Status, ServiceInv
<1>3. UnitInv'
  BY DEF RollbackReload, UnitInv, ServiceInv, ServiceType
<1>4. RunningInv'
  BY DEF RollbackReload, RunningInv, ServiceInv
<1>5. AgentInv'
  BY DEF RollbackReload, AgentInv, ServiceInv, ServiceType
<1>6. ServiceSettled'
  BY DEF RollbackReload, ServiceSettled, Proceeded, ServiceInv, ServiceType, LifeTypeOK
<1>7. ServiceCalm'
  BY CalmKept DEF RollbackReload, ServiceCalm, ServiceInv
<1>8. EffectConfirmed'
  BY DEF RollbackReload, EffectConfirmed, ServiceInv
<1>9. UpdateTakesEffect'
  BY DEF RollbackReload, UpdateTakesEffect, ServiceInv, ServiceType, LifeTypeOK
<1>10. NothingLeftLoaded'
  BY DEF RollbackReload, NothingLeftLoaded, UnitInv, ServiceInv, ServiceLife, ServiceType,
         LinuxPhase, LifeTypeOK
<1>11. StartedInv'
  BY DEF RollbackReload, StartedInv, ServiceInv, ServiceType, LifeTypeOK
<1>. QED
  BY <1>1, <1>2, <1>3, <1>4, <1>5, <1>6, <1>7, <1>8, <1>9, <1>10, <1>11
     DEF ServiceInv

\* The plist.
LEMMA WritePlistStep ==
  ASSUME ServiceInv,
         WritePlist,
         calm' = CalmNext
  PROVE  ServiceInv'
<1>1. ServiceLife'
  BY DEF WritePlist, ServiceLife, LifeOf, Undoing, LinuxPhase, ServiceInv, ServiceType,
         LifeTypeOK
<1>2. ServiceType'
  BY DEF WritePlist, Service, ServiceType, LifeTypeOK, Status, File, Version, ServiceInv
<1>3. UnitInv'
  BY DEF WritePlist, UnitInv
<1>4. RunningInv'
  BY DEF WritePlist, RunningInv
<1>5. AgentInv'
  BY DEF WritePlist, Service, AgentInv, ServiceInv, ServiceType
<1>6. ServiceSettled'
  BY DEF WritePlist, ServiceSettled, Proceeded, ServiceInv, ServiceLife, LifeOf
<1>7. ServiceCalm'
  BY CalmKept DEF WritePlist, ServiceCalm, ServiceInv
<1>8. EffectConfirmed'
  BY DEF WritePlist, EffectConfirmed, ServiceInv, ServiceType, LifeTypeOK
<1>9. UpdateTakesEffect'
  BY DEF WritePlist, UpdateTakesEffect, ServiceInv, ServiceLife, LifeOf
<1>10. NothingLeftLoaded'
  BY DEF WritePlist, NothingLeftLoaded, ServiceInv, ServiceLife, LifeOf
<1>11. StartedInv'
  BY DEF WritePlist, StartedInv, ServiceInv, ServiceLife, LifeOf
<1>. QED
  BY <1>1, <1>2, <1>3, <1>4, <1>5, <1>6, <1>7, <1>8, <1>9, <1>10, <1>11
     DEF ServiceInv

\* launchctl bootstrap.
LEMMA BootstrapStep ==
  ASSUME ServiceInv,
         Bootstrap,
         calm' = CalmNext
  PROVE  ServiceInv'
<1>1. ServiceLife'
  BY DEF Bootstrap, ServiceLife, LifeOf, Undoing, LinuxPhase, DarwinPhase, ServiceInv,
         ServiceType, LifeTypeOK
<1>2. ServiceType'
  BY DEF Bootstrap, ServiceType, LifeTypeOK, Status, ServiceInv
<1>3. UnitInv'
  BY DEF Bootstrap, UnitInv, ServiceInv, ServiceLife, DarwinPhase
<1>4. RunningInv'
  BY DEF Bootstrap, RunningInv, ServiceInv
<1>5. AgentInv'
  BY DEF Bootstrap, AgentInv, ServiceInv, ServiceType
<1>6. ServiceSettled'
  BY DEF Bootstrap, ServiceSettled, Proceeded, Verdict, UnitVerdict, AgentVerdict,
         EnabledMatches, ActiveMatches, ServiceInv
<1>7. ServiceCalm'
  BY CalmKept DEF Bootstrap, ServiceCalm, ServiceInv
<1>8. EffectConfirmed'
  BY DEF Bootstrap, EffectConfirmed, ServiceInv, ServiceType, LifeTypeOK
<1>9. UpdateTakesEffect'
  BY DEF Bootstrap, UpdateTakesEffect, ServiceInv
<1>10. NothingLeftLoaded'
  BY DEF Bootstrap, NothingLeftLoaded, ServiceInv
<1>11. StartedInv'
  BY DEF Bootstrap, StartedInv, ServiceInv, ServiceLife, DarwinPhase
<1>. QED
  BY <1>1, <1>2, <1>3, <1>4, <1>5, <1>6, <1>7, <1>8, <1>9, <1>10, <1>11
     DEF ServiceInv

\* launchctl load.
LEMMA LegacyLoadStep ==
  ASSUME ServiceInv,
         LegacyLoad,
         calm' = CalmNext
  PROVE  ServiceInv'
<1>1. ServiceLife'
  BY DEF LegacyLoad, ServiceLife, LifeOf, Undoing, LinuxPhase, DarwinPhase, ServiceInv,
         ServiceType, LifeTypeOK
<1>2. ServiceType'
  BY DEF LegacyLoad, ServiceType, LifeTypeOK, Status, ServiceInv
<1>3. UnitInv'
  BY DEF LegacyLoad, UnitInv, ServiceInv, ServiceLife, DarwinPhase
<1>4. RunningInv'
  BY DEF LegacyLoad, RunningInv, ServiceInv
<1>5. AgentInv'
  BY DEF LegacyLoad, AgentInv, ServiceInv, ServiceType
<1>6. ServiceSettled'
  BY DEF LegacyLoad, ServiceSettled, Proceeded, Verdict, UnitVerdict, AgentVerdict,
         EnabledMatches, ActiveMatches, ServiceInv
<1>7. ServiceCalm'
  BY CalmKept DEF LegacyLoad, ServiceCalm, ServiceInv
<1>8. EffectConfirmed'
  BY DEF LegacyLoad, EffectConfirmed, ServiceInv, ServiceType, LifeTypeOK
<1>9. UpdateTakesEffect'
  BY DEF LegacyLoad, UpdateTakesEffect, ServiceInv
<1>10. NothingLeftLoaded'
  BY DEF LegacyLoad, NothingLeftLoaded, ServiceInv
<1>11. StartedInv'
  BY DEF LegacyLoad, StartedInv, ServiceInv, ServiceLife, DarwinPhase
<1>. QED
  BY <1>1, <1>2, <1>3, <1>4, <1>5, <1>6, <1>7, <1>8, <1>9, <1>10, <1>11
     DEF ServiceInv

\* launchctl bootout.
LEMMA BootoutStep ==
  ASSUME ServiceInv,
         Bootout,
         calm' = CalmNext
  PROVE  ServiceInv'
<1>1. ServiceLife'
  BY DEF Bootout, ServiceLife, LifeOf, Undoing, LinuxPhase, ServiceInv, ServiceType,
         LifeTypeOK
<1>2. ServiceType'
  BY DEF Bootout, ServiceType, LifeTypeOK, Status, File, ServiceInv
<1>3. UnitInv'
  BY DEF Bootout, UnitInv
<1>4. RunningInv'
  BY DEF Bootout, RunningInv
<1>5. AgentInv'
  BY DEF Bootout, AgentInv, ServiceInv, ServiceType
<1>6. ServiceSettled'
  BY DEF Bootout, ServiceSettled, Proceeded, ServiceInv, ServiceLife, ServiceType, LifeOf,
         LifeTypeOK
<1>7. ServiceCalm'
  BY CalmKept DEF Bootout, ServiceCalm, ServiceInv
<1>8. EffectConfirmed'
  BY DEF Bootout, EffectConfirmed, ServiceInv
<1>9. UpdateTakesEffect'
  BY DEF Bootout, UpdateTakesEffect, ServiceInv, ServiceLife, LifeOf, Undoing,
         ServiceType, LifeTypeOK
<1>10. NothingLeftLoaded'
  BY DEF Bootout, NothingLeftLoaded, ServiceInv, ServiceType, LifeTypeOK
<1>11. StartedInv'
  BY DEF Bootout, StartedInv, ServiceInv, ServiceLife, LifeOf
<1>. QED
  BY <1>1, <1>2, <1>3, <1>4, <1>5, <1>6, <1>7, <1>8, <1>9, <1>10, <1>11
     DEF ServiceInv

\* launchctl unload.
LEMMA LegacyUnloadStep ==
  ASSUME ServiceInv,
         LegacyUnload,
         calm' = CalmNext
  PROVE  ServiceInv'
<1>1. ServiceLife'
  BY DEF LegacyUnload, ServiceLife, LifeOf, Undoing, LinuxPhase, DarwinPhase, ServiceInv,
         ServiceType, LifeTypeOK
<1>2. ServiceType'
  BY DEF LegacyUnload, ServiceType, LifeTypeOK, Status, File, ServiceInv
<1>3. UnitInv'
  BY DEF LegacyUnload, UnitInv, ServiceInv, ServiceLife, DarwinPhase
<1>4. RunningInv'
  BY DEF LegacyUnload, RunningInv, ServiceInv
<1>5. AgentInv'
  BY DEF LegacyUnload, AgentInv, ServiceInv, ServiceType
<1>6. ServiceSettled'
  BY DEF LegacyUnload, ServiceSettled, Proceeded, ServiceInv, ServiceLife, ServiceType,
         LifeOf, LifeTypeOK
<1>7. ServiceCalm'
  BY CalmKept DEF LegacyUnload, ServiceCalm, ServiceInv
<1>8. EffectConfirmed'
  BY DEF LegacyUnload, EffectConfirmed, ServiceInv
<1>9. UpdateTakesEffect'
  BY DEF LegacyUnload, UpdateTakesEffect, ServiceInv, ServiceLife, ServiceType, LifeOf,
         LifeTypeOK
<1>10. NothingLeftLoaded'
  BY DEF LegacyUnload, NothingLeftLoaded, ServiceInv, ServiceType, LifeTypeOK
<1>11. StartedInv'
  BY DEF LegacyUnload, StartedInv, ServiceInv, ServiceLife, ServiceType, LifeOf,
         LifeTypeOK
<1>. QED
  BY <1>1, <1>2, <1>3, <1>4, <1>5, <1>6, <1>7, <1>8, <1>9, <1>10, <1>11
     DEF ServiceInv

\* The inverse deletes the plist.
LEMMA DeletePlistStep ==
  ASSUME ServiceInv,
         DeletePlist,
         calm' = CalmNext
  PROVE  ServiceInv'
<1>1. ServiceLife'
  BY DEF DeletePlist, ServiceLife, LifeOf, Undoing, LinuxPhase, ServiceInv, ServiceType,
         LifeTypeOK
<1>2. ServiceType'
  BY DEF DeletePlist, ServiceType, LifeTypeOK, Status, File, ServiceInv
<1>3. UnitInv'
  BY DEF DeletePlist, UnitInv
<1>4. RunningInv'
  BY DEF DeletePlist, RunningInv
<1>5. AgentInv'
  BY DEF DeletePlist, AgentInv, ServiceInv, ServiceType
<1>6. ServiceSettled'
  BY DEF DeletePlist, ServiceSettled, Proceeded, ServiceInv, ServiceType, LifeTypeOK
<1>7. ServiceCalm'
  BY CalmKept DEF DeletePlist, ServiceCalm, ServiceInv
<1>8. EffectConfirmed'
  BY DEF DeletePlist, EffectConfirmed, ServiceInv
<1>9. UpdateTakesEffect'
  BY DEF DeletePlist, UpdateTakesEffect, ServiceInv, ServiceType, LifeTypeOK
<1>10. NothingLeftLoaded'
  BY DEF DeletePlist, NothingLeftLoaded, AgentInv, ServiceInv, ServiceType, LifeTypeOK
<1>11. StartedInv'
  BY DEF DeletePlist, StartedInv, ServiceInv, ServiceType, LifeTypeOK
<1>. QED
  BY <1>1, <1>2, <1>3, <1>4, <1>5, <1>6, <1>7, <1>8, <1>9, <1>10, <1>11
     DEF ServiceInv

\* assess_state of the unit or the agent.
LEMMA AssessServiceStep ==
  ASSUME ServiceInv,
         AssessState,
         calm' = CalmNext
  PROVE  ServiceInv'
<1>1. ServiceLife'
  BY DEF AssessState, Assess, Verify, FaultyVerdicts, ServiceLife, LifeOf, Undoing,
         LinuxPhase, DarwinPhase, ServiceInv, ServiceType, LifeTypeOK
<1>2. ServiceType'
  BY DEF AssessState, Assess, Verify, FaultyVerdicts, ServiceType, LifeTypeOK, ServiceInv
<1>3. UnitInv'
  BY DEF AssessState, Assess, Verify, FaultyVerdicts, UnitInv, ServiceInv, ServiceType
<1>4. RunningInv'
  BY DEF AssessState, Assess, Verify, FaultyVerdicts, RunningInv, ServiceInv
<1>5. AgentInv'
  BY DEF AssessState, Assess, Verify, Verdict, AgentVerdict, FaultyVerdicts, AgentInv,
         ServiceInv, ServiceType
<1>6. ServiceSettled'
  BY DEF AssessState, Assess, Verify, Verdict, UnitVerdict, AgentVerdict, FaultyVerdicts,
         ServiceSettled, Proceeded, EnabledMatches, ActiveMatches, ServiceInv, ServiceType,
         LifeTypeOK
<1>7. ServiceCalm'
  BY ServiceAssessCalm
<1>8. EffectConfirmed'
  BY DEF AssessState, Assess, Verify, Verdict, UnitVerdict, AgentVerdict, FaultyVerdicts,
         EffectConfirmed, UnitInv, AgentInv, ServiceInv, ServiceType
<1>9. UpdateTakesEffect'
  BY DEF AssessState, Assess, Verify, Verdict, UnitVerdict, FaultyVerdicts,
         UpdateTakesEffect, StartedInv, AgentInv, ServiceInv, ServiceType, LifeTypeOK,
         ActiveMatches
<1>10. NothingLeftLoaded'
  BY DEF AssessState, Assess, Verify, FaultyVerdicts, NothingLeftLoaded, ServiceInv
<1>11. StartedInv'
  BY DEF AssessState, Assess, Verify, FaultyVerdicts, StartedInv, ServiceInv, ServiceType
<1>. QED
  BY <1>1, <1>2, <1>3, <1>4, <1>5, <1>6, <1>7, <1>8, <1>9, <1>10, <1>11
     DEF ServiceInv

\* It disables the unit.
LEMMA RollbackDisableStep ==
  ASSUME ServiceInv,
         RollbackDisable,
         calm' = CalmNext
  PROVE  ServiceInv'
<1>1. ServiceLife'
  BY RollbackDisableDoes DEF ServiceLife, LifeOf, Undoing, LinuxPhase, DarwinPhase,
                             ServiceInv, ServiceType, LifeTypeOK
<1>2. ServiceType'
  BY RollbackDisableDoes DEF ServiceType, LifeTypeOK, Status, ServiceInv
<1>3. UnitInv'
  BY RollbackDisableDoes DEF UnitInv, ServiceInv, ServiceType
<1>4. RunningInv'
  BY RollbackDisableDoes DEF RunningInv, ServiceInv
<1>5. AgentInv'
  BY RollbackDisableDoes DEF AgentInv, ServiceInv, ServiceLife, LinuxPhase
<1>6. ServiceSettled'
  BY RollbackDisableDoes DEF ServiceSettled, Proceeded, ServiceInv, ServiceLife,
                             ServiceType, LifeOf, LifeTypeOK
<1>7. ServiceCalm'
  BY CalmKept, RollbackDisableDoes DEF ServiceCalm, ServiceInv
<1>8. EffectConfirmed'
  BY RollbackDisableDoes DEF EffectConfirmed, ServiceInv
<1>9. UpdateTakesEffect'
  BY RollbackDisableDoes DEF UpdateTakesEffect, ServiceInv, ServiceType, LifeTypeOK
<1>10. NothingLeftLoaded'
  BY RollbackDisableDoes DEF NothingLeftLoaded, ServiceInv, ServiceType, LifeTypeOK
<1>11. StartedInv'
  BY RollbackDisableDoes DEF StartedInv, ServiceInv, ServiceType
<1>. QED
  BY <1>1, <1>2, <1>3, <1>4, <1>5, <1>6, <1>7, <1>8, <1>9, <1>10, <1>11
     DEF ServiceInv

\* start() is called again.
LEMMA ServiceStartStep ==
  ASSUME ServiceInv, StartAgain, calm' = CalmNext
  PROVE  ServiceInv'
<1>1. /\ phase' = [n \in Node |-> "assess"] /\ outcome' = [n \in Node |-> "NONE"]
      /\ result' = [n \in Node |-> "NONE"] /\ undo' = [n \in Node |-> "NONE"]
  BY DEF StartAgain, LifeAgain
<1>2. UNCHANGED <<faults, platform, params, nature, crashes, file, known, running, enabled,
                  changed, before>>
  BY DEF StartAgain
<1>3. runs' \in 1 .. MaxRuns /\ runs' # runs /\ phase["node"] = "done"
  BY BoundsAssumption DEF StartAgain, ServiceInv, ServiceType
<1>4. calm' => ~faults /\ crashes = 0 /\ Proceeded("node")
  <2>1. calm' => ~faults /\ crashes = 0 /\ \A n \in DOMAIN outcome : Ins!Proceeds(n)
    BY <1>3 DEF CalmNext
  <2>2. "node" \in DOMAIN outcome
    BY DEF ServiceInv, ServiceType, LifeTypeOK
  <2>3. Ins!Proceeds("node") => Proceeded("node")
    BY DEF Ins!Proceeds, Proceeded, ServiceInv, ServiceLife, LifeOf
  <2>. QED
    BY <2>1, <2>2, <2>3
<1>5. Verdict' = Verdict
  BY <1>2 DEF Verdict, UnitVerdict, AgentVerdict, EnabledMatches, ActiveMatches
<1>11. ServiceLife'
  BY <1>1 DEF ServiceLife, LifeOf, Undoing, LinuxPhase, DarwinPhase
<1>12. ServiceType'
  BY <1>1, <1>2, <1>3 DEF ServiceInv, ServiceType, LifeTypeOK
<1>13. UnitInv' /\ AgentInv'
  BY <1>1 DEF UnitInv, AgentInv
<1>14. RunningInv' /\ StartedInv'
  BY <1>1, <1>2, <1>3 DEF ServiceInv, RunningInv, StartedInv
<1>15. ServiceSettled'
  BY <1>1 DEF ServiceSettled, Proceeded
<1>16. ServiceCalm'
  BY <1>1, <1>2, <1>4, <1>5 DEF ServiceInv, ServiceSettled, ServiceCalm
<1>17. EffectConfirmed' /\ UpdateTakesEffect' /\ NothingLeftLoaded'
  BY <1>1 DEF EffectConfirmed, UpdateTakesEffect, NothingLeftLoaded
<1>. QED
  BY <1>11, <1>12, <1>13, <1>14, <1>15, <1>16, <1>17 DEF ServiceInv

\* Nothing of the service changes.
LEMMA ServiceStutter ==
  ASSUME ServiceInv,
         UNCHANGED <<phase, outcome, result, undo, faults, platform, params, nature, runs, crashes, file,
                     known, running, enabled, changed, before, calm>>
  PROVE  ServiceInv'
  BY DEF ServiceInv, ServiceLife, ServiceType, UnitInv, RunningInv, StartedInv, AgentInv,
         ServiceSettled, ServiceCalm, EffectConfirmed, UpdateTakesEffect, NothingLeftLoaded,
         LifeOf, Proceeded, LifeTypeOK, Verdict, UnitVerdict, AgentVerdict, EnabledMatches,
         ActiveMatches

\* The services a program may find.
LEMMA ServiceInit ==
  ASSUME Init, calm = FALSE
  PROVE  ServiceInv
<1>1. /\ phase = [n \in Node |-> "assess"] /\ outcome = [n \in Node |-> "NONE"]
      /\ result = [n \in Node |-> "NONE"] /\ undo = [n \in Node |-> "NONE"]
  BY DEF Init, LifeInit
<1>2. /\ faults \in BOOLEAN /\ platform \in {"linux", "darwin"} /\ params \in Params
      /\ nature \in Nature /\ changed = FALSE /\ runs = 1 /\ crashes = 0
      /\ file \in {"none", "new", "old", "foreign"}
  BY DEF Init
<1>3. known \in {file, "none"} /\ running \in {file, "none", "failed"} /\ running \in Active
  BY <1>2 DEF Init, Active, Version
<1>4. enabled \in BOOLEAN
  BY DEF Init, Nature
<1>5. before = [file |-> file, known |-> known, running |-> running]
  BY DEF Init, Service
<1>11. ServiceLife
  BY <1>1 DEF ServiceLife, LifeOf, Undoing, LinuxPhase, DarwinPhase
<1>12. ServiceType
  <2>1. file \in File /\ known \in File
    BY <1>2, <1>3 DEF File, Version
  <2>2. runs \in 1 .. MaxRuns /\ crashes \in 0 .. MaxCrashes
    BY <1>2, BoundsAssumption
  <2>. QED
    BY <1>1, <1>2, <1>3, <1>4, <1>5, <2>1, <2>2 DEF ServiceType, LifeTypeOK
<1>13. UnitInv /\ AgentInv
  BY <1>1 DEF UnitInv, AgentInv
<1>14. RunningInv /\ StartedInv
  BY <1>1, <1>3 DEF RunningInv, StartedInv, Version
<1>15. ServiceSettled /\ ServiceCalm
  BY <1>1 DEF ServiceSettled, Proceeded, ServiceCalm
<1>16. EffectConfirmed /\ UpdateTakesEffect /\ NothingLeftLoaded
  BY <1>1 DEF EffectConfirmed, UpdateTakesEffect, NothingLeftLoaded
<1>. QED
  BY <1>11, <1>12, <1>13, <1>14, <1>15, <1>16 DEF ServiceInv

HIDE NodeAssumption DEF At, Continue, Succeeds, Fails, Returns, Failed, Goto, Report, Undone,
                        GivesUp, setVars, hostVars, lifeVars, Linux, Darwin

-----------------------------------------------------------------------------
(* The hosts together.                                                      *)

\* Every action of Packages preserves the invariant.
LEMMA PackageNext ==
  ASSUME PackageInv, Pkg!Next, calm' = CalmNext
  PROVE  PackageInv'
<1>1. CASE \E n \in {1, 2, 3} : Pkg!AssessState(n)
  BY <1>1, AssessFirstStep, AssessSecondStep, AssessThirdStep
<1>2. CASE \E changer \in {"apt", "formula"} : Pkg!Keep(changer)
  BY <1>2, KeepStep
<1>3. CASE \E changer \in {"formula", "cask"} :
             Pkg!BrewInstall(changer) \/ Pkg!BrewUninstall(changer)
  BY <1>3, BrewInstallStep, BrewUninstallStep
<1>. QED
  BY <1>1, <1>2, <1>3, PackageStartStep, FetchKeyStep, ClearKeyringStep, DearmorStep,
     CheckFingerprintStep, WriteSourcesStep, RemoveSourcesStep, RemoveKeyringStep,
     AptUpdateStep, CannotUndoStep, FetchScriptStep, RunScriptStep, BrewTapStep,
     BrewUntapStep, AptInstallStep, AptRemoveStep
     DEF Pkg!Next

\* Every action of Services preserves the invariant.
LEMMA ServiceNext ==
  ASSUME ServiceInv, Next, calm' = CalmNext
  PROVE  ServiceInv'
  BY CrashStep, ServiceStartStep, AssessServiceStep, WriteUnitStep, DaemonReloadStep,
     ApplyEnabledStep, ApplyStartedStep, RollbackStopStep, RollbackDisableStep,
     DeleteUnitStep, RollbackReloadStep, WritePlistStep, BootstrapStep, LegacyLoadStep,
     BootoutStep, LegacyUnloadStep, DeletePlistStep
     DEF Next

\* The invariant holds when start() is called for the first time.
LEMMA HostsInit ==
  ASSUME MCInit
  PROVE  HostsInv
<1>1. CASE host = "service"
  BY <1>1, ServiceInit DEF MCInit, HostsInv
<1>2. CASE host = "package"
  BY <1>2, PackageInit DEF MCInit, HostsInv
<1>3. CASE host = "account"
  BY <1>3, AccountInit DEF MCInit, HostsInv
<1>4. CASE host = "install"
  BY <1>4, InstallInit DEF MCInit, HostsInv
<1>. QED
  BY <1>1, <1>2, <1>3, <1>4 DEF MCInit

\* Each kind of host takes only its own steps, and they preserve the invariant.
LEMMA HostsStep ==
  ASSUME HostsInv, [MCNext]_hostsVars
  PROVE  HostsInv'
<1>1. CASE MCNext
  <2>1. calm' = CalmNext /\ host' = host
    BY <1>1 DEF MCNext
  <2>2. CASE host = "service" /\ Next
    BY <2>1, <2>2, ServiceNext DEF HostsInv
  <2>3. CASE host = "package" /\ Pkg!Next
    BY <2>1, <2>3, PackageNext DEF HostsInv
  <2>4. CASE host = "account" /\ Acc!Next
    BY <2>1, <2>4, AccountNext DEF HostsInv
  <2>5. CASE host = "install" /\ Ins!Next
    BY <2>1, <2>5, InstallNext DEF HostsInv
  <2>. QED
    BY <1>1, <2>2, <2>3, <2>4, <2>5 DEF MCNext
<1>2. CASE UNCHANGED hostsVars
  <2>1. UNCHANGED <<host, calm, platform, phase, outcome, result, undo, faults, params, nature,
                    runs, before, file, known, running, enabled, changed, crashes, manager,
                    keyring, sources, lists, brew, tap, pkg, ordered, taken, user, group,
                    shells, fresh, created, source, aged, work, present, text, pre, buffer,
                    other>>
    BY <1>2 DEF hostsVars, shared, lifeVars, serviceOnly, packageOnly, accountOnly,
                installOnly, memory
  <2>2. host = "service" => ServiceInv'
    BY <2>1, ServiceStutter DEF HostsInv
  <2>3. host = "package" => PackageInv'
    BY <2>1, PackageStutter DEF HostsInv
  <2>4. host = "account" => AccountInv'
    BY <2>1, AccountStutter DEF HostsInv
  <2>5. host = "install" => InstallInv'
    BY <2>1, InstallStutter DEF HostsInv
  <2>. QED
    BY <2>1, <2>2, <2>3, <2>4, <2>5 DEF HostsInv
<1>. QED
  BY <1>1, <1>2

\* HostsInv holds in every state of the four hosts: between any two commands of their
\* changers and of the inverses, in every run, and after every crash.
THEOREM HostsInvariant == MCSpec => []HostsInv
<1>1. MCInit => HostsInv
  BY HostsInit
<1>2. HostsInv /\ [MCNext]_hostsVars => HostsInv'
  BY HostsStep
<1>. QED
  BY <1>1, <1>2, PTL DEF MCSpec

-----------------------------------------------------------------------------
(* What the invariant implies.                                              *)

\* The types of the four modules.
LEMMA HostTypeImplied ==
  ASSUME HostsInv
  PROVE  HostTypeOK
<1>1. CASE host = "service"
  <2>1. ServiceType /\ phase["node"] \in {"assess", "transition", "reload", "enable", "start",
                          "bootstrap", "load", "verify", "rollback", "disable", "delete",
                          "undo_reload", "unload", "done"}
    BY <1>1, NodeAssumption DEF HostsInv, ServiceInv, ServiceType
  <2>2. TypeOK
    BY <2>1 DEF ServiceType, TypeOK
  <2>. QED
    BY <1>1, <2>2 DEF HostTypeOK
<1>2. CASE host = "package"
  <2>1. PackageType
    BY <1>2 DEF HostsInv, PackageInv
  <2>2. Pkg!TypeOK
    BY <2>1 DEF PackageType, Three, Pkg!TypeOK
  <2>. QED
    BY <1>2, <2>2 DEF HostTypeOK
<1>3. CASE host = "account"
  <2>1. AccountType /\ AccountLife
    BY <1>3 DEF HostsInv, AccountInv
  <2>2. \A n \in Three : phase[n] \in UserPhase \cup GroupPhase \cup ShellPhase
    BY <2>1 DEF AccountLife
  <2>3. Acc!TypeOK
    BY <2>1, <2>2 DEF AccountType, Three, UserPhase, GroupPhase, ShellPhase, Acc!TypeOK
  <2>. QED
    BY <1>3, <2>3 DEF HostTypeOK
<1>4. CASE host = "install"
  <2>1. InstallType
    BY <1>4 DEF HostsInv, InstallInv
  <2>2. Ins!TypeOK
    BY <2>1 DEF InstallType, Three, Ins!TypeOK
  <2>. QED
    BY <1>4, <2>2 DEF HostTypeOK
<1>. QED
  BY <1>1, <1>2, <1>3, <1>4 DEF HostsInv

\* What apt and brew nodes report is what the host is like.
LEMMA PackageEffectImplied ==
  ASSUME PackageInv
  PROVE  Pkg!EffectConfirmed
<1>1. /\ manager \in {"apt", "formula", "cask"} /\ PackageReported
      /\ RepositoryInv /\ HomebrewInv /\ AptInv /\ BrewInv
  BY DEF PackageInv, PackageWorld
<1>2. ASSUME NEW n \in {1, 2, 3}, ~faults, result[n] = "MISMATCH"
      PROVE  \/ Pkg!Chain[n] = "update" /\ ~nature.recent
             \/ Pkg!Chain[n] = "formula" /\ params.version /\ before.version = 0
             \/ Pkg!Chain[n] = "cask" /\ params.version /\ nature.newest # Pkg!Wanted
  <2>1. CASE manager = "apt"
    BY <1>1, <1>2, <2>1, ChainOf DEF RepositoryInv, AptInv
  <2>2. CASE manager # "apt"
    BY <1>1, <1>2, <2>2, ChainOf DEF HomebrewInv, BrewInv
  <2>. QED
    BY <2>1, <2>2
<1>. QED
  BY <1>1, <1>2 DEF PackageReported, Pkg!EffectConfirmed

\* What the accounts of a host are like when a node has reported.
LEMMA AccountEffectImplied ==
  ASSUME AccountInv
  PROVE  Acc!EffectConfirmed
<1>1. ordered => \A n \in {1, 2, 3} : outcome[n] \in {"SUCCESS", "SKIPPED_ALREADY_APPLIED"} =>
         CASE n = 1 -> Acc!Visible /\ (params.supp => group = "member")
           [] n = 2 -> group = "member"
           [] n = 3 -> user.shell = "zsh"
  BY DEF AccountInv, AccountEffect, Proceeded
<1>2. ~faults /\ "MISMATCH" \in {result[n] : n \in {1, 2, 3}} =>
        ~ordered /\ params.enforce /\ params.shell
  BY DEF AccountInv, UserSound, OthersSound, Disputed
<1>. QED
  BY <1>1, <1>2 DEF Acc!EffectConfirmed

\* What a node of Install reports as done is whole, or an earlier run broke off.
LEMMA ReportedWholeImplied ==
  ASSUME InstallInv
  PROVE  Ins!ReportedWhole
<1>1. ~Clean => runs > 1 /\ (faults \/ nature.archive # "sound" \/ ~nature.encodes)
  BY DEF Clean, InstallInv, InstallType
<1>2. Clean /\ Proceeded(1) => source = Ins!Whole
  BY DEF InstallInv, SourceInv
<1>3. Clean /\ Proceeded(2) => work = Ins!Work
  BY DEF InstallInv, WorkInv
<1>4. Clean /\ Proceeded(3) => ~text.torn \/ ~present
  <2>1. Proceeded(3) => phase[3] = "done" /\ result[3] \notin {"FAILURE", "MISMATCH"}
    BY DEF InstallInv, InstallLife, LifeOf, Proceeded, Three
  <2>. QED
    BY <2>1 DEF Clean, InstallInv, TornInv
<1>. QED
  BY <1>1, <1>2, <1>3, <1>4 DEF Ins!ReportedWhole, Proceeded

\* What the nodes of any host report is what the host is like.
LEMMA EffectImplied ==
  ASSUME HostsInv
  PROVE  EffectAsReported
  BY PackageEffectImplied, AccountEffectImplied, ReportedWholeImplied
     DEF HostsInv, EffectAsReported, ServiceInv, InstallInv

\* Once every node has proceeded, the next run begins no transition.
LEMMA QuietImplied ==
  ASSUME HostsInv
  PROVE  SecondRunQuiet
<1>1. SUFFICES ASSUME calm PROVE SecondRunQuiet
  BY DEF SecondRunQuiet
<1>2. CASE host = "service"
  <2>1. DOMAIN outcome = {"node"}
    BY <1>2, NodeAssumption DEF HostsInv, ServiceInv, ServiceType, LifeTypeOK
  <2>. QED
    BY <1>1, <1>2, <2>1 DEF HostsInv, ServiceInv, ServiceCalm, SecondRunQuiet
<1>3. CASE host = "package"
  <2>1. DOMAIN outcome = Three
    BY <1>3 DEF HostsInv, PackageInv, PackageType, Pkg!LifeTypeOK, Three
  <2>. QED
    BY <1>1, <1>3, <2>1 DEF HostsInv, PackageInv, PackageCalm, SecondRunQuiet
<1>4. CASE host = "account"
  <2>1. DOMAIN outcome = Three
    BY <1>4 DEF HostsInv, AccountInv, AccountType, Acc!LifeTypeOK, Three
  <2>. QED
    BY <1>1, <1>4, <2>1 DEF HostsInv, AccountInv, AccountCalm, SecondRunQuiet
<1>5. CASE host = "install"
  <2>1. DOMAIN outcome = Three
    BY <1>5 DEF HostsInv, InstallInv, InstallType, Ins!LifeTypeOK, Three
  <2>. QED
    BY <1>1, <1>5, <2>1 DEF HostsInv, InstallInv, InstallCalm, SecondRunQuiet
<1>. QED
  BY <1>2, <1>3, <1>4, <1>5 DEF HostsInv

-----------------------------------------------------------------------------
(* The properties of MCHosts.                                               *)

\* The state of every host stays within its types, for any number of runs and crashes.
THEOREM HostTypesHold == MCSpec => []HostTypeOK
<1>1. HostsInv => HostTypeOK
  BY HostTypeImplied
<1>. QED
  BY <1>1, HostsInvariant, PTL

\* What the changers report is what the host is like, and without faults the second
\* assess_state confirms the transition but for the exceptions named.
THEOREM EffectsAreAsReported == MCSpec => []EffectAsReported
<1>1. HostsInv => EffectAsReported
  BY EffectImplied
<1>. QED
  BY <1>1, HostsInvariant, PTL

\* A rollback that reports success has removed what the transition has made.
THEOREM NothingIsLeft == MCSpec => []NothingLeft
<1>1. HostsInv => NothingLeft
  BY DEF HostsInv, NothingLeft, ServiceInv, PackageInv, AccountInv, InstallInv
<1>. QED
  BY <1>1, HostsInvariant, PTL

\* A service runs what was written, a package is found after its lists were fetched.
THEOREM UpdatesReach == MCSpec => []UpdateReaches
<1>1. HostsInv => UpdateReaches
  BY DEF HostsInv, UpdateReaches, ServiceInv, PackageInv
<1>. QED
  BY <1>1, HostsInvariant, PTL

\* What was on the host before the program is not lost by a failed transition.
THEOREM OthersAreKept == MCSpec => []OthersKept
<1>1. HostsInv => OthersKept
  BY DEF HostsInv, OthersKept, PackageInv, AccountInv, InstallInv
<1>. QED
  BY <1>1, HostsInvariant, PTL

\* The rollbacks of ensure_default_shell and replace_in_file restore what was found.
THEOREM FoundIsRestored == MCSpec => []FoundRestored
<1>1. HostsInv => FoundRestored
  BY DEF HostsInv, FoundRestored, AccountInv, InstallInv
<1>. QED
  BY <1>1, HostsInvariant, PTL

\* A second run over a host that nobody has changed begins no transition.
THEOREM SecondRunIsQuiet == MCSpec => []SecondRunQuiet
<1>1. HostsInv => SecondRunQuiet
  BY QuietImplied
<1>. QED
  BY <1>1, HostsInvariant, PTL
=============================================================================
