# statectl in TLA+

statectl is a Python framework for state transitions of a host: a program
builds a graph of *state changers* (install a package, write a file, clone a
repository, ...) and the engine runs it on a thread pool. This directory holds
a TLA+ model of the engine and of its changers, the TLC runs that check it, and
TLAPS proofs of every safety property that the passing runs check. Paths below are
relative to `src/src/statectl/`.

## The system

| Component | State it keeps | Operations | Correct when |
|---|---|---|---|
| Engine, `state_ctl.py` | list of nodes, dictionary by `id()`; during a run the in-degrees, outcomes, futures in flight | `add`, `add_deferred`, `start`; in a worker `_run_node` | nodes run once, after their upstreams; a failure blocks exactly what is below it; the run ends and accounts for every node; nothing runs after it |
| Registry, `_modules/in_memory_variable_registry.py` | name → value, write-once, under a lock | `bind`, `require`, `get`, `has`, `snapshot` | a node that succeeded owns every name it publishes; dependents read the value of this run |
| Changer protocol, `_state_changer.py` | nothing | `assess_state`, `transition`, `rollback` | SUCCESS only when the second assessment confirms it; a failure is undone |
| File changers, `_statechangers/fs/*` | parameters, some a pre-image | read, compare, write, chmod, delete | content that is not theirs survives; the inverse restores what was there |
| `git`, `net`, `archive`, `process` | parameters, observed checksums | external commands, downloads | as above, over a remote that moves |
| `apt`, `brew`, `systemd`, `launchd`, `service`, `posix` | parameters, "created by us" flags | external commands and files | as above |
| Capabilities, `_interfaces`, `_modules/real_*` | none | calls of the operating system, each of which may raise a typed error | errors are reported, effects are not assumed |

How they interact: `start()` computes in-degrees, submits the roots to a
`ThreadPoolExecutor`, and loops over `wait(..., FIRST_COMPLETED)`. Only the
thread in `start()` touches the run state; a worker runs one node from
`assess_state` to its report and touches that node and the registry. Deferred
nodes ask a factory for their changer when their upstreams are done; the
factory reads the registry. Publish callbacks bind names. Changers know nothing
of the engine; they share the host.

What is hard here: nodes finish in any order while others are still being
submitted; a changer may raise at any call; a run may be repeated on the same
registry; objects are recognised by address; a transition is a sequence of
commands each of which may fail after it had its effect; other programs act on
the host between an assessment and the transition; and the rollback runs
without an assessment of its own.

## Modules

| Module | Models | State and actions |
|---|---|---|
| `StateCtl` | `state_ctl.py`, the registry | `main`, `cursor`, `remaining`, `outcomes`, `inFlight`, `done`, `edges`, `worklist` are the local state of `start` (the in-degree loop, the release loop of `_absorb_completion` and the deque of `_mark_blocked`, one iteration per step); `pc`, `future`, `bound`, `queue` are the workers; `registry` maps a name to the node and the run that bound it |
| `DagRun` | what `start()` promises | statuses of nodes and the phase of a run, no threads |
| `StateCtlInv`, `HostsInv` | — | the inductive invariants of `StateCtl` and of `MCHosts` |
| `HandleIds` | `add`, `add_deferred`, `_resolve_upstreams` | objects with addresses and lifetimes, the dictionary by `id()` |
| `NodeLife` | `_run_node`, `_finalise_node`, `_maybe_rollback` as a changer sees them | `phase`, `outcome`, `result`, `undo` of each node; extended by the modules of changers |
| `GitClone` | `git/ensure_git_repo_cloned.py` | the remote's tip, the clone, one action per git command |
| `LineFile` | `fs/ensure_line_in_file.py` | the lines of a file, a buffer per node between reading and writing; emptying the file and writing it are two steps |
| `PathChangers` | `fs/copy_file.py`, `new_text_file.py`, `ensure_symlink.py`, `ensure_directory.py`, `set_file_mode.py`, `delete_path.py`, `net/download_file.py` | what is at one path (nothing, a file, a directory, a symlink), what it is made from, the pre-image in the transition and the one recorded at its end; one action per call of the file system |
| `Accounts` | `posix/ensure_user.py`, `ensure_group_membership.py`, `ensure_default_shell.py` | one account of Linux or macOS: the user, the group, `/etc/shells`, and what the changers recorded (`created` for `_created_by_us`, `pre` for `_pre_shell`); one action per command or write |
| `Install` | `net/fetch_url_to_string.py` or `archive/extract_archive.py`, `process/run_command.py`, `fs/replace_in_file.py` | a chain: a cached script or an unpacked tree, the command that runs it, a replacement in a file; contents are sets of parts, so that what broke off half-way can be told from the whole |
| `Services` | `service/ensure_service.py`, `systemd/ensure_systemd_unit.py`, `launchd/ensure_launchd_agent.py` | the version of a service in its file, the one the manager has read, the one that is running; one action per command |
| `Packages` | `apt/apt_repository.py`, `apt_update.py`, `apt_package.py`, `brew/ensure_homebrew_installed.py`, `brew_tap.py`, `brew_package.py`, `brew_cask.py` | a chain of three nodes that bring a package to Debian (repository, update, package) or to macOS (Homebrew, tap, formula or cask): keyring, source file, package lists, tap, and the package with its version and its hold or pin; one action per command |

`StateCtlProofs`, `HandleIdsProofs`, `GitCloneProofs`, `LineFileProofs`,
`PathChangersProofs`, `AccountsProofs`, `InstallProofs` and `HostsProofs` (each of the
last two extends the one before it) hold the proofs. The `MC` modules give the
constants their values. `MCHosts` composes `Services`, `Packages`, `Accounts` and `Install` as four
kinds of host in one run, and adds `calm`: whether the run before this one was
without faults, all its nodes proceeded, and nothing else has acted since.

`StateCtl` lets every call into a changer return whatever its interface allows
or raise; the modules of changers take the other side and run the real
assessment, transition and inverse under the protocol of `NodeLife`.

## Runs

| Run | Instance | Shows |
|---|---|---|
| `engine_schedule` | every graph of ≤ 4 nodes, ≤ 2 dependencies (possibly equal), 2 workers | `UpstreamsProceeded`, `BlockedByFailure`, `EveryNodeSettled`, `SettledOnce`, `SubmittedOnce` |
| `engine_publish` | 3 nodes, 2 names, 2 workers, deferred readers, 2 runs with nodes added in between | `QuietAfterStart`, `PublishedByOwner`, `MissingVarExplained`, `DuplicateExplained`, and that `StateCtl` implements `DagRun` |
| `engine_liveness` | 3 nodes, 1 worker | `StartEnds`, `SubmittedRuns`, `DagRun`'s fairness |
| `ids_lookup` | 3 changers, 2 handles, 4 addresses; handles kept or dropped | `GraphAcyclic`, `LiveObjectsResolve` in any case, `KeptHandlesSuffice` while they are kept |
| `ids_reused` | the same | violated, see below |
| `git_safety` | every kind of ref and clone, tip ≤ 3, one act of the user, with and without faults | `SuccessIsFresh`, `ForeignKept`, `UncommittedKept`, `CloneLostForCause` |
| `git_dirty`, `git_tag` | without faults | violated, see below |
| `line_chain` | 2 nodes that insert one of 2 lines, every placement, files of ≤ 3 lines over 3, with and without failing reads and writes | `NoSilentLoss`, `SucceededLinePresent`, `LineOnce`, `PositionsAgree` |
| `paths_drift` | every changer and parameter, 3 contents, 2 modes, 2 runs, 2 acts of other programs, with and without faults | `MismatchRestored`, `FreshPathRemoved`, `ForeignKept`, `EffectConfirmed` |
| `paths_undo` | one run without other programs | violated, see below |
| `hosts` | `Services` (both platforms, every parameter and kind of unit, one crash), `Packages` (every parameter, both package managers), `Accounts` (both platforms, every parameter, with and without an order of the nodes) or `Install` (every parameter, three kinds of archive), 2 runs, with and without faults, one act of another program or the administrator | see the next table |

What the properties of `hosts` say of each kind of host:

| Property | `Services` | `Packages` | `Accounts` | `Install` |
|---|---|---|---|---|
| `EffectAsReported` | `EffectConfirmed` | `EffectConfirmed` | `EffectConfirmed` | `EffectConfirmed`, `ReportedWhole` |
| `NothingLeft` | `NothingLeftLoaded` | `NoSourceLeft` | `FreshAccountGone` | `CacheKept` |
| `UpdateReaches` | `UpdateTakesEffect` | `UpdateFindsPackage` | | |
| `OthersKept` | | `PackageKept` | `AccountKept`, `ShellsKept` | `EditsKept` |
| `FoundRestored` | | | `ShellRestored` | `TextRestored` |
| `SecondRunQuiet` | a calm second run begins no transition | the same | the same | the same |

Why the bounds are enough to be interesting: four nodes with two dependencies
contain diamonds, joins below a success and a failure, and a node named twice;
two workers with more nodes than workers make the queue matter; three nodes are
the least with a reader, its upstream and a rival publisher; two runs are the
least that meet a used registry. Four addresses are fewer than the five objects,
so that addresses are reused. Two runs are also the least in which a changer rolls
back by what an earlier run recorded, and in which a half result of the first is
taken for a whole one. Three commits give a clone that is behind, a push
during the run, and a merge that cannot fast-forward. `CHECK_DEADLOCK` is off in
every run because every model stops in the end: runs, edits, pushes
and acts of other programs are bounded, and a node that is done does nothing more.

Fairness (`engine_liveness` only): the thread in `start()` is weakly fair, and
so is each worker. The first is the operating system's scheduling of a thread
that does not block except in `wait`; the second also assumes that every call
into a changer returns. The engine sets no timeout on them, so this is an
assumption about the changers (`run_command` and `fetch_url_to_string` have a
timeout, the others have none). Nothing obliges the user to call `start()`.

## What the runs found

* `ids_reused`: nodes are looked up by `id()`, but the engine keeps no reference
  to a `DeferredHandle`. After the program has dropped one, a new changer at its
  address is accepted as a dependency without having been added (or is refused
  as a duplicate). `KeptHandlesSuffice` shows that this is the only way.
* `git_dirty`: the inverse's refusal of a dirty working tree is in its
  `assess_state`, which the engine never calls.
* `git_tag`: an annotated tag is never recognised, because `rev-parse` names the
  tag object; a fresh clone at such a tag is deleted again.
* `paths_undo`: the inverses of `download_file`, `ensure_symlink` and
  `ensure_directory` delete what is at the path, whether the transition has made
  it or not; `copy_file` records its pre-image only at the end of a successful
  transition. A download that only had to correct the mode of a file and gets a
  404 is rolled back by deleting the file.

Exceptions that the passing properties name, because no document of the
repository says otherwise:

* `delete_path` with `missing_ok=False` always ends in `FAILED_TRANSITION`: the
  second assessment rejects the absence (`EffectConfirmed` of `PathChangers`).
* A unit without `[Install]` that should be enabled, a oneshot that should be
  started and a failed unit that should be stopped never match; the node fails and
  the unit is deleted (`EffectConfirmed` of `Services`).
* A unit is reloaded instead of restarted when it is active, its content has changed
  and it has an `ExecReload`: `systemctl reload-or-restart` leaves the process of the
  old unit, and the node reports success. Without `reload_on_change` any active
  service goes on as it was. And a run that fails after the write leaves the service
  active and the unit replaced or, by its rollback, gone: the next run finds no change
  and does not restart (`UpdateTakesEffect`).
* A launchd agent that is loaded is never booted out before the new plist is
  bootstrapped: the node either reports success while launchd keeps the old plist,
  or fails and removes the agent (`UpdateTakesEffect`).
* A clone that was there is deleted after an update that fails. Without faults and
  acts of the user that happens for an annotated tag and for a branch with a commit of
  the user's own, which no fast-forward brings to the remote's (`CloneLostForCause`);
  with faults it happens to any clone.
* A line that its own anchor matches is inserted, fails the verification (its anchor
  is no longer unique), and the rollback does not find it, so it stays.
* A copy that fails in a second run is rolled back to what the first run recorded
  (`FreshPathRemoved`).
* `apt_package` with `allow_downgrade` never passes `--allow-downgrades` on:
  `apt-get -y` refuses, and the rollback removes the package (`PackageKept`). A
  package that was removed and left its configuration files is reported as already
  installed, because `dpkg -s` still knows it (`EffectConfirmed` of `Packages`).
* A formula with a version is installed as `name@version` and looked for as `name`: it
  fails after a successful installation, and if there is no such formula and only
  the pin was missing, the rollback uninstalls the one that was there. A cask is
  installed in whatever version brew offers and fails if that is not the wanted one.
* `ensure_homebrew_installed` installs under a prefix that need not be on the PATH of
  the program: then the nodes of taps, formulas and casks below it are INVALID although
  the installation went well (`path` of `Nature`).
* `real_http_client.py` translates `OSError` and `URLError`; other errors of
  `http.client` leave `start()` without a report and without a rollback, in
  `download_file` with whatever the copy had reached. A connection that
  closes early is taken for the end of the file: without a `sha256` a short download
  is a success (`Download` of `PathChangers`).
* A substitution that changes nothing is SKIPPED by the transition; as the assessment
  wants a match that makes a difference, that takes another program (`ReadText`).
* `ensure_user` with `enforce_attributes` and a shell below which
  `ensure_default_shell` sets another one: every run after the first finds the
  account INVALID (`SecondRunQuiet`). If the two are not ordered, the second assessment
  of `ensure_user` may find the other shell, and its rollback deletes the account
  that it has just made (`EffectConfirmed` of `Accounts`).
* What a changer recorded outlives the run. An account that the administrator has
  made anew, a shell or a text that has changed since is deleted, or replaced
  by the older one, when a second run fails before it records again (`AccountKept`,
  `ShellRestored`, `TextRestored`, `EditsKept`).
* On macOS a user is a record with one `dscl` call per attribute. One that lacks an
  attribute is no user to the probe: the creation fails, nothing removes the record,
  and it blocks the uid (`FreshAccountGone`). Lookups that fail count as an account
  that does not exist (each of the two of `ensure_user` may, and `useradd` refuses a
  taken uid as well as a taken name), and then an account that was there counts as created by the
  program (`AccountKept`).
* `/etc/shells` is read and written whole: a line that another program adds in
  between is lost, and a write that fails may empty the file (`ShellsKept`).
* A `max_age` of zero, a command without hints, an archive without its sentinel and a
  replacement that contains a match are rejected by their own second assessment:
  the node fails after a transition that went well (`EffectConfirmed` of `Install`).
* What broke off half-way is taken for the whole by the next run: a torn cache file
  is fresh, a sentinel that was extracted first stands for the tree, the path of a
  hint for the command, and a torn text has nothing left to replace (`ReportedWhole`).
  A replacement that cannot be encoded raises after the file has been emptied, and
  an archive may raise an error that `RealArchive` does not translate; both leave
  `start()` without a report and without a rollback.
* `apt_update` measures the age of lists by times that come from the server: lists that
  have just been fetched may be too old. And lists that are recent are not fetched
  after a repository has been added, so the package below is not found
  (`UpdateFindsPackage` promises nothing if the update was skipped).

## Proofs

Checked by TLAPS for every value of the constants, under the assumptions the
modules name: bounds are naturals; a pool has at least one worker
(`WorkersAssumption`), the keys of a mapping are distinct (`PublishAssumption`);
changers and handles are different objects (`KindsAssumption`); the nodes of
`LineFile` are numbers, their order being the chain; contents and modes are not the
words the model uses for "nothing" or "torn" (`HostAssumption`). So they
hold for any number of nodes, workers, names and runs; of objects and addresses; of
commits and edits; for files of any length and any placement; for any contents,
modes and acts of other programs; and on the hosts of `MCHosts`, whose chains have
the three nodes of the model, for any number of runs and crashes.

| Module | Theorems | Inductive invariant |
|---|---|---|
| `StateCtlProofs` | `TypeCorrect`, `RunsAfterUpstreams`, `BlocksOnlyBelowFailures`, `AllSettled`, `QuietWhenBack`; the action properties `SettlesOnce`, `SubmitsOnce` | `SchedInv` (`Scheduled`) |
| | `OwnerPublished` | `IInv` = `SchedInv` and `PublishInv` (`Invariant`) |
| | `MissingOnlyAfterSkip`, `DuplicateOnlyByOthers` | `ExplInv` (`RegistryAccounted`) |
| | `Refines`: `Spec => ImplementsDagRun` | `RefInv` |
| `HandleIdsProofs` | `TypeCorrect`, `Acyclic`, `LiveFound`, `KeepingSuffices` | `IInv` |
| `GitCloneProofs` | `TypeCorrect`, `Fresh`, `ForeignSafe`, `UncommittedSafe`, `CloneSurvives` | `IInv` |
| `LineFileProofs` | `TypeCorrect`, `NothingLostSilently`, `SucceededLineStays`, `InsertedOnce`, `Agree` | `IInv` |
| `PathChangersProofs` | `TypeCorrect`, `MismatchUndone`, `FreshPathGone`, `ForeignSafe`, `EffectAccepted` | `IInv` |
| `HostsProofs` | `HostTypesHold`, `EffectsAreAsReported`, `NothingIsLeft`, `UpdatesReach`, `OthersAreKept`, `FoundIsRestored`, `SecondRunIsQuiet` | `HostsInv` (`HostsInvariant`) |

The arguments. None of the properties is inductive.

* *Engine.* That a node runs after its upstreams depends on `remaining` counting
  exactly the entries of its list that are not released yet. `CountInv` says so, with
  the cardinality of `Unreleased`; `SubmitInv` and `ReadyInv` say that the pool holds
  exactly the nodes with none left, `FlightInv` and `QueueInv` tie `in_flight` and the
  queue to the workers, `BlockInv` says that what is below a failure is blocked or on
  the worklist. `AllSettled` then follows at the end of the loop by taking the least
  node without an outcome. `PublishInv` adds that the first `bound[n]` names of a node
  are bound by it in this run, `ExplInv` the converse: a binding of this run was
  made by its node, as one of the names it has bound so far; with it the two codes
  that blame the registry are explained. `Refines` shows that each action maps
  to a step of `DagRun` or to a stutter; that no run ends before its nodes are
  settled is `EveryNodeSettled` again.
* *Identity.* Two objects that live at the same time have different addresses, and
  an entry of the dictionary leads to an object that has, or had, its id. With the
  handles kept no object of the graph dies, so both say the same object.
* *Clone.* What must not be touched never gets past `assess` (`RefusedInv`), and
  `FreshAt` follows what the remote had through fetch, switch and merge. `GoodInv` is
  for `CloneSurvives`: a clone that can be brought to the ref is refused by no command,
  whatever is pushed meanwhile, and is where the second assessment wants it, which
  compares with the last fetch only; so the rollback is never reached.
* *Line file.* One node at a time is at work (`OrderInv`, from the guard of
  `AssessState`). `WorkOf` says that what it has buffered is a text that may be kept
  (`Keep`) with its line inserted at one position; lemmas about sequences show that
  inserting and removing at that position are inverse, and that the four functions
  name it alike (`Agree`, whose lemmas are about every file, not only reachable ones).
* *Paths.* `KindInv` says which changer is in which phase, `LifeInv` what it has to
  report there, `CopyInv` where the pre-image of a copy is, `GuardInv` that what
  must be kept is there from the first on and refused, `MadeInv` what has been made so
  far when nothing interferes.
* *Hosts.* `HostsInv` has one part for each kind of host. `LifeOf` and `InOrder` say how
  far a node is and what it has reported there; the rest is about the host:
  * What is true between the steps of a transition: `UnitInv` and `AgentInv` which
    version is in the file, known and running, `StartedInv` which
    services may go on in the old one, `AptInv` and `BrewInv` what has been
    installed and for which reason a rollback is due, `UserSound` and `UserMade` what an
    account has and who made it, `TornInv` and `SourceInv` what may be incomplete,
    `SkipInv` that a substitution is left out only after another program's edit.
  * What the inverses use later: `CaptureInv` and `FoundInv` relate a pre-image or a
    recorded shell to what this run found. A second run that fails before it records
    still has what the first one recorded; `result[3]` tells the two apart, and so do
    the exceptions of `TextRestored` and `ShellRestored`.
  * `AccountSettled`, `InstallSettled`, `PackageSettled` and `ServiceSettled`: a node that
    proceeded would be found ALREADY_APPLIED again, *whatever the later nodes of its
    chain do and undo*. So each step of a later node has to preserve the verdicts of the
    earlier ones; for the accounts that is because `ensure_group_membership` has nothing
    to do in a group that `ensure_user` has already added (`AccountEffect`).
    `AccountSettled` leaves out faults, nodes without an order and a shell that two
    changers want different, `InstallSettled` a text that others edit, `ServiceSettled`
    a crash: there the verdicts do not last. The parts named `...Calm` carry them over to
    the next run, and `SecondRunQuiet` follows.

Each action has a lemma, with a step for each part of the invariant it can disturb;
frame lemmas collect the actions that leave most of the state alone. TLC has checked
the invariants on small instances before they were proved.

Only model-checked: liveness and the fairness of `DagRun` (`StartEnds`,
`SubmittedRuns`, `ImplementsFairDagRun`), which are out of TLAPS' reach.

## Abstractions

* Logging, messages and the order of `_mark_blocked`'s deque are left out; the
  set of nodes it marks does not depend on the order.
* The values of variables are reduced to who bound them and in which run. The
  reads of one factory are taken together: names are never unbound.
* The host of a changer's module has the one object the changer is about. A
  regular expression is the set of lines it matches; file contents and commits
  are values that are only compared.
* git commands are external. Those that fail may have had their effect, and the
  probes of an assessment fail only by making it INVALID. A `git status` that
  exits non-zero counts as a clean tree in the code; the model assumes that a
  probe that runs tells the truth.
* `PathChangers` has one node. Other nodes that work on the same path are among the
  "other programs". The directories above the path are not modelled: that they are
  missing or read-only is a fault. Files reached through a symlink are left out, and
  so are `lchmod` and `preserve_mtime`.
* `systemctl`, `launchctl` and the service itself are external. `systemctl enable`
  and `disable` do nothing to a unit without `[Install]`, `stop` leaves a failed unit
  failed, `start` leaves an active one alone, `reload-or-restart` keeps the process of an active
  unit that can be reloaded and restarts any other, `bootstrap` of a loaded agent fails, and
  `load` of one may exit with 0 or not. Each of them may have had its effect when it is
  reported as failed.
* `apt`, `dpkg`, `brew` and `gpg` are external. `apt-get -y` neither downgrades nor
  changes a held package; `remove` may leave configuration files, which `dpkg -s`
  reports with exit code 0; `update` may ignore indexes it cannot fetch; `brew pin`
  wants the formula itself; `brew untap` and `brew uninstall` refuse while the tap is
  used or the formula pinned. Errors of `http.client` that are not translated are left
  out where a key or a script is fetched: nothing on the host has been touched yet.
  Preconditions such as a missing binary, a platform or
  a directory that is not writable are faults of the assessment.
* In `Accounts` the uid stands for uid, home and primary group. Names that are refused
  and tools or shells that are missing are faults of the assessment. Nodes without an
  order are examined in one run without faults, where both `ensure_user` and
  `ensure_group_membership` want the same group. `useradd` refuses a name that exists
  and makes the account whole; `dscl -create` leaves a record that exists alone;
  `userdel` takes the entries of groups with it, `dscl -delete` does not.
* In `Install` a text is reduced to how many matches it has, how often they have been
  replaced, who has written it and whether it is torn. Parents, schemes, executables,
  wrong encodings of what is read and bad patterns are faults of the assessment; the
  formats of archives and the paths of their members are what may make them `unsafe`
  or `odd`. A command does any part of its work before it fails or is given up; one
  that runs a script or a tree of which a part is missing may also exit with 0.
* The nodes of `LineFile` form a chain. Nodes without an order between them lose
  each other's lines (the mutant `ReleasedAlways` shows it); the code does not
  claim otherwise.
* The `assess_state` of inverses is not modelled: the engine never calls it.

## Not modelled

* `_statechangers/state_changers.py`, the factory: it passes its arguments on to
  constructors and keeps nothing. `_statechangers/__init__.py`, `__init__.py` and
  `StateCtl.new` with its container only import and wire.
* `_interfaces/logger.py`, `_modules/default_logger.py`: output.
* The `assess_state` of the inverses, which the engine never calls; `preserve_mtime`
  and `lchmod`; temporary directories; `EngineResult.ok`, a function of the
  outcomes; `get`, `has` and `snapshot` of the registry, which only read.
* Several changers on one object other than those named above. The graph of a user
  may contain any mix of them; `PathChangers` stands for the others by its other
  programs, and `StateCtl` by a changer that returns or raises anything.

## Plan

1. Engine, registry, identity of nodes, `DagRun` — done.
2. `NodeLife` and the changers `GitClone`, `LineFile`, `PathChangers`,
   `Services`, `Packages`, `Accounts`, `Install` — done; the last four are checked
   together in `MCHosts`.
3. Proofs of every safety property of the passing runs, and of the refinement of
   `DagRun` — done.
4. Open: two changers on one object without an order between them, beyond the
   accounts and lines that are modelled; a shorter `HostsInv`, of whose parts some are
   only needed for one exception of a property.
