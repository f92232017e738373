------------------------------ MODULE GitClone ------------------------------
(***************************************************************************)
(* EnsureGitRepoClonedStateChanger (git/ensure_git_repo_cloned.py) and its  *)
(* rollback: a clone at dest_dir, brought to a branch, tag or commit by     *)
(* separate git commands, while the remote moves and the user of the clone  *)
(* goes on working in it.                                                   *)
(*                                                                         *)
(* The remote has one branch, main, whose commits are 1 .. tip; a local     *)
(* branch holds the first `base` of them and possibly one commit of the     *)
(* user's own.  The git commands are external: each is modelled by what it  *)
(* does to the clone.  A command that fails may have had its effect all the *)
(* same (PROCESS_DECODE_ERROR is raised after the process has ended).       *)
(***************************************************************************)
EXTENDS Naturals, NodeLife

CONSTANTS
  MaxTip,    \* bound on the commits pushed to the remote
  MaxEdits,  \* bound on what the user does in the clone during the run
  Faults,    \* the choices of whether commands, probes and deletions may fail
  Params     \* the parameters a program may give: ref, shallow, update_existing

ASSUME BoundsAssumption == MaxTip \in Nat \ {0} /\ MaxEdits \in Nat /\ Faults \subseteq BOOLEAN

Commit   == [base : 0 .. MaxTip, own : 0 .. 1]
At(c)    == [base |-> c, own |-> 0]
NoBranch == At(0)

\* A tag or commit ref names one of the remote's commits.
Ref == [kind : {"branch", "tag", "annotated", "commit"}, commit : 1 .. MaxTip]

\* One node works on the clone.
ASSUME NodeAssumption == Node = {"git"}

ASSUME ParamsAssumption ==
  Params \subseteq [ref : Ref, shallow : BOOLEAN, update : BOOLEAN]

VARIABLES
  faults,  \* may the commands, probes and deletions of this host fail?
  params,  \* self._params
  tip,     \* the newest commit of the remote
  repo,    \* what is at dest_dir
  edits,   \* how often the user has acted
  before,  \* what was at dest_dir when the node started
  seenTip  \* the remote's newest commit at that time

hostVars == <<tip, repo, edits>>
seenVars == <<faults, params, before, seenTip>>
vars     == <<faults, params, tip, repo, edits, before, seenTip, lifeVars>>

\* `at` is what is at dest_dir, `on` what is checked out: main or, detached,
\* the commit `head`; `tracking` is the commit origin/main refers to.
Repo == [at : {"absent", "plain", "clone"}, origin : {"same", "other"},
         on : {"main", "detached"}, main : Commit, head : Commit,
         tracking : 0 .. MaxTip, dirty : BOOLEAN]

Absent == [at |-> "absent", origin |-> "same", on |-> "main", main |-> NoBranch,
           head |-> NoBranch, tracking |-> 0, dirty |-> FALSE]
Plain  == [Absent EXCEPT !.at = "plain"]

\* The clones a run may find: behind the remote or not, on main or detached,
\* with or without commits and changes of the user's own.
Clones(t) ==
  {r \in Repo :
     /\ r.at = "clone"
     /\ r.tracking \in 1 .. t
     /\ r.main.base \in 1 .. r.tracking
     /\ r.head = IF r.on = "main" THEN NoBranch ELSE At(1)}

Init ==
  /\ faults \in Faults
  /\ params \in Params
  /\ tip \in params.ref.commit .. MaxTip
  /\ repo \in {Absent, Plain} \cup Clones(tip)
  /\ edits = 0
  /\ before = repo
  /\ seenTip = tip
  /\ LifeInit

-----------------------------------------------------------------------------
(* The rest of the world.                                                   *)

Push ==
  /\ tip < MaxTip
  /\ tip' = tip + 1
  /\ UNCHANGED <<repo, edits, seenVars, lifeVars>>

UserActs ==
  /\ edits < MaxEdits
  /\ repo.at = "clone"
  /\ \/ repo' = [repo EXCEPT !.dirty = TRUE]
     \/ repo.on = "main" /\ repo' = [repo EXCEPT !.main.own = 1, !.dirty = FALSE]
  /\ edits' = edits + 1
  /\ UNCHANGED <<tip, seenVars, lifeVars>>

-----------------------------------------------------------------------------
(* assess_state.                                                            *)

HeadCommit == IF repo.on = "main" THEN repo.main ELSE repo.head

\* Mutant: the branch is compared with what the remote has now (ls-remote).
HeadMatchesRemote ==
  CASE params.ref.kind = "branch" -> repo.on = "main" /\ repo.main = At(tip)
    [] params.ref.kind \in {"tag", "commit"} -> HeadCommit = At(params.ref.commit)
    [] params.ref.kind = "annotated" -> FALSE

\* _head_matches_ref.  rev-parse of an annotated tag names the tag object, not
\* the commit it points to.
HeadMatchesRef ==
  CASE params.ref.kind = "branch" ->
         repo.on = "main" /\ repo.main = At(repo.tracking)
    [] params.ref.kind \in {"tag", "commit"} -> HeadCommit = At(params.ref.commit)
    [] params.ref.kind = "annotated" -> FALSE

\* Mutant: the origin of the clone is not compared with repo_url.
VerdictAnyOrigin ==
  IF repo.at = "absent" THEN "READY"
  ELSE IF repo.at = "plain" THEN "INVALID"
  ELSE IF HeadMatchesRef THEN "ALREADY_APPLIED"
  ELSE IF params.update /\ ~repo.dirty THEN "READY"
  ELSE "INVALID"

\* Mutant: uncommitted changes do not keep the clone from being updated.
VerdictDirty ==
  IF repo.at = "absent" THEN "READY"
  ELSE IF repo.at = "plain" \/ repo.origin = "other" THEN "INVALID"
  ELSE IF HeadMatchesRef THEN "ALREADY_APPLIED"
  ELSE IF params.update THEN "READY"
  ELSE "INVALID"

Verdict ==
  IF repo.at = "absent" THEN "READY"
  ELSE IF repo.at = "plain" \/ repo.origin = "other" THEN "INVALID"
  ELSE IF HeadMatchesRef THEN "ALREADY_APPLIED"
  ELSE IF params.update /\ ~repo.dirty THEN "READY"
  ELSE "INVALID"

\* git may be missing or a probe may not run: INVALID whatever is there.
Verdicts == {Verdict} \cup (IF faults THEN {"INVALID"} ELSE {})

AssessState ==
  /\ \E state \in Verdicts : Assess("git", state) \/ Verify("git", state)
  /\ UNCHANGED <<hostVars, seenVars>>

-----------------------------------------------------------------------------
(* transition: one action per git command.                                  *)

\* self._fs.exists(dest_dir) chooses between cloning and updating.
Choose ==
  /\ phase["git"] = "transition"
  /\ Goto("git", IF repo.at = "absent" THEN "clone" ELSE "fetch")
  /\ UNCHANGED <<hostVars, seenVars, outcome, result, undo>>

\* A git command leaves the clone in one of the states `after`; then the
\* changer goes to its next command, or returns SUCCESS if that is "return".
Succeeds(after, next) ==
  /\ repo' \in after
  /\ IF next = "return"
     THEN Returns("git", "SUCCESS")
     ELSE Goto("git", next) /\ UNCHANGED <<outcome, result, undo>>

Fails(left) ==
  /\ repo' \in left
  /\ Returns("git", "FAILURE")

\* It fails when something is wrong with the host, and checkout and merge may
\* also refuse to touch a working tree with uncommitted changes.
Command(at, after, left, next, refused) ==
  /\ phase["git"] = at
  /\ \/ Succeeds(after, next)
     \/ faults /\ Fails(left \cup after)
     \/ refused /\ Fails(left)
  /\ UNCHANGED <<tip, edits, seenVars>>

ShallowBranchlike == params.shallow /\ params.ref.kind # "commit"

Cloned ==
  [Absent EXCEPT !.at = "clone", !.main = At(tip), !.tracking = tip]

\* --depth 1 --branch <tag>: detached at the tag, without a branch.
ClonedAtTag ==
  [Absent EXCEPT !.at = "clone", !.on = "detached", !.head = At(params.ref.commit)]

Clone ==
  Command("clone",
          {IF ShallowBranchlike /\ params.ref.kind # "branch" THEN ClonedAtTag
           ELSE Cloned},
          {Absent, Plain},
          IF ShallowBranchlike THEN "return" ELSE "checkout",
          FALSE)

\* The branch is created from origin/main where it does not exist.
CheckedOut ==
  IF params.ref.kind = "branch"
  THEN [repo EXCEPT !.on = "main", !.head = NoBranch]
  ELSE [repo EXCEPT !.on = "detached", !.head = At(params.ref.commit)]

Checkout == Command("checkout", {CheckedOut}, {repo}, "return", repo.dirty)

\* Mutant: what is fetched does not move origin/main.
FetchNothing == Command("fetch", {repo}, {repo}, "switch", FALSE)

Fetch ==
  Command("fetch", {[repo EXCEPT !.tracking = tip]}, {repo}, "switch", FALSE)

Switch ==
  Command("switch", {CheckedOut}, {repo},
          IF params.ref.kind = "branch" THEN "merge" ELSE "return",
          repo.dirty)

\* merge --ff-only origin/main: a commit of the user's own on an older base is
\* refused; on top of origin/main there is nothing to do.
Merged ==
  IF repo.main.own = 0 THEN {[repo EXCEPT !.main = At(repo.tracking)]}
  ELSE IF repo.main.base = repo.tracking THEN {repo}
  ELSE {}

Merge == Command("merge", Merged, {repo}, "return", repo.dirty \/ Merged = {})

Transition == Choose \/ Clone \/ Checkout \/ Fetch \/ Switch \/ Merge

-----------------------------------------------------------------------------
(* EnsureGitRepoClonedRollbackStateChanger.transition: dest_dir is deleted   *)
(* with all that is in it; a deletion that fails may have begun.            *)

\* Mutant: the rollback returns an assessment in place of a status.
RollbackReportsState ==
  /\ phase["git"] = "rollback"
  /\ Undone("git", IF repo.at = "absent" THEN "ALREADY_APPLIED" ELSE "SUCCESS")
  /\ repo' = Absent
  /\ UNCHANGED <<tip, edits, seenVars>>

Rollback ==
  /\ phase["git"] = "rollback"
  /\ \/ repo.at = "absent" /\ Undone("git", "SKIPPED") /\ UNCHANGED repo
     \/ repo.at # "absent" /\ Undone("git", "SUCCESS") /\ repo' = Absent
     \/ /\ faults /\ repo.at # "absent"
        /\ Undone("git", "FAILURE")
        /\ repo' \in {repo, Plain}
  /\ UNCHANGED <<tip, edits, seenVars>>

Next == Push \/ UserActs \/ AssessState \/ Transition \/ Rollback

Spec == Init /\ [][Next]_vars

-----------------------------------------------------------------------------
(* Properties.                                                              *)

TypeOK ==
  /\ LifeTypeOK
  /\ phase["git"] \in {"assess", "transition", "clone", "checkout", "fetch", "switch",
                       "merge", "verify", "rollback", "done"}
  /\ faults \in Faults
  /\ params \in Params
  /\ tip \in 1 .. MaxTip
  /\ repo \in Repo
  /\ edits \in 0 .. MaxEdits
  /\ before \in Repo
  /\ seenTip \in 1 .. MaxTip

\* A node that reports SUCCESS for a branch has brought in everything the
\* remote had when the node started, also when somebody pushes meanwhile.
SuccessIsFresh ==
  outcome["git"] = "SUCCESS" /\ params.ref.kind = "branch" =>
    repo.main.base >= seenTip

\* What is no clone of repo_url is left as it was, whatever fails.
ForeignKept ==
  before.at = "plain" \/ before.origin = "other" =>
    repo.at = before.at /\ repo.origin = before.origin

\* A clone with uncommitted changes is left alone, whatever the ref and whatever
\* fails, as long as its user does not act.
UncommittedKept == before.dirty /\ edits = 0 => repo = before

\* An update that ends badly deletes the clone that was there.  Without faults, and
\* as long as its user does not act, that happens only to a clone that no update can
\* bring to the ref: an annotated tag is never recognised, and a branch with a commit
\* of the user's own is never the remote's.  Pushes do no harm, whenever they come.
CloneLostForCause ==
  ~faults /\ edits = 0 /\ before.at = "clone" /\ repo.at # "clone" =>
    \/ params.ref.kind = "annotated"
    \/ params.ref.kind = "branch" /\ before.main.own = 1

\* The rollback refuses a working tree with uncommitted changes: no step
\* deletes one.
DirtyNeverDeleted ==
  [][repo.dirty => repo'.at = "clone"]_vars

\* A clone whose HEAD is at the commit of the tag is recognised as such.
TagRecognised ==
  result["git"] = "MISMATCH" /\ params.ref.kind \in {"tag", "annotated"} =>
    HeadCommit # At(params.ref.commit)
=============================================================================
