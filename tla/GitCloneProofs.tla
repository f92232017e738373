--------------------------- MODULE GitCloneProofs ---------------------------
(***************************************************************************)
(* Proofs about GitClone, for every set of parameters and every number of   *)
(* commits and of actions of the user, with and without faults: what the    *)
(* changer must not touch it does not touch, and what it reports holds.     *)
(***************************************************************************)
EXTENDS GitClone, TLAPS

Phase == {"assess", "transition", "clone", "checkout", "fetch", "switch",
          "merge", "verify", "rollback", "done"}

\* What the changer refuses when it assesses, before anything has changed.
Untouchable ==
  \/ before.at = "plain"
  \/ before.origin = "other"
  \/ before.dirty /\ edits = 0

\* A node whose clone it must not touch never gets to the transition.
RefusedInv == Untouchable => phase["git"] \in {"assess", "done"}

\* What a branch has of the remote when the clone r is in phase p.
FreshAt(p, r) ==
  params.ref.kind = "branch" =>
    /\ p \in {"checkout", "verify"} => r.main.base >= seenTip
    /\ p \in {"switch", "merge"} => r.tracking >= seenTip

\* A clone that an update can bring to the ref, on a host where nothing goes wrong.
Good ==
  /\ ~faults /\ edits = 0 /\ before.at = "clone"
  /\ params.ref.kind # "annotated"
  /\ params.ref.kind = "branch" => before.main.own = 0

\* What such a clone r is like in phase p: no command refuses it, and at the end it
\* is where the second assessment wants it, also if the remote has moved on.
GoodAt(p, r) ==
  /\ r.at = "clone" /\ r.dirty = before.dirty /\ r.origin = before.origin
  /\ p \in {"assess", "transition", "fetch", "switch", "merge", "verify", "done"}
  /\ params.ref.kind = "branch" => r.main.own = 0
  /\ p = "merge" => params.ref.kind = "branch" /\ r.on = "main"
  /\ p = "verify" =>
       IF params.ref.kind = "branch"
       THEN r.on = "main" /\ r.main = At(r.tracking)
       ELSE r.on = "detached" /\ r.head = At(params.ref.commit)

GoodInv == Good => GoodAt(phase["git"], repo)

\* Where nothing is, there is nothing of a clone; what is updated is there.
RepoInv ==
  /\ repo.at = "absent" => repo = Absent
  /\ phase["git"] \in {"checkout", "fetch", "switch", "merge"} => repo.at # "absent"

\* A report is made once, at the end.
ReportInv == outcome["git"] = "SUCCESS" => phase["git"] = "done"

IInv ==
  /\ TypeOK
  /\ phase \in [Node -> Phase]
  /\ seenTip <= tip
  /\ RefusedInv /\ RepoInv /\ ReportInv /\ GoodInv
  /\ FreshAt(phase["git"], repo)
  /\ SuccessIsFresh /\ ForeignKept /\ UncommittedKept

LEMMA Constants ==
  /\ Node = {"git"} /\ MaxTip \in Nat \ {0} /\ MaxEdits \in Nat /\ Faults \subseteq BOOLEAN
  /\ \A p \in Params :
       /\ p.ref.commit \in 1 .. MaxTip
       /\ p.ref.kind \in {"branch", "tag", "annotated", "commit"}
       /\ p.shallow \in BOOLEAN /\ p.update \in BOOLEAN
BY BoundsAssumption, NodeAssumption, ParamsAssumption DEF Ref

\* The clones that the model writes down are clones.
LEMMA RepoValues ==
  /\ Absent \in Repo /\ Absent.at = "absent" /\ Absent.origin = "same" /\ ~Absent.dirty
  /\ Plain \in Repo /\ Plain.at = "plain" /\ ~Plain.dirty
  /\ \A c \in 0 .. MaxTip : At(c) \in Commit /\ At(c).base = c
<1>1. ASSUME NEW c \in 0 .. MaxTip PROVE At(c) \in Commit /\ At(c).base = c
  BY <1>1 DEF At, Commit
<1>2. NoBranch \in Commit
  BY <1>1, Constants DEF NoBranch
<1>3. Absent \in Repo /\ Absent.at = "absent" /\ Absent.origin = "same" /\ ~Absent.dirty
  BY <1>2, Constants DEF Repo, Absent
<1>4. Plain \in Repo /\ Plain.at = "plain" /\ ~Plain.dirty
  BY <1>3 DEF Repo, Plain
<1> QED
  BY <1>1, <1>3, <1>4

LEMMA InitIInv == Init => IInv
<1> SUFFICES ASSUME Init PROVE IInv
  OBVIOUS
<1>1. /\ params \in Params /\ tip \in params.ref.commit .. MaxTip
      /\ repo \in {Absent, Plain} \cup Clones(tip) /\ faults \in Faults
      /\ edits = 0 /\ before = repo /\ seenTip = tip
      /\ phase = [n \in Node |-> "assess"] /\ outcome = [n \in Node |-> "NONE"]
      /\ result = [n \in Node |-> "NONE"] /\ undo = [n \in Node |-> "NONE"]
  BY DEF Init, LifeInit
<1>2. repo \in Repo /\ tip \in 1 .. MaxTip
  BY <1>1, Constants, RepoValues DEF Clones
<1>3. /\ phase["git"] = "assess" /\ outcome["git"] = "NONE" /\ undo["git"] = "NONE"
      /\ phase \in [Node -> Phase]
  BY <1>1, Constants DEF Phase
<1>4. TypeOK
  BY <1>1, <1>2, <1>3, Constants DEF TypeOK, LifeTypeOK, Status
<1>5. GoodInv
  BY <1>1, <1>3, RepoValues DEF GoodInv, Good, GoodAt
<1> QED
  BY <1>1, <1>2, <1>3, <1>4, <1>5, Constants, RepoValues DEF IInv, RefusedInv, RepoInv,
     ReportInv, FreshAt, Clones, SuccessIsFresh, ForeignKept, UncommittedKept

\* What TypeOK says of the variables, as the other proofs use it.
LEMMA Types ==
  ASSUME IInv
  PROVE  /\ phase \in [{"git"} -> Phase]
         /\ outcome \in [{"git"} -> {"NONE", "SUCCESS", "SKIPPED_ALREADY_APPLIED",
                           "SKIPPED_BY_TRANSITION", "FAILED_INVALID",
                           "FAILED_TRANSITION"}]
         /\ result \in [{"git"} -> Status \cup {"NONE", "MISMATCH"}]
         /\ undo \in [{"git"} -> Status \cup {"NONE"}]
         /\ params \in Params /\ faults \in BOOLEAN
         /\ repo \in Repo /\ before \in Repo
         /\ tip \in 1 .. MaxTip /\ seenTip \in 1 .. MaxTip /\ edits \in 0 .. MaxEdits
         /\ MaxTip \in Nat /\ MaxEdits \in Nat
BY Constants DEF IInv, TypeOK, LifeTypeOK

LEMMA PushIInv ==
  ASSUME IInv, Push
  PROVE  IInv'
<1>1. /\ tip' = tip + 1 /\ tip < MaxTip
      /\ UNCHANGED <<repo, edits, faults, params, before, seenTip, phase, outcome, result, undo>>
  BY DEF Push, seenVars, lifeVars
<1>2. tip' \in 1 .. MaxTip /\ seenTip <= tip'
  BY <1>1, Types DEF IInv
<1> QED
  BY <1>1, <1>2 DEF IInv, TypeOK, LifeTypeOK, RefusedInv, Untouchable, RepoInv, ReportInv,
     GoodInv, Good, GoodAt, FreshAt, SuccessIsFresh, ForeignKept, UncommittedKept

LEMMA UserActsIInv ==
  ASSUME IInv, UserActs
  PROVE  IInv'
<1>1. /\ repo.at = "clone" /\ edits < MaxEdits /\ edits' = edits + 1
      /\ UNCHANGED <<tip, faults, params, before, seenTip, phase, outcome, result, undo>>
  BY DEF UserActs, seenVars, lifeVars
<1>2. /\ repo' \in Repo
      /\ repo'.at = "clone" /\ repo'.origin = repo.origin
      /\ repo'.main.base = repo.main.base /\ repo'.tracking = repo.tracking
  <2>1. CASE repo' = [repo EXCEPT !.dirty = TRUE]
    BY <1>1, <2>1, Types DEF Repo, Commit
  <2>2. CASE repo' = [repo EXCEPT !.main.own = 1, !.dirty = FALSE]
    <3>1. repo.main \in Commit /\ repo.main.base \in 0 .. MaxTip
      BY Types DEF Repo, Commit
    <3> DEFINE m == [repo.main EXCEPT !.own = 1]
    <3>2. m \in Commit /\ m.base = repo.main.base
      BY <3>1 DEF Commit
    <3>3. repo' = [repo EXCEPT !.main = m, !.dirty = FALSE]
      BY <2>2
    <3> HIDE DEF m
    <3> QED
      BY <1>1, <3>2, <3>3, Types DEF Repo
  <2> QED
    BY <2>1, <2>2 DEF UserActs
<1>3. edits' \in 0 .. MaxEdits /\ edits' # 0
  BY <1>1, Types
<1>4. TypeOK' /\ phase' \in [Node -> Phase] /\ seenTip' <= tip'
  BY <1>1, <1>2, <1>3 DEF IInv, TypeOK, LifeTypeOK
<1>5. RefusedInv' /\ ForeignKept' /\ UncommittedKept'
  BY <1>1, <1>2, <1>3 DEF IInv, RefusedInv, Untouchable, ForeignKept, UncommittedKept
<1>6. RepoInv' /\ ReportInv' /\ SuccessIsFresh' /\ FreshAt(phase["git"], repo)'
  BY <1>1, <1>2 DEF IInv, RepoInv, ReportInv, FreshAt, SuccessIsFresh
<1>7. GoodInv'
  BY <1>3 DEF GoodInv, Good
<1> QED
  BY <1>4, <1>5, <1>6, <1>7 DEF IInv

\* What the changer must not touch it does not find READY.
LEMMA NotReady ==
  ASSUME IInv, Untouchable
  PROVE  "READY" \notin Verdicts
<1>1. repo.at = "plain" \/ repo.origin = "other" \/ repo.dirty
  BY DEF Untouchable, IInv, ForeignKept, UncommittedKept
<1>2. Verdict # "READY"
  <2>1. repo.at # "absent"
    BY <1>1, RepoValues DEF IInv, RepoInv
  <2> QED
    BY <1>1, <2>1, Types DEF Verdict, Repo
<1> QED
  BY <1>2 DEF Verdicts

\* The second assessment accepts a good clone.
LEMMA GoodMatches ==
  ASSUME IInv, Good, phase["git"] = "verify"
  PROVE  Verdicts = {"ALREADY_APPLIED"}
<1>1. GoodAt("verify", repo)
  BY DEF IInv, GoodInv
<1>2. params.ref.kind \in {"branch", "tag", "commit"}
  BY Types, Constants DEF Good
<1>3. HeadMatchesRef
  BY <1>1, <1>2 DEF GoodAt, HeadMatchesRef, HeadCommit
<1>4. repo.origin # "other"
  BY <1>1 DEF IInv, RefusedInv, Untouchable, GoodAt
<1>5. Verdict = "ALREADY_APPLIED"
  BY <1>1, <1>3, <1>4 DEF GoodAt, Verdict
<1> QED
  BY <1>5 DEF Verdicts, Good

\* The steps of the engine leave the clone and its user alone: what is left to
\* show is what they do to the life of the node.
LEMMA LifeFrame ==
  ASSUME IInv, UNCHANGED <<tip, repo, edits, faults, params, before, seenTip>>,
         TypeOK', phase' \in [Node -> Phase], RefusedInv', RepoInv', ReportInv',
         FreshAt(phase'["git"], repo),
         Good => GoodAt(phase'["git"], repo),
         outcome'["git"] = "SUCCESS" => outcome["git"] = "SUCCESS" \/ phase["git"] = "verify"
  PROVE  IInv'
<1>1. SuccessIsFresh'
  BY DEF IInv, SuccessIsFresh, FreshAt
<1>2. FreshAt(phase["git"], repo)'
  BY DEF FreshAt
<1>3. ForeignKept' /\ UncommittedKept'
  BY DEF IInv, ForeignKept, UncommittedKept
<1>4. GoodInv'
  BY DEF GoodInv, Good, GoodAt
<1> QED
  BY <1>1, <1>2, <1>3, <1>4 DEF IInv

LEMMA AssessIInv ==
  ASSUME IInv, AssessState
  PROVE  IInv'
<1>1. PICK state \in Verdicts : Assess("git", state) \/ Verify("git", state)
  BY DEF AssessState
<1>2. UNCHANGED <<tip, repo, edits, faults, params, before, seenTip>>
  BY DEF AssessState, hostVars, seenVars
<1>3. Untouchable' = Untouchable
  BY <1>2 DEF Untouchable
<1>4. CASE Assess("git", state)
  <2>1. /\ phase["git"] = "assess" /\ UNCHANGED <<result, undo>>
        /\ \/ state = "READY" /\ phase' = [phase EXCEPT !["git"] = "transition"]
              /\ outcome' = outcome
           \/ \E o \in {"SKIPPED_ALREADY_APPLIED", "FAILED_INVALID"} :
                /\ phase' = [phase EXCEPT !["git"] = "done"]
                /\ outcome' = [outcome EXCEPT !["git"] = o]
    BY <1>4 DEF Assess, Report, Goto
  <2>2. /\ phase'["git"] \in {"transition", "done"} /\ phase' \in [Node -> Phase]
        /\ Untouchable => phase'["git"] = "done"
        /\ outcome'["git"] = "SUCCESS" => outcome["git"] = "SUCCESS"
    BY <1>1, <2>1, Types, Constants, NotReady DEF Phase
  <2>3. TypeOK'
    BY <1>2, <2>1, <2>2, Types, Constants DEF IInv, TypeOK, LifeTypeOK
  <2>4. RefusedInv' /\ RepoInv' /\ ReportInv'
    BY <1>2, <1>3, <2>1, <2>2 DEF IInv, RefusedInv, RepoInv, ReportInv
  <2>5. FreshAt(phase'["git"], repo)
    BY <2>2 DEF FreshAt
  <2>6. Good => GoodAt(phase'["git"], repo)
    BY <2>2 DEF IInv, GoodInv, GoodAt
  <2> QED
    BY <1>2, <2>2, <2>3, <2>4, <2>5, <2>6, LifeFrame
<1>5. CASE Verify("git", state)
  <2>1. /\ phase["git"] = "verify" /\ undo' = undo
        /\ \/ /\ phase' = [phase EXCEPT !["git"] = "done"]
              /\ outcome' = [outcome EXCEPT !["git"] = "SUCCESS"]
              /\ result' = result
           \/ /\ phase' = [phase EXCEPT !["git"] = "rollback"]
              /\ result' = [result EXCEPT !["git"] = "MISMATCH"]
              /\ outcome' = outcome
    BY <1>5 DEF Verify, Report, Failed, Goto
  <2>2. /\ phase'["git"] \in {"rollback", "done"} /\ phase' \in [Node -> Phase]
        /\ outcome'["git"] = "SUCCESS" => phase'["git"] = "done"
    BY <2>1, Types, Constants DEF Phase, IInv, ReportInv
  <2>3. TypeOK'
    BY <1>2, <2>1, <2>2, Types, Constants DEF IInv, TypeOK, LifeTypeOK
  <2>4. RefusedInv' /\ RepoInv' /\ ReportInv'
    BY <1>2, <1>3, <2>1, <2>2 DEF IInv, RefusedInv, RepoInv, ReportInv
  <2>5. FreshAt(phase'["git"], repo)
    BY <2>2 DEF FreshAt
  <2>6. Good => GoodAt(phase'["git"], repo)
    <3> SUFFICES ASSUME Good PROVE GoodAt(phase'["git"], repo)
      OBVIOUS
    <3>1. GoodAt("verify", repo) /\ state = "ALREADY_APPLIED"
      BY <1>1, <2>1, GoodMatches DEF IInv, GoodInv
    <3>2. phase'["git"] = "done"
      BY <1>5, <3>1, Types DEF Verify, Report, Goto
    <3> QED
      BY <3>1, <3>2 DEF GoodAt
  <2> QED
    BY <1>2, <2>1, <2>2, <2>3, <2>4, <2>5, <2>6, LifeFrame
<1> QED
  BY <1>1, <1>4, <1>5

LEMMA ChooseIInv ==
  ASSUME IInv, Choose
  PROVE  IInv'
<1>1. /\ phase["git"] = "transition"
      /\ phase' = [phase EXCEPT !["git"] = IF repo.at = "absent" THEN "clone" ELSE "fetch"]
      /\ UNCHANGED <<tip, repo, edits, faults, params, before, seenTip, outcome, result, undo>>
  BY DEF Choose, Goto, hostVars, seenVars
<1>2. /\ phase'["git"] \in {"clone", "fetch"} /\ phase' \in [Node -> Phase]
      /\ phase'["git"] = "fetch" => repo.at # "absent"
  BY <1>1, Types, Constants DEF Phase
<1>3. ~Untouchable /\ Untouchable' = Untouchable
  BY <1>1 DEF IInv, RefusedInv, Untouchable
<1>4. TypeOK'
  BY <1>1, <1>2 DEF IInv, TypeOK, LifeTypeOK
<1>5. RefusedInv' /\ RepoInv' /\ ReportInv'
  BY <1>1, <1>2, <1>3 DEF IInv, RefusedInv, RepoInv, ReportInv
<1>6. FreshAt(phase'["git"], repo)
  BY <1>2 DEF FreshAt
<1>7. Good => GoodAt(phase'["git"], repo)
  BY <1>1, Types DEF IInv, GoodInv, GoodAt
<1> QED
  BY <1>1, <1>2, <1>4, <1>5, <1>6, <1>7, LifeFrame

\* What a git command does: it leaves one of the clones `after` behind, or fails,
\* which it does with a good clone only if something is wrong with the host.
CommandStep(at, after, left, next) ==
  /\ phase["git"] = at
  /\ \/ Succeeds(after, next)
     \/ faults /\ Fails(left \cup after)
     \/ ~Good /\ Fails(left)
  /\ UNCHANGED <<tip, edits, seenVars>>

LEMMA CommandIInv ==
  ASSUME IInv,
         NEW at \in {"clone", "checkout", "fetch", "switch", "merge"},
         NEW next \in {"return", "checkout", "switch", "merge"},
         NEW after, NEW left, CommandStep(at, after, left, next),
         after \subseteq Repo, left \subseteq Repo,
         \A r \in after \cup left : r.at = "absent" => r = Absent,
         \A r \in after : /\ r.at = "clone" \/ (r.at = repo.at /\ at # "clone")
                         /\ FreshAt(IF next = "return" THEN "verify" ELSE next, r),
         Good /\ GoodAt(at, repo) =>
           \A r \in after : GoodAt(IF next = "return" THEN "verify" ELSE next, r)
  PROVE  IInv'
<1>1. /\ phase["git"] = at
      /\ UNCHANGED <<tip, edits, faults, params, before, seenTip>>
  BY DEF CommandStep, seenVars
<1>2. ~Untouchable
  BY <1>1 DEF IInv, RefusedInv
<1>3. ~Untouchable' /\ RefusedInv' /\ ForeignKept' /\ UncommittedKept'
  BY <1>1, <1>2 DEF Untouchable, RefusedInv, ForeignKept, UncommittedKept
<1>4. outcome["git"] # "SUCCESS"
  BY <1>1 DEF IInv, ReportInv
<1>5. seenTip' <= tip'
  BY <1>1 DEF IInv
<1>g. Good' = Good /\ (Good => GoodAt(at, repo))
  BY <1>1 DEF IInv, GoodInv, Good
<1>6. CASE Succeeds(after, next)
  <2>1. /\ repo' \in after /\ undo' = undo /\ outcome' = outcome
        /\ phase' = [phase EXCEPT !["git"] = IF next = "return" THEN "verify" ELSE next]
        /\ result' = result \/ result' = [result EXCEPT !["git"] = "SUCCESS"]
    BY <1>6 DEF Succeeds, Returns, Goto
  <2>2. /\ phase'["git"] = IF next = "return" THEN "verify" ELSE next
        /\ phase' \in [Node -> Phase]
    BY <2>1, Types, Constants DEF Phase
  <2>3. repo' \in Repo
    BY <2>1
  <2>4. TypeOK'
    BY <1>1, <2>1, <2>2, <2>3, Types, Constants DEF IInv, TypeOK, LifeTypeOK, Status
  <2>5. RepoInv'
    <3>1. next # "return" => repo'.at # "absent"
      BY <1>1, <2>1 DEF IInv, RepoInv
    <3> QED
      BY <2>1, <2>2, <3>1 DEF RepoInv
  <2>6. ReportInv' /\ SuccessIsFresh'
    BY <1>1, <1>4, <2>1 DEF ReportInv, SuccessIsFresh
  <2>7. FreshAt(phase["git"], repo)'
    BY <1>1, <2>1, <2>2 DEF FreshAt
  <2>8. GoodInv'
    BY <1>1, <1>g, <2>1, <2>2 DEF GoodInv, GoodAt
  <2> QED
    BY <1>3, <1>5, <2>2, <2>4, <2>5, <2>6, <2>7, <2>8 DEF IInv
<1>7. CASE (faults /\ Fails(left \cup after)) \/ (~Good /\ Fails(left))
  <2>1. /\ repo' \in left \cup after /\ undo' = undo /\ outcome' = outcome
        /\ phase' = [phase EXCEPT !["git"] = "rollback"]
        /\ result' = [result EXCEPT !["git"] = "FAILURE"]
    BY <1>7 DEF Fails, Returns, Failed, Goto
  <2>2. phase'["git"] = "rollback" /\ phase' \in [Node -> Phase]
    BY <2>1, Types, Constants DEF Phase
  <2>3. repo' \in Repo
    BY <2>1
  <2>4. TypeOK'
    BY <1>1, <2>1, <2>2, <2>3, Types, Constants DEF IInv, TypeOK, LifeTypeOK, Status
  <2>5. RepoInv' /\ ReportInv' /\ SuccessIsFresh' /\ FreshAt(phase["git"], repo)'
    BY <1>1, <1>4, <2>1, <2>2 DEF RepoInv, ReportInv, SuccessIsFresh, FreshAt
  <2>6. GoodInv'
    BY <1>7, <1>g DEF GoodInv, Good
  <2> QED
    BY <1>3, <1>5, <2>2, <2>4, <2>5, <2>6 DEF IInv
<1> QED
  BY <1>6, <1>7 DEF CommandStep

\* The clones that the commands leave behind are clones of the remote.
LEMMA CloneValues ==
  ASSUME IInv
  PROVE  /\ Cloned \in Repo /\ Cloned.at = "clone"
         /\ Cloned.main.base = tip
         /\ ClonedAtTag \in Repo /\ ClonedAtTag.at = "clone"
<1>1. Absent \in Repo /\ tip \in 0 .. MaxTip /\ At(tip) \in Commit /\ At(tip).base = tip
  BY Types, RepoValues
<1>2. Cloned \in Repo /\ Cloned.at = "clone" /\ Cloned.main = At(tip)
  BY <1>1 DEF Cloned, Repo
<1>3. At(params.ref.commit) \in Commit
  BY Types, Constants, RepoValues
<1>4. ClonedAtTag \in Repo /\ ClonedAtTag.at = "clone"
  BY <1>1, <1>3 DEF ClonedAtTag, Repo
<1> QED
  BY <1>1, <1>2, <1>4

LEMMA CloneIInv ==
  ASSUME IInv, Clone
  PROVE  IInv'
<1> DEFINE after == {IF ShallowBranchlike /\ params.ref.kind # "branch" THEN ClonedAtTag
                     ELSE Cloned}
           next  == IF ShallowBranchlike THEN "return" ELSE "checkout"
<1>1. CommandStep("clone", after, {Absent, Plain}, next)
  BY DEF Clone, Command, CommandStep
<1>2. after \subseteq Repo /\ {Absent, Plain} \subseteq Repo
  BY CloneValues, RepoValues
<1>3. \A r \in after \cup {Absent, Plain} : r.at = "absent" => r = Absent
  BY CloneValues, RepoValues
<1>4. \A r \in after : r.at = "clone"
  BY CloneValues
<1>5. \A r \in after : params.ref.kind = "branch" => r.main.base >= seenTip
  BY CloneValues, Types DEF IInv
<1>6. \A r \in after : FreshAt(IF next = "return" THEN "verify" ELSE next, r)
  BY <1>5 DEF FreshAt
<1>7. next \in {"return", "checkout"}
  OBVIOUS
<1>8. ~GoodAt("clone", repo)
  BY DEF GoodAt
<1> HIDE DEF after, next
<1> QED
  BY <1>1, <1>2, <1>3, <1>4, <1>6, <1>7, <1>8, CommandIInv

\* What is checked out is the same clone with the same branch.
LEMMA CheckedOutValue ==
  ASSUME IInv
  PROVE  /\ CheckedOut \in Repo /\ CheckedOut.at = repo.at
         /\ CheckedOut.main = repo.main /\ CheckedOut.tracking = repo.tracking
         /\ CheckedOut.dirty = repo.dirty /\ CheckedOut.origin = repo.origin
         /\ IF params.ref.kind = "branch" THEN CheckedOut.on = "main"
            ELSE CheckedOut.on = "detached" /\ CheckedOut.head = At(params.ref.commit)
<1>1. At(params.ref.commit) \in Commit /\ NoBranch \in Commit
  BY Types, Constants, RepoValues DEF NoBranch
<1> QED
  BY <1>1, Types DEF CheckedOut, Repo

LEMMA CheckoutIInv ==
  ASSUME IInv, Checkout
  PROVE  IInv'
<1>1. phase["git"] = "checkout"
  BY DEF Checkout, Command
<1>2. repo.at # "absent" /\ FreshAt("checkout", repo)
  BY <1>1 DEF IInv, RepoInv
<1>3. FreshAt("verify", CheckedOut)
  BY <1>2, CheckedOutValue DEF FreshAt
<1>4. ~Good
  BY <1>1 DEF IInv, GoodInv, GoodAt
<1>5. CommandStep("checkout", {CheckedOut}, {repo}, "return")
  BY <1>4 DEF Checkout, Command, CommandStep
<1> QED
  BY <1>1, <1>2, <1>3, <1>4, <1>5, CheckedOutValue, Types, CommandIInv

LEMMA FetchIInv ==
  ASSUME IInv, Fetch
  PROVE  IInv'
<1> DEFINE fetched == [repo EXCEPT !.tracking = tip]
<1>1. CommandStep("fetch", {fetched}, {repo}, "switch") /\ phase["git"] = "fetch"
  BY DEF Fetch, Command, CommandStep
<1>2. /\ repo.at # "absent"
      /\ fetched \in Repo /\ fetched.at = repo.at /\ fetched.tracking = tip
  BY <1>1, Types DEF IInv, RepoInv, Repo
<1>3. FreshAt("switch", fetched)
  BY <1>2, Types DEF FreshAt, IInv
<1>4. GoodAt("fetch", repo) => GoodAt("switch", fetched)
  BY Types DEF GoodAt, Repo
<1> HIDE DEF fetched
<1> QED
  BY <1>1, <1>2, <1>3, <1>4, Types, CommandIInv

\* A good clone has no uncommitted changes when it is updated.
LEMMA GoodClean ==
  ASSUME IInv, Good, phase["git"] \in {"switch", "merge"}
  PROVE  ~repo.dirty
BY Types DEF IInv, GoodInv, GoodAt, Good, RefusedInv, Untouchable, Repo

LEMMA SwitchIInv ==
  ASSUME IInv, Switch
  PROVE  IInv'
<1> DEFINE next == IF params.ref.kind = "branch" THEN "merge" ELSE "return"
<1>1. phase["git"] = "switch"
  BY DEF Switch, Command
<1>2. repo.at # "absent" /\ FreshAt("switch", repo)
  BY <1>1 DEF IInv, RepoInv
<1>3. FreshAt(IF next = "return" THEN "verify" ELSE next, CheckedOut)
  BY <1>2, CheckedOutValue DEF FreshAt
<1>4. Good /\ GoodAt("switch", repo) =>
        GoodAt(IF next = "return" THEN "verify" ELSE next, CheckedOut)
  BY CheckedOutValue DEF GoodAt
<1>5. CommandStep("switch", {CheckedOut}, {repo}, next)
  BY <1>1, GoodClean DEF Switch, Command, CommandStep
<1> QED
  BY <1>1, <1>2, <1>3, <1>4, <1>5, CheckedOutValue, Types, CommandIInv

LEMMA MergeIInv ==
  ASSUME IInv, Merge
  PROVE  IInv'
<1>1. phase["git"] = "merge"
  BY DEF Merge, Command
<1>2. repo.at # "absent" /\ FreshAt("merge", repo)
  BY <1>1 DEF IInv, RepoInv
<1>3. ASSUME NEW r \in Merged
      PROVE  r \in Repo /\ r.at = repo.at /\ FreshAt("verify", r)
  <2>1. CASE r = [repo EXCEPT !.main = At(repo.tracking)]
    <3>1. /\ repo.tracking \in 0 .. MaxTip
          /\ At(repo.tracking) \in Commit /\ At(repo.tracking).base = repo.tracking
      BY Types, RepoValues DEF Repo
    <3>2. r \in Repo /\ r.at = repo.at /\ r.main = At(repo.tracking)
      BY <2>1, <3>1, Types DEF Repo
    <3> QED
      BY <1>2, <3>1, <3>2 DEF FreshAt
  <2>2. CASE r = repo /\ repo.main.base = repo.tracking
    BY <1>2, <2>2, Types DEF FreshAt
  <2> QED
    BY <2>1, <2>2 DEF Merged
<1>4. Good /\ GoodAt("merge", repo) =>
        ~repo.dirty /\ Merged # {} /\ \A r \in Merged : GoodAt("verify", r)
  <2> SUFFICES ASSUME Good, GoodAt("merge", repo)
               PROVE  ~repo.dirty /\ Merged # {} /\ \A r \in Merged : GoodAt("verify", r)
    OBVIOUS
  <2> DEFINE merged == [repo EXCEPT !.main = At(repo.tracking)]
  <2>1. params.ref.kind = "branch" /\ repo.main.own = 0 /\ repo.on = "main"
    BY DEF GoodAt
  <2>2. Merged = {merged} /\ ~repo.dirty
    BY <1>1, <2>1, GoodClean DEF Merged
  <2>3. /\ merged.at = repo.at /\ merged.dirty = repo.dirty /\ merged.on = repo.on
        /\ merged.origin = repo.origin /\ merged.tracking = repo.tracking /\ merged.main = At(repo.tracking)
    BY Types DEF Repo
  <2>4. GoodAt("verify", merged)
    BY <2>1, <2>3 DEF GoodAt, At
  <2> HIDE DEF merged
  <2> QED
    BY <2>2, <2>4
<1>5. CommandStep("merge", Merged, {repo}, "return")
  <2>1. Good => GoodAt("merge", repo)
    BY <1>1 DEF IInv, GoodInv
  <2> QED
    BY <1>4, <2>1 DEF Merge, Command, CommandStep
<1> QED
  BY <1>1, <1>2, <1>3, <1>4, <1>5, Types, CommandIInv

LEMMA RollbackIInv ==
  ASSUME IInv, Rollback
  PROVE  IInv'
<1>1. /\ phase["git"] = "rollback"
      /\ UNCHANGED <<tip, edits, faults, params, before, seenTip>>
  BY DEF Rollback, seenVars
<1>2. PICK s \in Status : Undone("git", s) /\ repo' \in {repo, Absent, Plain}
  BY RepoValues DEF Rollback, Status
<1>3. /\ phase' = [phase EXCEPT !["git"] = "done"]
      /\ outcome' = [outcome EXCEPT !["git"] = "FAILED_TRANSITION"]
      /\ undo' = [undo EXCEPT !["git"] = s] /\ result' = result
  BY <1>2 DEF Undone, Report, Goto
<1>4. /\ phase'["git"] = "done" /\ outcome'["git"] = "FAILED_TRANSITION"
      /\ undo'["git"] = s /\ phase' \in [Node -> Phase]
  BY <1>3, Types, Constants DEF Phase
<1>5. ~Untouchable'
  BY <1>1 DEF IInv, RefusedInv, Untouchable
<1>6. repo' \in Repo /\ (repo'.at = "absent" => repo' = Absent)
  BY <1>2, Types, RepoValues DEF IInv, RepoInv
<1>7. TypeOK' /\ seenTip' <= tip'
  BY <1>1, <1>3, <1>4, <1>6, Types, Constants DEF IInv, TypeOK, LifeTypeOK, Status
<1>8. RefusedInv' /\ ForeignKept' /\ UncommittedKept'
  BY <1>5 DEF Untouchable, RefusedInv, ForeignKept, UncommittedKept
<1>9. RepoInv' /\ ReportInv' /\ SuccessIsFresh' /\ FreshAt(phase["git"], repo)'
  BY <1>2, <1>4, <1>6 DEF RepoInv, ReportInv, SuccessIsFresh, FreshAt
<1>10. GoodInv'
  BY <1>1 DEF IInv, GoodInv, Good, GoodAt
<1> QED
  BY <1>4, <1>7, <1>8, <1>9, <1>10 DEF IInv

LEMMA StutterIInv ==
  ASSUME IInv, UNCHANGED vars
  PROVE  IInv'
<1>1. UNCHANGED <<faults, params, tip, repo, edits, before, seenTip, phase, outcome, result, undo>>
  BY DEF vars, lifeVars
<1> QED
  BY <1>1 DEF IInv, TypeOK, LifeTypeOK, RefusedInv, Untouchable, RepoInv, ReportInv,
     GoodInv, Good, GoodAt, FreshAt, SuccessIsFresh, ForeignKept, UncommittedKept

\* The invariant is inductive.
THEOREM Invariant == Spec => []IInv
<1>1. ASSUME IInv, Next PROVE IInv'
  BY <1>1, PushIInv, UserActsIInv, AssessIInv, ChooseIInv, CloneIInv, CheckoutIInv,
     FetchIInv, SwitchIInv, MergeIInv, RollbackIInv DEF Next, Transition
<1>2. IInv /\ [Next]_vars => IInv'
  BY <1>1, StutterIInv
<1> QED
  BY InitIInv, <1>2, PTL DEF Spec

\* Every variable has its type, however many commits are pushed.
THEOREM TypeCorrect == Spec => []TypeOK
<1>1. IInv => TypeOK
  BY DEF IInv
<1> QED
  BY Invariant, <1>1, PTL

\* A node that reports SUCCESS for a branch has all that the remote had when
\* the node started, whoever pushes while the git commands run.
THEOREM Fresh == Spec => []SuccessIsFresh
<1>1. IInv => SuccessIsFresh
  BY DEF IInv
<1> QED
  BY Invariant, <1>1, PTL

\* A directory that is no clone of repo_url survives every run, with every
\* failure of a git command, a probe or a deletion.
THEOREM ForeignSafe == Spec => []ForeignKept
<1>1. IInv => ForeignKept
  BY DEF IInv
<1> QED
  BY Invariant, <1>1, PTL

\* Uncommitted changes that were there when the node started are never touched.
THEOREM UncommittedSafe == Spec => []UncommittedKept
<1>1. IInv => UncommittedKept
  BY DEF IInv
<1> QED
  BY Invariant, <1>1, PTL

\* Without faults and acts of its user, an update deletes a clone that was there only
\* if nothing could have brought it to the ref, however the remote moves meanwhile.
THEOREM CloneSurvives == Spec => []CloneLostForCause
<1>1. IInv => CloneLostForCause
  BY DEF IInv, GoodInv, Good, GoodAt, CloneLostForCause, TypeOK, Repo, Commit
<1> QED
  BY Invariant, <1>1, PTL
=============================================================================
