------------------------- MODULE PathChangersProofs -------------------------
(***************************************************************************)
(* Proofs about PathChangers, for every set of contents and modes and any   *)
(* number of runs and of changes by other programs: what a rollback gives   *)
(* back, what is never overwritten, and that an effect is confirmed.        *)
(***************************************************************************)
EXTENDS PathChangers, TLAPS

ph == phase["node"]

Changing == {"transition", "copy", "hash", "unlink", "chmod", "link"}
Phase    == Changing \cup {"assess", "raised", "verify", "rollback", "restore", "done"}

Path == Things \cup [is : {"file"}, content : {"torn"}, mode : Mode]

\* Which changer is in a phase of its own, and what it works with there.
KindAt(p) ==
  /\ p = "copy" => Kind("copy_file")
  /\ p \in {"hash", "unlink"} => Kind("download_file")
  /\ p = "link" => Kind("ensure_symlink")
  /\ p = "chmod" => /\ params.kind \in {"copy_file", "download_file", "ensure_directory"}
                    /\ params.mode \in Mode
  /\ p = "restore" => Kind("set_file_mode") /\ local \in Mode \cup {"none"}

KindInv ==
  /\ KindAt(ph)
  /\ Kind("copy_file") => local \in Content \cup {"none", "torn"}
  /\ Kind("new_text_file") => source # "none"
  /\ Kind("delete_path") => undo["node"] = "NONE"

\* How far a node is tells what it has to report.
LifeInv ==
  /\ ph \in Changing \cup {"assess", "raised"} => result["node"] = "NONE"
  /\ ph = "verify" => result["node"] = "SUCCESS"
  /\ ph \in {"rollback", "restore"} => result["node"] \in {"FAILURE", "MISMATCH"}
  /\ ph # "done" => undo["node"] = "NONE"

\* The pre-image of a copy: read, then recorded, then written back.
CopyInv ==
  /\ Kind("copy_file") /\ ~touched =>
       /\ ph \in {"copy", "chmod"} => local = before.content
       /\ result["node"] \in {"SUCCESS", "MISMATCH"} => captured = before.content
  /\ runs = 1 /\ result["node"] \notin {"SUCCESS", "MISMATCH"} => captured = "none"

\* No mode is set where there is no path.
ModeInv == Kind("set_file_mode") /\ ~touched /\ before = Absent => path = Absent

Guarded ==
  /\ params.kind \in {"copy_file", "download_file", "new_text_file", "ensure_symlink"}
  /\ ~params.overwrite /\ drift = 0 /\ runs = 1 /\ Foreign(before)

\* What must be kept is there from the first on, and is refused.
GuardInv ==
  /\ drift = 0 /\ runs = 1 /\ ph \in {"assess", "transition"} => before = path
  /\ Guarded => path = before /\ ph \in {"assess", "done"}

\* What a changer has made when it is in phase p, if nothing interferes.
Made(p) ==
  /\ p = "transition" => Verdict = "READY"
  /\ p = "link" => params.allow_dangling \/ source # "none"
  /\ p = "chmod" =>
       /\ Kind("copy_file") => path.is = "file" /\ path.content = source /\ source # "none"
       /\ Kind("download_file") => path.is = "file" /\ HasSha256
       /\ Kind("ensure_directory") => path.is = "dir"
  /\ p = "verify" /\ ~(Kind("delete_path") /\ ~params.missing_ok) =>
       Verdict = "ALREADY_APPLIED"

MadeInv == ~faults /\ drift = 0 => Made(ph)

IInv ==
  /\ TypeOK /\ phase \in [Node -> Phase]
  /\ KindInv /\ LifeInv /\ CopyInv /\ ModeInv /\ GuardInv /\ MadeInv
  /\ MismatchRestored /\ FreshPathRemoved /\ EffectConfirmed

-----------------------------------------------------------------------------
(* The data.                                                                *)

LEMMA Constants ==
  /\ Node = {"node"} /\ NewMode \in Mode
  /\ \A x \in {"none", "torn", "any", "empty", "full", "ours", "other"} :
       x \notin Content /\ x \notin Mode
  /\ MaxDrift \in Nat /\ MaxRuns \in Nat \ {0}
BY NodeAssumption, HostAssumption

LEMMA ParamsShape ==
  ASSUME params \in Params
  PROVE  /\ params.kind \in {"copy_file", "download_file", "new_text_file", "ensure_symlink",
                             "ensure_directory", "set_file_mode", "delete_path"}
         /\ params.kind \in {"copy_file", "download_file", "ensure_directory"} =>
              params.mode \in Mode \cup {"any"}
         /\ Kind("set_file_mode") => params.mode \in Mode
         /\ params.kind \in {"copy_file", "download_file", "ensure_symlink"} =>
              params.overwrite \in BOOLEAN
         /\ Kind("new_text_file") => params.overwrite = FALSE
         /\ Kind("ensure_symlink") => params.allow_dangling \in BOOLEAN
         /\ Kind("delete_path") => params.missing_ok \in BOOLEAN
BY DEF Params, CopyParams, DownloadParams, TextParams, SymlinkParams, DirectoryParams,
       ModeParams, DeleteParams, Kind

\* A path is a record; what it holds goes with what it is.
LEMMA PathShape ==
  ASSUME NEW x \in Path
  PROVE  /\ x = [is |-> x.is, content |-> x.content, mode |-> x.mode]
         /\ x.mode \in Mode
         /\ x.is \in {"absent", "file", "dir", "symlink"}
         /\ x.is = "absent" <=> x = Absent
         /\ x.is = "absent" => x.content = "none"
         /\ x.is = "file" => x.content \in Content \cup {"torn"}
         /\ x.is = "dir" => x.content \in {"empty", "full"}
         /\ x.is = "symlink" =>
              /\ params.kind \in {"ensure_symlink", "delete_path"}
              /\ x.mode = NewMode /\ x.content \in {"ours", "other"}
BY Constants DEF Path, Things, Files, Dirs, Symlinks, Absent, Kind

\* What the changers put at a path.
LEMMA PathValues ==
  /\ Absent \in Path /\ NewDir \in Path
  /\ Kind("ensure_symlink") => OurLink \in Path
  /\ \A c \in Content \cup {"torn"}, m \in Mode :
       [is |-> "file", content |-> c, mode |-> m] \in Path
  /\ \A c \in {"empty", "full"}, m \in Mode :
       [is |-> "dir", content |-> c, mode |-> m] \in Path
BY Constants DEF Path, Things, Files, Dirs, Symlinks, Absent, NewDir, OurLink

LEMMA HoldingShape ==
  ASSUME path \in Path, NEW c \in Content \cup {"torn"}
  PROVE  /\ Holding(c) \in Path
         /\ Holding(c).is = "file" /\ Holding(c).content = c /\ Holding(c).mode = path.mode
BY PathShape, PathValues DEF Holding

LEMMA ChmodShape ==
  ASSUME path \in Path, path.is \in {"file", "dir"}, NEW m \in Mode
  PROVE  /\ [path EXCEPT !.mode = m] \in Path
         /\ [path EXCEPT !.mode = m].is = path.is
         /\ [path EXCEPT !.mode = m].content = path.content
         /\ [path EXCEPT !.mode = m].mode = m
<1>1. /\ path = [is |-> path.is, content |-> path.content, mode |-> path.mode]
      /\ path.is = "file" => path.content \in Content \cup {"torn"}
      /\ path.is = "dir" => path.content \in {"empty", "full"}
  BY PathShape
<1>2. [path EXCEPT !.mode = m] = [is |-> path.is, content |-> path.content, mode |-> m]
  BY <1>1
<1> QED
  BY <1>1, <1>2, PathValues

LEMMA Types ==
  ASSUME IInv
  PROVE  /\ path \in Path /\ before \in Path
         /\ params \in Params /\ source \in Content \cup {"none"}
         /\ faults \in BOOLEAN /\ touched \in BOOLEAN
         /\ runs \in Nat /\ runs >= 1 /\ drift \in Nat
         /\ ph \in Phase
         /\ outcome \in [{"node"} -> {"NONE", "SUCCESS", "SKIPPED_ALREADY_APPLIED",
                           "SKIPPED_BY_TRANSITION", "FAILED_INVALID",
                           "FAILED_TRANSITION"}]
         /\ result \in [{"node"} -> Status \cup {"NONE", "MISMATCH"}]
         /\ undo \in [{"node"} -> Status \cup {"NONE"}]
         /\ phase \in [{"node"} -> Phase]
BY Constants DEF IInv, TypeOK, LifeTypeOK, Path, ph

LEMMA InitIInv == Init => IInv
<1> SUFFICES ASSUME Init PROVE IInv
  OBVIOUS
<1>1. /\ faults \in BOOLEAN /\ params \in Params
      /\ source \in Content \cup {"none"} /\ path \in Things
      /\ Kind("new_text_file") => source \in Content
      /\ local = "none" /\ captured = "none" /\ runs = 1 /\ drift = 0
      /\ before = path /\ touched = FALSE
      /\ phase = [n \in Node |-> "assess"] /\ outcome = [n \in Node |-> "NONE"]
      /\ result = [n \in Node |-> "NONE"] /\ undo = [n \in Node |-> "NONE"]
  BY DEF Init, LifeInit
<1>2. ph = "assess" /\ result["node"] = "NONE" /\ undo["node"] = "NONE"
  BY <1>1, Constants DEF ph
<1>3. TypeOK /\ phase \in [Node -> Phase]
  <2>1. LifeTypeOK /\ phase \in [Node -> Phase]
    BY <1>1 DEF LifeTypeOK, Phase, Status
  <2>2. runs \in 1 .. MaxRuns /\ drift \in 0 .. MaxDrift
    BY <1>1, Constants
  <2> QED
    BY <1>1, <1>2, <2>1, <2>2 DEF TypeOK, ph
<1>4. KindInv /\ LifeInv /\ CopyInv /\ ModeInv /\ GuardInv /\ MadeInv
  BY <1>1, <1>2, Constants
  DEF KindInv, KindAt, LifeInv, CopyInv, ModeInv, GuardInv, MadeInv, Made, Changing
<1>5. MismatchRestored /\ FreshPathRemoved /\ EffectConfirmed
  BY <1>2 DEF MismatchRestored, FreshPathRemoved, EffectConfirmed
<1> QED
  BY <1>3, <1>4, <1>5 DEF IInv

-----------------------------------------------------------------------------
(* Other programs, another start(), and nothing.                            *)

LEMMA DriftSourceIInv ==
  ASSUME IInv, DriftSource
  PROVE  IInv'
<1>1. /\ ~Kind("new_text_file") /\ drift < MaxDrift /\ source' \in Content \cup {"none"} /\ drift' = drift + 1
      /\ UNCHANGED <<faults, params, runs, path, local, captured, before, touched, phase,
                     outcome, result, undo>>
  BY DEF DriftSource, memVars, lifeVars
<1>2. drift' \in 0 .. MaxDrift /\ drift' # 0
  BY <1>1, Types, Constants
<1>3. TypeOK' /\ (phase \in [Node -> Phase])'
  BY <1>1, <1>2 DEF IInv, TypeOK, LifeTypeOK, Things, Kind
<1>4. KindInv' /\ LifeInv' /\ CopyInv' /\ ModeInv'
  BY <1>1 DEF IInv, KindInv, KindAt, LifeInv, CopyInv, ModeInv, Kind, ph
<1>5. GuardInv' /\ MadeInv' /\ EffectConfirmed'
  BY <1>2 DEF GuardInv, Guarded, MadeInv, EffectConfirmed
<1>6. MismatchRestored' /\ FreshPathRemoved'
  BY <1>1 DEF IInv, MismatchRestored, FreshPathRemoved, Kind
<1> QED
  BY <1>3, <1>4, <1>5, <1>6 DEF IInv

LEMMA DriftPathIInv ==
  ASSUME IInv, DriftPath
  PROVE  IInv'
<1>1. /\ drift < MaxDrift /\ path' \in Things /\ drift' = drift + 1 /\ touched' = TRUE
      /\ UNCHANGED <<faults, params, source, runs, local, captured, before, phase,
                     outcome, result, undo>>
  BY DEF DriftPath, memVars, lifeVars
<1>2. drift' \in 0 .. MaxDrift /\ drift' # 0
  BY <1>1, Types, Constants
<1>3. TypeOK' /\ (phase \in [Node -> Phase])'
  BY <1>1, <1>2 DEF IInv, TypeOK, LifeTypeOK, Things, Kind
<1>4. KindInv' /\ LifeInv' /\ CopyInv' /\ ModeInv'
  BY <1>1 DEF IInv, KindInv, KindAt, LifeInv, CopyInv, ModeInv, Kind, ph
<1>5. GuardInv' /\ MadeInv' /\ EffectConfirmed'
  BY <1>2 DEF GuardInv, Guarded, MadeInv, EffectConfirmed
<1>6. MismatchRestored' /\ FreshPathRemoved'
  BY <1>1 DEF MismatchRestored, FreshPathRemoved
<1> QED
  BY <1>3, <1>4, <1>5, <1>6 DEF IInv

LEMMA StartAgainIInv ==
  ASSUME IInv, StartAgain
  PROVE  IInv'
<1>1. /\ runs < MaxRuns /\ runs' = runs + 1
      /\ phase' = [n \in Node |-> "assess"] /\ outcome' = [n \in Node |-> "NONE"]
      /\ result' = [n \in Node |-> "NONE"] /\ undo' = [n \in Node |-> "NONE"]
      /\ UNCHANGED <<faults, params, source, drift, path, local, captured, before, touched>>
  BY DEF StartAgain, LifeAgain, memVars
<1>2. /\ ph' = "assess" /\ result'["node"] = "NONE" /\ undo'["node"] = "NONE"
      /\ runs' \in 1 .. MaxRuns /\ runs' # 1
  BY <1>1, Types, Constants DEF ph
<1>3. TypeOK' /\ (phase \in [Node -> Phase])'
  <2>1. LifeTypeOK' /\ (phase \in [Node -> Phase])'
    BY <1>1 DEF LifeTypeOK, Phase, Status
  <2> QED
    BY <1>1, <1>2, <2>1 DEF IInv, TypeOK, Things, Kind, ph
<1>4. KindInv' /\ LifeInv' /\ CopyInv' /\ ModeInv'
  BY <1>1, <1>2 DEF IInv, KindInv, KindAt, LifeInv, CopyInv, ModeInv, Kind, Changing
<1>5. GuardInv' /\ MadeInv' /\ EffectConfirmed'
  BY <1>2 DEF GuardInv, Guarded, MadeInv, Made, EffectConfirmed
<1>6. MismatchRestored' /\ FreshPathRemoved'
  BY <1>2 DEF MismatchRestored, FreshPathRemoved
<1> QED
  BY <1>3, <1>4, <1>5, <1>6 DEF IInv

LEMMA StutterIInv ==
  ASSUME IInv, UNCHANGED vars
  PROVE  IInv'
<1>1. UNCHANGED <<faults, params, source, runs, drift, path, local, captured, before,
                  touched, phase, outcome, result, undo>>
  BY DEF vars, setVars, memVars, lifeVars
<1>2. TypeOK' /\ (phase \in [Node -> Phase])'
  BY <1>1 DEF IInv, TypeOK, LifeTypeOK, Things, Kind
<1>3. KindInv' /\ LifeInv' /\ CopyInv' /\ ModeInv'
  BY <1>1 DEF IInv, KindInv, KindAt, LifeInv, CopyInv, ModeInv, Kind, ph
<1>4. GuardInv'
  BY <1>1 DEF IInv, GuardInv, Guarded, Foreign, Kind, ph
<1>5. MadeInv'
  <2>1. Verdict' = Verdict
    BY <1>1 DEF Verdict, CopyVerdict, DownloadVerdict, TextVerdict, SymlinkVerdict,
       DirectoryVerdict, ModeVerdict, DeleteVerdict, Applied, Exists, HasMode, HasSha256, Kind
  <2> QED
    BY <1>1, <2>1 DEF IInv, MadeInv, Made, HasSha256, Kind, ph
<1>6. MismatchRestored' /\ FreshPathRemoved' /\ EffectConfirmed'
  BY <1>1 DEF IInv, MismatchRestored, FreshPathRemoved, EffectConfirmed, Kind
<1> QED
  BY <1>2, <1>3, <1>4, <1>5, <1>6 DEF IInv

-----------------------------------------------------------------------------
(* The assessments.                                                         *)

\* Something foreign is refused by the changers that do not overwrite, also
\* when the probes of the assessment fail.
LEMMA ForeignRefused ==
  ASSUME params \in Params, ~params.overwrite, Foreign(path),
         params.kind \in {"copy_file", "download_file", "new_text_file", "ensure_symlink"}
  PROVE  Verdict = "INVALID" /\ FaultyVerdicts = {"INVALID"}
<1>1. Verdict = "INVALID" => FaultyVerdicts = {"INVALID"}
  BY DEF FaultyVerdicts
<1>2. CASE Kind("copy_file")
  BY <1>1, <1>2 DEF Foreign, Verdict, CopyVerdict, Kind
<1>3. CASE Kind("download_file")
  BY <1>1, <1>3 DEF Foreign, Verdict, DownloadVerdict, HasSha256, Kind
<1>4. CASE Kind("new_text_file")
  BY <1>1, <1>4 DEF Foreign, Verdict, TextVerdict, Kind
<1>5. CASE Kind("ensure_symlink")
  BY <1>1, <1>5 DEF Foreign, Verdict, SymlinkVerdict, Kind
<1> QED
  BY <1>2, <1>3, <1>4, <1>5 DEF Kind

LEMMA AssessStateIInv ==
  ASSUME IInv, AssessState
  PROVE  IInv'
<1>1. PICK state \in {Verdict} \cup (IF faults THEN FaultyVerdicts ELSE {}) :
        Assess("node", state) \/ Verify("node", state)
  BY DEF AssessState
<1>2. UNCHANGED <<faults, params, source, runs, drift, path, local, captured, before,
                  touched, undo>>
  BY <1>1 DEF AssessState, setVars, memVars, Assess, Verify
<1>3. \/ /\ ph = "assess" /\ state \in {"READY", "ALREADY_APPLIED", "INVALID"}
         /\ ph' = IF state = "READY" THEN "transition" ELSE "done"
         /\ result' = result
      \/ /\ ph = "verify"
         /\ \/ state = "ALREADY_APPLIED" /\ ph' = "done" /\ result' = result
            \/ /\ state # "ALREADY_APPLIED" /\ ph' = "rollback"
               /\ result'["node"] = "MISMATCH"
  <2>1. CASE Assess("node", state)
    BY <2>1, Types DEF Assess, Goto, Report, ph
  <2>2. CASE Verify("node", state)
    BY <2>2, Types DEF Verify, Goto, Report, Failed, ph
  <2> QED
    BY <1>1, <2>1, <2>2
<1>4. /\ LifeTypeOK' /\ (phase \in [Node -> Phase])'
  <2>1. CASE Assess("node", state)
    BY <2>1, Types, Constants DEF Assess, Goto, Report, LifeTypeOK, Phase, Changing, Status
  <2>2. CASE Verify("node", state)
    BY <2>2, Types, Constants DEF Verify, Goto, Report, Failed, LifeTypeOK, Phase, Changing,
       Status
  <2> QED
    BY <1>1, <2>1, <2>2
<1>5. TypeOK'
  BY <1>2, <1>3, <1>4 DEF IInv, TypeOK, Things, Kind, ph
<1>6. KindInv' /\ LifeInv' /\ CopyInv' /\ ModeInv'
  BY <1>2, <1>3 DEF IInv, KindInv, KindAt, LifeInv, CopyInv, ModeInv, Kind, Changing
<1>7. GuardInv'
  <2>1. Guarded' => Guarded
    BY <1>2 DEF Guarded, Foreign, Kind
  <2>2. Guarded => state = "INVALID" /\ ph = "assess" /\ path = before
    BY <1>1, <1>3, ForeignRefused, Types DEF IInv, GuardInv, Guarded
  <2> QED
    BY <1>2, <1>3, <2>1, <2>2 DEF IInv, GuardInv
<1>8. Verdict' = Verdict
  BY <1>2 DEF Verdict, CopyVerdict, DownloadVerdict, TextVerdict, SymlinkVerdict,
     DirectoryVerdict, ModeVerdict, DeleteVerdict, Applied, Exists, HasMode, HasSha256, Kind
<1>9. MadeInv'
  BY <1>1, <1>2, <1>3, <1>8 DEF MadeInv, Made
<1>10. EffectConfirmed'
  <2>1. ~faults /\ drift = 0 /\ ph = "verify" /\ state # "ALREADY_APPLIED" =>
          Kind("delete_path") /\ ~params.missing_ok
    BY <1>1 DEF IInv, MadeInv, Made
  <2> QED
    BY <1>2, <1>3, <2>1 DEF IInv, EffectConfirmed, Kind
<1>11. MismatchRestored' /\ FreshPathRemoved'
  BY <1>2, <1>3 DEF IInv, LifeInv, Changing, MismatchRestored, FreshPathRemoved
<1> QED
  BY <1>4, <1>5, <1>6, <1>7, <1>9, <1>10, <1>11 DEF IInv

-----------------------------------------------------------------------------
(* The transitions.                                                         *)

\* Where a step of a transition leads, and what it reports there.
Leads ==
  \/ ph' \in Changing \cup {"raised"} /\ result' = result
  \/ ph' = "verify" /\ result'["node"] = "SUCCESS"
  \/ ph' = "rollback" /\ result'["node"] = "FAILURE"
  \/ ph' = "done" /\ result'["node"] = "SKIPPED"

\* A step of a transition.
Forward ==
  /\ UNCHANGED <<faults, params, source, runs, drift, undo>>
  /\ \/ ph = "transition" /\ before' = path /\ touched' = FALSE
     \/ ph \in Changing \ {"transition"} /\ UNCHANGED <<before, touched>>
  /\ LifeTypeOK' /\ (phase \in [Node -> Phase])'
  /\ ph' # "transition" /\ Leads

\* What it has to keep for each of the changers.
Keeps ==
  /\ path' \in Path
  /\ local' \in Content \cup Mode \cup {"none", "torn"}
  /\ captured' \in Content \cup {"none", "torn"}
  /\ KindAt(ph)'
  /\ Kind("copy_file") =>
       /\ local' \in Content \cup {"none", "torn"}
       /\ ph' \in {"copy", "chmod"} /\ ~touched' => local' = before'.content
       /\ ph' = "verify" /\ ~touched' => captured' = before'.content
  /\ ph' # "verify" => captured' = captured
  /\ ModeInv'
  /\ ~faults /\ drift = 0 => Made(ph)'

LEMMA ForwardIInv ==
  ASSUME IInv, Forward, Keeps
  PROVE  IInv'
<1>1. /\ ph \in Changing /\ result["node"] = "NONE" /\ undo["node"] = "NONE"
      /\ undo'["node"] = "NONE"
  BY DEF IInv, LifeInv, Forward, Changing
<1>2. TypeOK' /\ (phase \in [Node -> Phase])'
  <2>1. before' \in Path
    BY Types DEF Forward
  <2>2. Path' = Path
    BY DEF Forward, Path, Things, Kind
  <2>3. ph' \in Phase
    BY Constants DEF Forward, ph
  <2> QED
    BY <2>1, <2>2, <2>3, Types DEF IInv, Forward, Keeps, TypeOK, Path, Phase, Changing, ph
<1>3. KindInv'
  BY <1>1 DEF IInv, Forward, Keeps, KindInv, Kind
<1>4. LifeInv'
  BY <1>1 DEF Forward, Leads, LifeInv, Changing
<1>5. CopyInv' /\ ModeInv'
  BY <1>1 DEF IInv, CopyInv, Forward, Leads, Keeps, Kind, Changing
<1>6. GuardInv'
  <2>1. Guarded' => Guarded
    BY <1>1 DEF IInv, GuardInv, Guarded, Forward, Foreign, Kind
  <2>2. ~Guarded
    BY <1>1 DEF IInv, GuardInv, Changing
  <2> QED
    BY <1>1, <2>1, <2>2 DEF GuardInv, Forward, Leads, Changing
<1>7. MadeInv'
  BY DEF MadeInv, Forward, Keeps
<1>8. MismatchRestored' /\ FreshPathRemoved' /\ EffectConfirmed'
  BY <1>1 DEF Forward, Leads, MismatchRestored, FreshPathRemoved, EffectConfirmed
<1> QED
  BY <1>2, <1>3, <1>4, <1>5, <1>6, <1>7, <1>8 DEF IInv

\* The ways to go on, as states of the node.
LEMMA Moves ==
  ASSUME IInv
  PROVE  /\ \A p \in Phase : Continue(p) =>
              /\ LifeTypeOK' /\ (phase \in [Node -> Phase])'
              /\ ph' = p /\ result' = result /\ undo' = undo
         /\ \A s \in Status : Returns("node", s) =>
              /\ LifeTypeOK' /\ (phase \in [Node -> Phase])'
              /\ result'["node"] = s /\ undo' = undo
              /\ s = "SUCCESS" => ph' = "verify"
              /\ s = "FAILURE" => ph' = "rollback"
              /\ s = "SKIPPED" => ph' = "done"
<1>1. /\ phase \in [{"node"} -> Phase] /\ Node = {"node"}
      /\ result \in [{"node"} -> Status \cup {"NONE", "MISMATCH"}]
      /\ LifeTypeOK
  BY Types, Constants DEF IInv, TypeOK
<1>2. ASSUME NEW p \in Phase, Continue(p)
      PROVE  /\ LifeTypeOK' /\ (phase \in [Node -> Phase])'
             /\ ph' = p /\ result' = result /\ undo' = undo
  BY <1>1, <1>2 DEF Continue, Goto, LifeTypeOK, ph
<1>3. ASSUME NEW s \in Status, Returns("node", s)
      PROVE  /\ LifeTypeOK' /\ (phase \in [Node -> Phase])'
             /\ result'["node"] = s /\ undo' = undo
             /\ s = "SUCCESS" => ph' = "verify"
             /\ s = "FAILURE" => ph' = "rollback"
             /\ s = "SKIPPED" => ph' = "done"
  <2>1. /\ result' = [result EXCEPT !["node"] = s] /\ undo' = undo
        /\ \/ s = "SUCCESS" /\ phase' = [phase EXCEPT !["node"] = "verify"] /\ outcome' = outcome
           \/ /\ s = "SKIPPED" /\ phase' = [phase EXCEPT !["node"] = "done"]
              /\ outcome' = [outcome EXCEPT !["node"] = "SKIPPED_BY_TRANSITION"]
           \/ s = "FAILURE" /\ phase' = [phase EXCEPT !["node"] = "rollback"] /\ outcome' = outcome
    BY <1>3 DEF Returns, Goto, Report, Failed
  <2>2. (phase \in [Node -> Phase])' /\ result'["node"] = s
    BY <1>1, <2>1 DEF Phase
  <2>3. LifeTypeOK'
    BY <1>1, <2>1 DEF LifeTypeOK
  <2> QED
    BY <1>1, <2>1, <2>2, <2>3 DEF ph, Status
<1> QED
  BY <1>2, <1>3

LEMMA MoveNames ==
  /\ Changing \subseteq Phase /\ {"SUCCESS", "FAILURE", "SKIPPED"} = Status
  /\ {"transition", "copy", "hash", "unlink", "chmod", "link"} = Changing
BY DEF Changing, Phase, Status

\* What a verdict looks at, before and after a step.
LEMMA Verdicts ==
  /\ Kind("copy_file") => Verdict = CopyVerdict
  /\ Kind("download_file") => Verdict = DownloadVerdict
  /\ Kind("new_text_file") => Verdict = TextVerdict
  /\ Kind("ensure_symlink") => Verdict = SymlinkVerdict
  /\ Kind("ensure_directory") => Verdict = DirectoryVerdict
  /\ Kind("set_file_mode") => Verdict = ModeVerdict
  /\ Kind("delete_path") => Verdict = DeleteVerdict
BY DEF Verdict, Kind

\* What is known in a phase of a transition.
LEMMA InChanging ==
  ASSUME IInv, ph \in Changing
  PROVE  /\ KindAt(ph) /\ result["node"] = "NONE" /\ undo["node"] = "NONE"
         /\ Kind("copy_file") /\ ~touched /\ ph \in {"copy", "chmod"} => local = before.content
         /\ Kind("copy_file") => local \in Content \cup {"none", "torn"}
         /\ Kind("set_file_mode") /\ ~touched /\ before = Absent => path = Absent
         /\ ~faults /\ drift = 0 => Made(ph)
         /\ Kind("new_text_file") => source # "none"
         /\ local \in Content \cup Mode \cup {"none", "torn"}
         /\ captured \in Content \cup {"none", "torn"}
BY DEF IInv, TypeOK, KindInv, LifeInv, CopyInv, ModeInv, MadeInv, Changing

\* The first step of a transition remembers the path, the others do not.
Begins ==
  /\ UNCHANGED setVars
  /\ \/ ph = "transition" /\ before' = path /\ touched' = FALSE
     \/ ph \in Changing \ {"transition"} /\ UNCHANGED <<before, touched>>

LEMMA FailsKeeps ==
  ASSUME IInv, Begins, Fails, UNCHANGED local, path' \in Path,
         Kind("set_file_mode") => path' = path
  PROVE  Forward /\ Keeps
<1>1. UNCHANGED <<faults, params, source, runs, drift, local, captured>>
  BY DEF Begins, setVars, Fails
<1>2. ph \in Changing
  BY MoveNames DEF Begins
<1>3. Forward /\ ph' = "rollback"
  BY <1>1, Moves, MoveNames DEF Begins, Forward, Leads, Fails
<1> QED
  BY <1>1, <1>2, <1>3, InChanging DEF Begins, Keeps, KindAt, ModeInv, Made, Kind

\* A copy, a download or a directory is made, and may need its mode.
LEMMA ChmodNextKeeps ==
  ASSUME IInv, Begins, ChmodNext, UNCHANGED local, path' \in Path,
         params.kind \in {"copy_file", "download_file", "ensure_directory"},
         Kind("copy_file") => ph = "copy",
         ~faults /\ drift = 0 => Made("chmod")'
  PROVE  Forward /\ Keeps
<1>1. UNCHANGED <<faults, params, source, runs, drift, local>>
  BY DEF Begins, setVars
<1>2. ph \in Changing
  BY MoveNames DEF Begins
<1>3. CASE params.mode = "any" /\ Finish
  <2>1. Forward /\ ph' = "verify" /\ captured' = IF Kind("copy_file") THEN local ELSE captured
    BY <1>1, <1>3, Moves, MoveNames DEF Begins, Forward, Leads, Finish
  <2>2. ~faults /\ drift = 0 => Verdict' = "ALREADY_APPLIED"
    <3>1. CASE Kind("copy_file")
      BY <1>1, <1>3, <3>1
      DEF Made, Verdict, CopyVerdict, Applied, HasMode, Kind
    <3>2. CASE Kind("download_file")
      BY <1>1, <1>3, <3>2
      DEF Made, Verdict, DownloadVerdict, Applied, HasMode, HasSha256, Kind
    <3>3. CASE Kind("ensure_directory")
      BY <1>1, <1>3, <3>3
      DEF Made, Verdict, DirectoryVerdict, Applied, HasMode, Kind
    <3> QED
      BY <3>1, <3>2, <3>3 DEF Kind
  <2>3. captured' \in Content \cup {"none", "torn"}
    BY <1>2, <2>1, InChanging
  <2> QED
    BY <1>1, <1>2, <2>1, <2>2, <2>3, InChanging DEF Begins, Keeps, KindAt, ModeInv, Made, Kind
<1>4. CASE params.mode # "any" /\ Continue("chmod") /\ UNCHANGED captured
  <2>1. Forward /\ ph' = "chmod"
    BY <1>1, <1>4, Moves, MoveNames DEF Begins, Forward, Leads
  <2>2. params.mode \in Mode
    BY <1>4, ParamsShape, Types
  <2>3. KindAt("chmod")'
    BY <1>1, <2>2 DEF KindAt, Kind
  <2> QED
    BY <1>1, <1>2, <1>4, <2>1, <2>3, InChanging DEF Begins, Keeps, ModeInv, Kind
<1> QED
  BY <1>3, <1>4 DEF ChmodNext

\* copy_file reads the pre-image ...
LEMMA ReadPreImageKeeps ==
  ASSUME IInv, Begins, ph = "transition", ReadPreImage
  PROVE  Forward /\ Keeps
<1>1. UNCHANGED <<faults, params, source, runs, drift, path>> /\ Kind("copy_file")
  BY DEF Begins, setVars, ReadPreImage
<1>2. ph \in Changing
  BY MoveNames
<1>3. CASE path.is # "dir" /\ local' = path.content /\ Continue("copy") /\ UNCHANGED captured
  <2>1. Forward /\ ph' = "copy" /\ before' = path
    BY <1>1, <1>3, Moves, MoveNames DEF Begins, Forward, Leads
  <2>2. local' \in Content \cup {"none", "torn"}
    BY <1>1, <1>3, PathShape, Types DEF Kind
  <2> QED
    BY <1>1, <1>2, <1>3, <2>1, <2>2, InChanging, Types
    DEF Keeps, KindAt, ModeInv, Made, Kind
<1>4. CASE Fails /\ UNCHANGED local
  BY <1>1, <1>4, FailsKeeps, Types
<1> QED
  BY <1>3, <1>4 DEF ReadPreImage

\* ... copies, ...
LEMMA CopyKeeps ==
  ASSUME IInv, Begins, Copy
  PROVE  Forward /\ Keeps
<1>1. /\ UNCHANGED <<faults, params, source, runs, drift, local>> /\ ph = "copy"
      /\ Kind("copy_file")
  <2>1. UNCHANGED <<faults, params, source, runs, drift, local>> /\ ph = "copy"
    BY DEF Begins, setVars, Copy, At, ph
  <2> QED
    BY <2>1, InChanging, MoveNames DEF KindAt
<1>2. CASE source # "none" /\ path' = Holding(source) /\ ChmodNext
  <2>1. path' \in Path /\ path'.is = "file" /\ path'.content = source
    BY <1>2, HoldingShape, Types
  <2>2. Made("chmod")'
    BY <1>1, <1>2, <2>1 DEF Made, Kind
  <2> QED
    BY <1>1, <1>2, <2>1, <2>2, ChmodNextKeeps DEF Kind
<1>3. CASE Fails /\ UNCHANGED path
  BY <1>1, <1>3, FailsKeeps, Types
<1>4. CASE Fails /\ path' = Holding("torn")
  BY <1>1, <1>4, FailsKeeps, HoldingShape, Types DEF Kind
<1> QED
  BY <1>2, <1>3, <1>4 DEF Copy

\* ... and sets the mode, as the other two do.
LEMMA ChmodKeeps ==
  ASSUME IInv, Begins, Chmod
  PROVE  Forward /\ Keeps
<1>1. /\ UNCHANGED <<faults, params, source, runs, drift, local>> /\ ph = "chmod"
      /\ params.kind \in {"copy_file", "download_file", "ensure_directory"}
      /\ params.mode \in Mode
      /\ UNCHANGED <<before, touched>>
  <2>1. UNCHANGED <<faults, params, source, runs, drift, local>> /\ ph = "chmod"
    BY DEF Begins, setVars, Chmod, At, ph
  <2> QED
    BY <2>1, InChanging, MoveNames DEF KindAt, Begins
<1>2. CASE path.is # "absent" /\ path' = [path EXCEPT !.mode = params.mode] /\ Finish
  <2>1. path.is \in {"file", "dir"}
    BY <1>1, <1>2, PathShape, Types
  <2>2. /\ path' \in Path /\ path'.is = path.is /\ path'.content = path.content
        /\ path'.mode = params.mode
    BY <1>1, <1>2, <2>1, ChmodShape, Types
  <2>3. Forward /\ ph' = "verify" /\ captured' = IF Kind("copy_file") THEN local ELSE captured
    BY <1>1, <1>2, Moves, MoveNames DEF Begins, Forward, Leads, Finish
  <2>4. ~faults /\ drift = 0 => Verdict' = "ALREADY_APPLIED"
    <3>0. ~faults /\ drift = 0 => Made("chmod")
      BY <1>1, InChanging, MoveNames
    <3>1. CASE Kind("copy_file")
      BY <1>1, <2>2, <3>0, <3>1 DEF Made, Verdict, CopyVerdict, Applied, HasMode, Kind
    <3>2. CASE Kind("download_file")
      BY <1>1, <2>2, <3>0, <3>2
      DEF Made, Verdict, DownloadVerdict, Applied, HasMode, HasSha256, Kind
    <3>3. CASE Kind("ensure_directory")
      BY <1>1, <2>2, <3>0, <3>3 DEF Made, Verdict, DirectoryVerdict, Applied, HasMode, Kind
    <3> QED
      BY <1>1, <3>1, <3>2, <3>3 DEF Kind
  <2>5. captured' \in Content \cup {"none", "torn"}
    BY <1>1, <2>3, InChanging, MoveNames
  <2> QED
    BY <1>1, <2>2, <2>3, <2>4, <2>5, InChanging, MoveNames DEF Keeps, KindAt, ModeInv, Made, Kind
<1>3. CASE Fails /\ UNCHANGED path
  BY <1>1, <1>3, FailsKeeps, Types
<1> QED
  BY <1>2, <1>3 DEF Chmod

\* download_file: the download, ...
LEMMA DownloadKeeps ==
  ASSUME IInv, Begins, ph = "transition", Download
  PROVE  Forward /\ Keeps
<1>1. /\ UNCHANGED <<faults, params, source, runs, drift, local>> /\ Kind("download_file")
  BY DEF Begins, setVars, Download
<1>2. CASE path' = Holding(source) /\ source # "none" /\ Continue("hash") /\ UNCHANGED captured
  <2>1. path' \in Path
    BY <1>2, HoldingShape, Types
  <2>2. Forward /\ ph' = "hash"
    BY <1>1, <1>2, Moves, MoveNames DEF Begins, Forward, Leads
  <2> QED
    BY <1>1, <1>2, <2>1, <2>2, InChanging, MoveNames DEF Keeps, KindAt, ModeInv, Made, Kind
<1>3. CASE Fails /\ UNCHANGED path
  BY <1>1, <1>3, FailsKeeps, Types
<1>4. CASE Fails /\ path' = Holding("torn")
  BY <1>1, <1>4, FailsKeeps, HoldingShape, Types DEF Kind
<1>5. ASSUME faults, path' \in {path, Holding("torn")}, UNCHANGED captured,
             NEW p \in {"hash", "raised"}, Continue(p)
      PROVE  Forward /\ Keeps
  <2>1. path' \in Path
    BY <1>5, HoldingShape, Types
  <2>2. Forward /\ ph' = p
    BY <1>1, <1>5, Moves, MoveNames DEF Begins, Forward, Leads, Phase
  <2> QED
    BY <1>1, <1>5, <2>1, <2>2, InChanging, MoveNames DEF Keeps, KindAt, ModeInv, Made, Kind
<1> QED
  BY <1>2, <1>3, <1>4, <1>5 DEF Download

\* ... its checksum ...
LEMMA HashKeeps ==
  ASSUME IInv, Begins, Hash
  PROVE  Forward /\ Keeps
<1>1. /\ UNCHANGED <<faults, params, source, runs, drift, path, local>> /\ ph = "hash"
      /\ Kind("download_file")
  <2>1. UNCHANGED <<faults, params, source, runs, drift, path, local>> /\ ph = "hash"
    BY DEF Begins, setVars, Hash, At, ph
  <2> QED
    BY <2>1, InChanging, MoveNames DEF KindAt
<1>2. CASE path.is = "file" /\ HasSha256 /\ ChmodNext
  <2>1. Made("chmod")'
    BY <1>1, <1>2 DEF Made, HasSha256, Kind
  <2> QED
    BY <1>1, <1>2, <2>1, ChmodNextKeeps, Types DEF Kind
<1>3. CASE Continue("unlink") /\ UNCHANGED captured
  <2>1. Forward /\ ph' = "unlink"
    BY <1>1, <1>3, Moves, MoveNames DEF Begins, Forward, Leads
  <2> QED
    BY <1>1, <1>3, <2>1, InChanging, MoveNames, Types DEF Keeps, KindAt, ModeInv, Made, Kind
<1>4. CASE Fails
  BY <1>1, <1>4, FailsKeeps, Types
<1> QED
  BY <1>2, <1>3, <1>4 DEF Hash

\* ... and the removal of what has another one.
LEMMA UnlinkKeeps ==
  ASSUME IInv, Begins, Unlink
  PROVE  Forward /\ Keeps
<1>1. UNCHANGED local /\ ph = "unlink" /\ Fails
  BY DEF Unlink, At, ph
<1>2. Kind("download_file")
  BY <1>1, InChanging, MoveNames DEF KindAt
<1>3. path' \in Path
  BY PathValues, Types DEF Unlink
<1> QED
  BY <1>1, <1>2, <1>3, FailsKeeps DEF Kind

LEMMA WriteTextKeeps ==
  ASSUME IInv, Begins, ph = "transition", WriteText
  PROVE  Forward /\ Keeps
<1>1. /\ UNCHANGED <<faults, params, source, runs, drift, local>> /\ Kind("new_text_file")
  BY DEF Begins, setVars, WriteText
<1>2. CASE path' = Holding(source) /\ Succeeds
  <2>1. path' \in Path /\ path'.is = "file" /\ path'.content = source
    BY <1>1, <1>2, InChanging, MoveNames, HoldingShape, Types
  <2>2. Forward /\ ph' = "verify" /\ captured' = captured
    BY <1>1, <1>2, Moves, MoveNames DEF Begins, Forward, Leads, Succeeds
  <2>3. Verdict' = "ALREADY_APPLIED"
    BY <1>1, <2>1 DEF Verdict, TextVerdict, Applied, Kind
  <2> QED
    BY <1>1, <2>1, <2>2, <2>3, InChanging, MoveNames DEF Keeps, KindAt, ModeInv, Made, Kind
<1>3. CASE Fails /\ UNCHANGED path
  BY <1>1, <1>3, FailsKeeps, Types
<1>4. CASE Fails /\ path' = Holding("torn")
  BY <1>1, <1>4, FailsKeeps, HoldingShape, Types DEF Kind
<1> QED
  BY <1>2, <1>3, <1>4 DEF WriteText

\* ensure_symlink: what is there is removed, ...
LEMMA ClearLinkKeeps ==
  ASSUME IInv, Begins, ph = "transition", ClearLink
  PROVE  Forward /\ Keeps
<1>1. /\ UNCHANGED <<faults, params, source, runs, drift, local>> /\ Kind("ensure_symlink")
  BY DEF Begins, setVars, ClearLink
<1>2. CASE path' = Absent /\ Continue("link") /\ UNCHANGED captured
  <2>1. Forward /\ ph' = "link"
    BY <1>1, <1>2, Moves, MoveNames DEF Begins, Forward, Leads
  <2>2. Verdict = "READY" => params.allow_dangling \/ source # "none"
    BY <1>1, ParamsShape, Types DEF Verdict, SymlinkVerdict, Kind
  <2>3. ~faults /\ drift = 0 => Made("link")'
    BY <1>1, <2>2, InChanging, MoveNames DEF Made
  <2> QED
    BY <1>1, <1>2, <2>1, <2>3, InChanging, MoveNames, PathValues DEF Keeps, KindAt, ModeInv, Kind
<1>3. CASE Fails /\ UNCHANGED path
  BY <1>1, <1>3, FailsKeeps, Types
<1> QED
  BY <1>2, <1>3 DEF ClearLink

\* ... and the link is made.
LEMMA LinkKeeps ==
  ASSUME IInv, Begins, Link
  PROVE  Forward /\ Keeps
<1>1. /\ UNCHANGED <<faults, params, source, runs, drift, local>> /\ ph = "link"
      /\ Kind("ensure_symlink")
  <2>1. UNCHANGED <<faults, params, source, runs, drift, local>> /\ ph = "link"
    BY DEF Begins, setVars, Link, At, ph
  <2> QED
    BY <2>1, InChanging, MoveNames DEF KindAt
<1>2. CASE path' = OurLink /\ Succeeds
  <2>1. Forward /\ ph' = "verify" /\ captured' = captured
    BY <1>1, <1>2, Moves, MoveNames DEF Begins, Forward, Leads, Succeeds
  <2>2. ~faults /\ drift = 0 => Verdict' = "ALREADY_APPLIED"
    BY <1>1, <1>2, InChanging, MoveNames
    DEF Made, Verdict, SymlinkVerdict, Applied, OurLink, Kind
  <2> QED
    BY <1>1, <1>2, <2>1, <2>2, InChanging, MoveNames, PathValues
    DEF Keeps, KindAt, ModeInv, Made, Kind
<1>3. CASE Fails /\ UNCHANGED path
  BY <1>1, <1>3, FailsKeeps, Types
<1> QED
  BY <1>2, <1>3 DEF Link

LEMMA MakeDirectoryKeeps ==
  ASSUME IInv, Begins, ph = "transition", MakeDirectory
  PROVE  Forward /\ Keeps
<1>1. /\ UNCHANGED <<faults, params, source, runs, drift, local>> /\ Kind("ensure_directory")
  BY DEF Begins, setVars, MakeDirectory
<1>2. CASE path.is # "file" /\ path' = (IF path = Absent THEN NewDir ELSE path) /\ ChmodNext
  <2>1. path' \in Path /\ path'.is = "dir"
    BY <1>1, <1>2, PathShape, PathValues, Types DEF NewDir, Kind
  <2>2. Made("chmod")'
    BY <1>1, <2>1 DEF Made, Kind
  <2> QED
    BY <1>1, <1>2, <2>1, <2>2, ChmodNextKeeps DEF Kind
<1>3. CASE Fails /\ UNCHANGED path
  BY <1>1, <1>3, FailsKeeps, Types
<1> QED
  BY <1>2, <1>3 DEF MakeDirectory

LEMMA SetModeKeeps ==
  ASSUME IInv, Begins, ph = "transition", SetMode
  PROVE  Forward /\ Keeps
<1>1. /\ UNCHANGED <<faults, params, source, runs, drift, local>> /\ Kind("set_file_mode")
      /\ before' = path /\ params.mode \in Mode
  <2>1. Kind("set_file_mode") /\ params.mode \in Mode
    BY ParamsShape, Types DEF SetMode
  <2> QED
    BY <2>1 DEF Begins, setVars, SetMode
<1>2. CASE path # Absent /\ path' = [path EXCEPT !.mode = params.mode] /\ Succeeds
  <2>1. path.is \in {"file", "dir"}
    BY <1>1, <1>2, PathShape, Types DEF Kind
  <2>2. path' \in Path /\ path'.is = path.is /\ path'.mode = params.mode
    BY <1>1, <1>2, <2>1, ChmodShape, Types
  <2>3. Forward /\ ph' = "verify" /\ captured' = captured
    BY <1>1, <1>2, Moves, MoveNames DEF Begins, Forward, Leads, Succeeds
  <2>4. Verdict' = "ALREADY_APPLIED"
    BY <1>1, <2>1, <2>2 DEF Verdict, ModeVerdict, Applied, HasMode, Kind
  <2> QED
    BY <1>1, <1>2, <2>2, <2>3, <2>4, InChanging, MoveNames DEF Keeps, KindAt, ModeInv, Made, Kind
<1>3. CASE Fails /\ UNCHANGED path
  BY <1>1, <1>3, FailsKeeps, Types
<1> QED
  BY <1>2, <1>3 DEF SetMode

LEMMA DeleteKeeps ==
  ASSUME IInv, Begins, ph = "transition", Delete
  PROVE  Forward /\ Keeps
<1>1. /\ UNCHANGED <<faults, params, source, runs, drift, local>> /\ Kind("delete_path")
  BY DEF Begins, setVars, Delete
<1>2. CASE Returns("node", "SKIPPED") /\ UNCHANGED <<path, captured>>
  <2>1. Forward /\ ph' = "done"
    BY <1>1, <1>2, Moves, MoveNames DEF Begins, Forward, Leads
  <2> QED
    BY <1>1, <1>2, <2>1, InChanging, MoveNames, Types DEF Keeps, KindAt, ModeInv, Made, Kind
<1>3. CASE path' = Absent /\ Succeeds
  <2>1. Forward /\ ph' = "verify" /\ captured' = captured
    BY <1>1, <1>3, Moves, MoveNames DEF Begins, Forward, Leads, Succeeds
  <2>2. params.missing_ok => Verdict' = "ALREADY_APPLIED"
    BY <1>1, <1>3 DEF Verdict, DeleteVerdict, Exists, Absent, Kind
  <2> QED
    BY <1>1, <1>3, <2>1, <2>2, InChanging, MoveNames, PathValues
    DEF Keeps, KindAt, ModeInv, Made, Kind
<1>4. CASE Fails /\ UNCHANGED path
  BY <1>1, <1>4, FailsKeeps, Types
<1> QED
  BY <1>2, <1>3, <1>4 DEF Delete

LEMMA TransitionIInv ==
  ASSUME IInv, Transition \/ TransitionGoesOn
  PROVE  IInv'
<1>1. CASE Transition
  <2>1. Begins /\ ph = "transition"
    BY <1>1 DEF Transition, Begins, At, ph
  <2> QED
    BY <1>1, <2>1, ReadPreImageKeeps, DownloadKeeps, WriteTextKeeps, ClearLinkKeeps,
       MakeDirectoryKeeps, SetModeKeeps, DeleteKeeps, ForwardIInv DEF Transition
<1>2. CASE TransitionGoesOn
  <2>1. Begins
    BY <1>2, MoveNames
    DEF TransitionGoesOn, Begins, Copy, Hash, Unlink, Chmod, Link, At, ph
  <2> QED
    BY <1>2, <2>1, CopyKeeps, HashKeeps, UnlinkKeeps, ChmodKeeps, LinkKeeps, ForwardIInv
    DEF TransitionGoesOn
<1> QED
  BY <1>1, <1>2

-----------------------------------------------------------------------------
(* The rollbacks.                                                           *)

\* What the inverse of a changer has to keep when it returns.
Restores(s) ==
  /\ path' \in Path
  /\ ~Kind("delete_path")
  /\ Kind("copy_file") /\ s = "SUCCESS" => path'.content = captured
  /\ s \in {"SUCCESS", "SKIPPED"} /\ ~(Kind("copy_file") /\ captured # "none") =>
       path' = Absent \/ (Kind("set_file_mode") /\ path # Absent)
  /\ Kind("set_file_mode") /\ path = Absent => path' = Absent

LEMMA UndoneIInv ==
  ASSUME IInv, ph \in {"rollback", "restore"}, NEW s \in Status, Undone("node", s),
         Restores(s), UNCHANGED <<setVars, memVars, before, touched>>
  PROVE  IInv'
<1>1. /\ UNCHANGED <<faults, params, source, runs, drift, local, captured, before, touched,
                     result>>
      /\ ph' = "done" /\ undo'["node"] = s
      /\ LifeTypeOK' /\ (phase \in [Node -> Phase])'
  <2>1. /\ UNCHANGED <<faults, params, source, runs, drift, local, captured, before, touched,
                       result>>
        /\ phase' = [phase EXCEPT !["node"] = "done"] /\ undo' = [undo EXCEPT !["node"] = s]
        /\ outcome' = [outcome EXCEPT !["node"] = "FAILED_TRANSITION"]
    BY DEF Undone, Report, Goto, setVars, memVars
  <2>2. ph' = "done" /\ undo'["node"] = s /\ (phase \in [Node -> Phase])'
    BY <2>1, Types, Constants DEF ph, Phase
  <2>3. LifeTypeOK'
    BY <2>1, Types, Constants DEF LifeTypeOK
  <2> QED
    BY <2>1, <2>2, <2>3
<1>2. TypeOK'
  <2>1. Path' = Path
    BY <1>1 DEF Path, Things, Kind
  <2> QED
    BY <1>1, <2>1, Types DEF IInv, TypeOK, Restores, Path, ph
<1>3. result["node"] \in {"FAILURE", "MISMATCH"}
  BY DEF IInv, LifeInv
<1>4. KindInv' /\ LifeInv' /\ CopyInv'
  BY <1>1 DEF IInv, Restores, KindInv, KindAt, LifeInv, CopyInv, Kind, Changing
<1>5. ModeInv'
  BY <1>1 DEF IInv, Restores, ModeInv, Kind
<1>6. GuardInv'
  <2>1. Guarded' => Guarded
    BY <1>1 DEF Guarded, Foreign, Kind
  <2> QED
    BY <1>1, <2>1 DEF IInv, GuardInv
<1>7. MadeInv' /\ EffectConfirmed'
  BY <1>1 DEF IInv, MadeInv, Made, EffectConfirmed, Kind
<1>8. MismatchRestored'
  BY <1>1 DEF IInv, CopyInv, Restores, MismatchRestored, Kind
<1>9. FreshPathRemoved'
  <2>1. SUFFICES ASSUME before = Absent, s \in {"SUCCESS", "SKIPPED"}, ~touched,
                        ~(Kind("copy_file") /\ runs > 1 /\ result["node"] = "FAILURE")
                 PROVE  path' = Absent
    BY <1>1 DEF FreshPathRemoved, Kind
  <2>2. Kind("copy_file") => captured = "none"
    BY <2>1, <1>3, Types DEF IInv, CopyInv, Absent
  <2> QED
    BY <2>1, <2>2 DEF IInv, ModeInv, Restores
<1> QED
  BY <1>1, <1>2, <1>4, <1>5, <1>6, <1>7, <1>8, <1>9 DEF IInv

\* delete_file, the inverse of what creates a file or a link
LEMMA RemoveFileIInv ==
  ASSUME IInv, ph = "rollback", RemoveFile, UNCHANGED <<setVars, before, touched>>,
         params.kind \in {"copy_file", "download_file", "new_text_file", "ensure_symlink"},
         Kind("copy_file") => captured = "none"
  PROVE  IInv'
<1>1. UNCHANGED memVars /\ {"SUCCESS", "FAILURE", "SKIPPED"} = Status
  BY MoveNames DEF RemoveFile
<1>2. CASE path.is = "absent" /\ Undone("node", "SKIPPED") /\ UNCHANGED path
  BY <1>1, <1>2, UndoneIInv, PathShape, Types DEF Restores, Kind
<1>3. CASE Undone("node", "SUCCESS") /\ path' = Absent
  BY <1>1, <1>3, UndoneIInv, PathValues DEF Restores, Absent, Kind
<1>4. CASE Undone("node", "FAILURE") /\ UNCHANGED path
  BY <1>1, <1>4, UndoneIInv, Types DEF Restores, Kind
<1> QED
  BY <1>2, <1>3, <1>4 DEF RemoveFile

LEMMA RestoreCopyIInv ==
  ASSUME IInv, ph = "rollback", RestoreCopy, UNCHANGED <<setVars, before, touched>>
  PROVE  IInv'
<1>1. Kind("copy_file") /\ {"SUCCESS", "FAILURE", "SKIPPED"} = Status
  BY MoveNames DEF RestoreCopy
<1>2. CASE captured = "none" /\ RemoveFile
  BY <1>1, <1>2, RemoveFileIInv DEF Kind
<1>3. CASE /\ captured # "none"
           /\ \/ path' = Holding(captured) /\ Undone("node", "SUCCESS")
              \/ Undone("node", "FAILURE") /\ UNCHANGED path
              \/ Undone("node", "FAILURE") /\ path' = Holding("torn")
           /\ UNCHANGED memVars
  <2>1. captured \in Content \cup {"torn"}
    BY <1>3 DEF IInv, TypeOK
  <2>2. CASE path' = Holding(captured) /\ Undone("node", "SUCCESS")
    <3>1. path' \in Path /\ path'.content = captured
      BY <2>1, <2>2, HoldingShape, Types
    <3> QED
      BY <1>1, <1>3, <2>2, <3>1, UndoneIInv DEF Restores, Kind
  <2>3. CASE Undone("node", "FAILURE") /\ path' \in {path, Holding("torn")}
    BY <1>1, <1>3, <2>3, UndoneIInv, HoldingShape, Types DEF Restores, Kind
  <2> QED
    BY <1>3, <2>2, <2>3
<1> QED
  BY <1>2, <1>3 DEF RestoreCopy

LEMMA RemoveDirectoryIInv ==
  ASSUME IInv, ph = "rollback", RemoveDirectory, UNCHANGED <<setVars, before, touched>>
  PROVE  IInv'
<1>1. /\ Kind("ensure_directory") /\ UNCHANGED memVars
      /\ {"SUCCESS", "FAILURE", "SKIPPED"} = Status
  BY MoveNames DEF RemoveDirectory
<1>2. CASE path.is = "absent" /\ Undone("node", "SKIPPED") /\ UNCHANGED path
  BY <1>1, <1>2, UndoneIInv, PathShape, Types DEF Restores, Kind
<1>3. CASE Undone("node", "SUCCESS") /\ path' = Absent
  BY <1>1, <1>3, UndoneIInv, PathValues DEF Restores, Kind
<1>4. CASE Undone("node", "FAILURE") /\ UNCHANGED path
  BY <1>1, <1>4, UndoneIInv, Types DEF Restores, Kind
<1> QED
  BY <1>2, <1>3, <1>4 DEF RemoveDirectory

\* set_file_mode reads the mode ...
LEMMA ReadModeIInv ==
  ASSUME IInv, ph = "rollback", ReadMode, UNCHANGED <<setVars, before, touched>>
  PROVE  IInv'
<1>1. /\ UNCHANGED <<faults, params, source, runs, drift, path, captured, before, touched,
                     result, undo>>
      /\ Kind("set_file_mode") /\ ph' = "restore"
      /\ LifeTypeOK' /\ (phase \in [Node -> Phase])'
  BY Moves DEF ReadMode, setVars, Phase
<1>2. local' \in Mode \cup {"none"}
  BY PathShape, Types DEF ReadMode
<1>3. TypeOK'
  BY <1>1, <1>2 DEF IInv, TypeOK, Things, Kind, ph
<1>4. KindInv' /\ LifeInv' /\ CopyInv' /\ ModeInv'
  BY <1>1, <1>2 DEF IInv, KindInv, KindAt, LifeInv, CopyInv, ModeInv, Kind, Changing
<1>5. GuardInv'
  <2>1. Guarded' => Guarded
    BY <1>1 DEF Guarded, Foreign, Kind
  <2> QED
    BY <1>1, <2>1 DEF IInv, GuardInv
<1>6. MadeInv'
  BY <1>1 DEF MadeInv, Made
<1>7. MismatchRestored' /\ FreshPathRemoved' /\ EffectConfirmed'
  BY <1>1 DEF IInv, MismatchRestored, FreshPathRemoved, EffectConfirmed, Kind
<1> QED
  BY <1>1, <1>3, <1>4, <1>5, <1>6, <1>7 DEF IInv

\* ... and sets it.
LEMMA RestoreModeIInv ==
  ASSUME IInv, RestoreMode, UNCHANGED <<setVars, before, touched>>
  PROVE  IInv'
<1>1. /\ ph = "restore" /\ UNCHANGED memVars /\ {"SUCCESS", "FAILURE", "SKIPPED"} = Status
      /\ Kind("set_file_mode") /\ local \in Mode \cup {"none"}
  <2>1. ph = "restore" /\ UNCHANGED memVars
    BY DEF RestoreMode, At, ph
  <2> QED
    BY <2>1, MoveNames DEF IInv, KindInv, KindAt
<1>2. CASE /\ local # "none" /\ path # Absent /\ path' = [path EXCEPT !.mode = local]
           /\ Undone("node", "SUCCESS")
  <2>1. path.is \in {"file", "dir"}
    BY <1>1, <1>2, PathShape, Types DEF Kind
  <2>2. path' \in Path
    BY <1>1, <1>2, <2>1, ChmodShape, Types
  <2> QED
    BY <1>1, <1>2, <2>2, UndoneIInv DEF Restores, Kind
<1>3. CASE path = Absent /\ Undone("node", "SKIPPED") /\ UNCHANGED path
  BY <1>1, <1>3, UndoneIInv, Types DEF Restores, Kind
<1>4. CASE Undone("node", "FAILURE") /\ UNCHANGED path
  BY <1>1, <1>4, UndoneIInv, Types DEF Restores, Kind
<1> QED
  BY <1>2, <1>3, <1>4 DEF RestoreMode

LEMMA NothingToUndoIInv ==
  ASSUME IInv, NothingToUndo, UNCHANGED <<setVars, before, touched>>
  PROVE  IInv'
<1>1. /\ UNCHANGED <<faults, params, source, runs, drift, path, local, captured, before,
                     touched, result, undo>>
      /\ phase' = [phase EXCEPT !["node"] = "done"]
      /\ outcome' = [outcome EXCEPT !["node"] = "FAILED_TRANSITION"]
      /\ ph = "rollback"
  BY DEF NothingToUndo, NoInverse, Report, Goto, setVars, memVars, ph
<1>2. ph' = "done" /\ (phase \in [Node -> Phase])' /\ LifeTypeOK'
  BY <1>1, Types, Constants DEF ph, Phase, LifeTypeOK
<1>3. TypeOK'
  BY <1>1, <1>2 DEF IInv, TypeOK, Things, Kind, ph
<1>4. KindInv' /\ LifeInv' /\ CopyInv' /\ ModeInv'
  BY <1>1, <1>2 DEF IInv, KindInv, KindAt, LifeInv, CopyInv, ModeInv, Kind, Changing
<1>5. GuardInv'
  <2>1. Guarded' => Guarded
    BY <1>1 DEF Guarded, Foreign, Kind
  <2> QED
    BY <1>1, <1>2, <2>1 DEF IInv, GuardInv
<1>6. MadeInv'
  BY <1>2 DEF MadeInv, Made
<1>7. MismatchRestored' /\ FreshPathRemoved' /\ EffectConfirmed'
  BY <1>1 DEF IInv, MismatchRestored, FreshPathRemoved, EffectConfirmed, Kind
<1> QED
  BY <1>2, <1>3, <1>4, <1>5, <1>6, <1>7 DEF IInv

LEMMA RollbackIInv ==
  ASSUME IInv, Rollback \/ RollbackGoesOn
  PROVE  IInv'
<1>1. CASE Rollback
  <2>1. ph = "rollback" /\ UNCHANGED <<setVars, before, touched>>
    BY <1>1 DEF Rollback, At, ph
  <2>2. CASE RemoveDownload \/ RemoveText \/ RemoveLink
    BY <2>1, <2>2, RemoveFileIInv DEF RemoveDownload, RemoveText, RemoveLink, Kind
  <2> QED
    BY <1>1, <2>1, <2>2, RestoreCopyIInv, RemoveDirectoryIInv, ReadModeIInv,
       NothingToUndoIInv DEF Rollback
<1>2. CASE RollbackGoesOn
  BY <1>2, RestoreModeIInv DEF RollbackGoesOn
<1> QED
  BY <1>1, <1>2

-----------------------------------------------------------------------------
(* The theorems.                                                            *)

\* The invariant is inductive.
THEOREM Invariant == Spec => []IInv
<1>1. ASSUME IInv, Next PROVE IInv'
  BY <1>1, DriftSourceIInv, DriftPathIInv, StartAgainIInv, AssessStateIInv, TransitionIInv,
     RollbackIInv DEF Next
<1>2. IInv /\ [Next]_vars => IInv'
  BY <1>1, StutterIInv
<1> QED
  BY InitIInv, <1>2, PTL DEF Spec

\* Every variable has its type, for any contents, modes, runs and acts of
\* other programs.
THEOREM TypeCorrect == Spec => []TypeOK
<1>1. IInv => TypeOK
  BY DEF IInv
<1> QED
  BY Invariant, <1>1, PTL

\* A copy that the second assessment rejects is rolled back to what dest held
\* before this run (copy_file's captured pre-image is the one just read).
THEOREM MismatchUndone == Spec => []MismatchRestored
<1>1. IInv => MismatchRestored
  BY DEF IInv
<1> QED
  BY Invariant, <1>1, PTL

\* A path that did not exist is gone after a rollback that reports success,
\* wherever the transition has failed.
THEOREM FreshPathGone == Spec => []FreshPathRemoved
<1>1. IInv => FreshPathRemoved
  BY DEF IInv
<1> QED
  BY Invariant, <1>1, PTL

\* Without overwrite, what somebody else has put at the path is never changed.
THEOREM ForeignSafe == Spec => []ForeignKept
<1>1. IInv => ForeignKept
  BY DEF IInv, GuardInv, Guarded, ForeignKept
<1> QED
  BY Invariant, <1>1, PTL

\* Without faults the second assessment accepts what the transition has made,
\* except for a deletion that demands a path.
THEOREM EffectAccepted == Spec => []EffectConfirmed
<1>1. IInv => EffectConfirmed
  BY DEF IInv
<1> QED
  BY Invariant, <1>1, PTL
=============================================================================
