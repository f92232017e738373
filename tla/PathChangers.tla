---------------------------- MODULE PathChangers ----------------------------
(***************************************************************************)
(* The changers of one path of the file system and their rollbacks: a copy  *)
(* (fs/copy_file.py), a download (net/download_file.py), a new text file, a *)
(* symlink, a directory, a mode and a deletion (fs/*.py).  Each is a series *)
(* of calls of the file system, any of which may fail, while other programs *)
(* change the path and what the changer makes it from.                      *)
(*                                                                         *)
(* A parent that is missing or cannot be written, a mode out of range or a  *)
(* malformed URL or checksum makes assess_state INVALID, as a fault does.   *)
(* Only the changers that are about symlinks meet one.                      *)
(***************************************************************************)
EXTENDS Naturals, NodeLife

CONSTANTS
  Content,   \* what a file may hold
  Mode,      \* the permissions of a path
  NewMode,   \* those of a path that is created
  MaxDrift,  \* bound on what other programs do
  MaxRuns    \* bound on how often the program calls start()

ASSUME NodeAssumption == Node = {"node"}
ASSUME HostAssumption ==
  /\ NewMode \in Mode
  /\ {"none", "torn", "any", "empty", "full", "ours", "other"} \cap (Content \cup Mode) = {}
  /\ MaxDrift \in Nat
  /\ MaxRuns \in Nat \ {0}

Absent   == [is |-> "absent", content |-> "none", mode |-> NewMode]
OurLink  == [is |-> "symlink", content |-> "ours", mode |-> NewMode]
NewDir   == [is |-> "dir", content |-> "empty", mode |-> NewMode]
Files    == [is : {"file"}, content : Content, mode : Mode]
Dirs     == [is : {"dir"}, content : {"empty", "full"}, mode : Mode]
Symlinks == [is : {"symlink"}, content : {"ours", "other"}, mode : {NewMode}]

\* "any" stands for None; overwrite is overwrite_mismatch of a download and
\* overwrite_non_symlink of a symlink.
CopyParams ==
  [kind : {"copy_file"}, overwrite : BOOLEAN, mode : Mode \cup {"any"}]
DownloadParams ==
  [kind : {"download_file"}, overwrite : BOOLEAN, mode : Mode \cup {"any"},
   sha256 : Content \cup {"any"}]
TextParams ==
  [kind : {"new_text_file"}, overwrite : {FALSE}]
SymlinkParams ==
  [kind : {"ensure_symlink"}, overwrite : BOOLEAN, allow_dangling : BOOLEAN]
DirectoryParams ==
  [kind : {"ensure_directory"}, mode : Mode \cup {"any"}]
ModeParams ==
  [kind : {"set_file_mode"}, mode : Mode]
DeleteParams ==
  [kind : {"delete_path"}, expected : {"file", "symlink", "dir", "any"},
   recursive : BOOLEAN, missing_ok : BOOLEAN]

Params ==
  CopyParams \cup DownloadParams \cup TextParams \cup SymlinkParams
  \cup DirectoryParams \cup ModeParams \cup DeleteParams

VARIABLES
  faults,    \* may the calls of this run of the program fail?
  params,    \* self._params and the class of the changer
  source,    \* the contents of src, of the URL or of text; for a symlink
             \* "none" is a target that does not exist
  path,      \* what is at the path
  local,     \* pre_image of the transition that is running ("none": there was
             \* no dest); the pre_mode of the inverse of set_file_mode
  captured,  \* _captured_pre_image and _dest_existed of copy_file
  runs,      \* how often start() has been called
  drift,     \* how often other programs have acted
  before,    \* path when the transition began
  touched    \* has another program changed path since then?

memVars == <<local, captured>>
setVars == <<faults, params, source, runs, drift>>
vars    == <<setVars, path, memVars, before, touched, lifeVars>>

Kind(k) == params.kind = k

\* What may be at the path.
Things ==
  Files \cup Dirs \cup {Absent} \cup
  (IF Kind("ensure_symlink") \/ Kind("delete_path") THEN Symlinks ELSE {})

Init ==
  /\ faults \in BOOLEAN
  /\ params \in Params
  /\ source \in Content \cup (IF Kind("new_text_file") THEN {} ELSE {"none"})
  /\ path \in Things
  /\ local = "none"
  /\ captured = "none"
  /\ runs = 1
  /\ drift = 0
  /\ before = path
  /\ touched = FALSE
  /\ LifeInit

-----------------------------------------------------------------------------
(* Other programs, and another start().                                     *)

DriftSource ==
  /\ ~Kind("new_text_file")
  /\ drift < MaxDrift
  /\ source' \in Content \cup {"none"}
  /\ drift' = drift + 1
  /\ UNCHANGED <<faults, params, runs, path, memVars, before, touched, lifeVars>>

DriftPath ==
  /\ drift < MaxDrift
  /\ path' \in Things
  /\ drift' = drift + 1
  /\ touched' = TRUE
  /\ UNCHANGED <<faults, params, source, runs, memVars, before, lifeVars>>

\* The changer objects, and what they have recorded, live on.
StartAgain ==
  /\ phase["node"] \in {"done", "raised"}
  /\ runs < MaxRuns
  /\ runs' = runs + 1
  /\ LifeAgain
  /\ UNCHANGED <<faults, params, source, drift, path, memVars, before, touched>>

-----------------------------------------------------------------------------
(* assess_state.                                                            *)

\* FileSystem.exists follows a symlink.
Exists ==
  /\ path.is # "absent"
  /\ path.is = "symlink" /\ path.content = "ours" => source # "none"

HasMode   == params.mode \in {"any", path.mode}
HasSha256 == params.sha256 \in {"any", path.content}

Applied(applied) == IF applied THEN "ALREADY_APPLIED" ELSE "READY"

\* Mutant: overwrite is not looked at.
CopyVerdictOverwrites ==
  IF source = "none" \/ path.is = "dir" THEN "INVALID"
  ELSE Applied(path.content = source /\ HasMode)

CopyVerdict ==
  IF \/ source = "none"
     \/ path.is = "dir"
     \/ path.is = "file" /\ path.content # source /\ ~params.overwrite
  THEN "INVALID"
  ELSE Applied(path.content = source /\ HasMode)

DownloadVerdict ==
  IF \/ path.is = "dir"
     \/ path.is = "file" /\ ~HasSha256 /\ ~params.overwrite
  THEN "INVALID"
  ELSE Applied(path.is = "file" /\ HasSha256 /\ HasMode)

TextVerdict ==
  IF path.is = "dir" \/ (path.is = "file" /\ path.content # source)
  THEN "INVALID"
  ELSE Applied(path.is = "file")

SymlinkVerdict ==
  IF \/ path.is \in {"file", "dir"} /\ ~params.overwrite
     \/ ~params.allow_dangling /\ source = "none"
  THEN "INVALID"
  ELSE Applied(path = OurLink)

DirectoryVerdict ==
  IF path.is = "file" THEN "INVALID" ELSE Applied(path.is = "dir" /\ HasMode)

ModeVerdict ==
  IF path.is = "absent" THEN "INVALID" ELSE Applied(HasMode)

DeleteVerdict ==
  IF ~Exists
  THEN (IF params.missing_ok THEN "ALREADY_APPLIED" ELSE "INVALID")
  ELSE IF \/ params.expected \notin {"any", path.is}
          \/ path.is = "dir" /\ path.content = "full" /\ ~params.recursive
  THEN "INVALID"
  ELSE "READY"

Verdict ==
  CASE Kind("copy_file")        -> CopyVerdict
    [] Kind("download_file")    -> DownloadVerdict
    [] Kind("new_text_file")    -> TextVerdict
    [] Kind("ensure_symlink")   -> SymlinkVerdict
    [] Kind("ensure_directory") -> DirectoryVerdict
    [] Kind("set_file_mode")    -> ModeVerdict
    [] Kind("delete_path")      -> DeleteVerdict

\* A dest that cannot be hashed is a reason to download it again if it may be
\* overwritten, and a mode that cannot be read is not the wanted one; any other
\* fault is an issue.
FaultyVerdicts ==
  {"INVALID"} \cup
  {s \in {"READY"} :
     \/ /\ Kind("download_file") /\ path.is = "file"
        /\ params.sha256 # "any" /\ params.overwrite
     \/ /\ params.kind \in {"copy_file", "download_file", "ensure_directory", "set_file_mode"}
        /\ params.mode # "any" /\ Verdict = "ALREADY_APPLIED"}

AssessState ==
  /\ \E state \in {Verdict} \cup (IF faults THEN FaultyVerdicts ELSE {}) :
       Assess("node", state) \/ Verify("node", state)
  /\ UNCHANGED <<setVars, path, memVars, before, touched>>

-----------------------------------------------------------------------------
(* The transitions.  A failed call has no effect, except that a write may    *)
(* leave a torn file.                                                        *)

At(p)       == phase["node"] = p
Continue(p) == Goto("node", p) /\ UNCHANGED <<outcome, result, undo>>
Fails       == Returns("node", "FAILURE") /\ UNCHANGED captured
Succeeds    == Returns("node", "SUCCESS") /\ UNCHANGED captured

\* A file that exists keeps its mode when it is written.
Holding(content) == [is |-> "file", content |-> content, mode |-> path.mode]

\* copy_file: the pre-image is read, ...
ReadPreImage ==
  /\ Kind("copy_file")
  /\ \/ path.is # "dir" /\ local' = path.content /\ Continue("copy") /\ UNCHANGED captured
     \/ /\ path.is = "dir" \/ (faults /\ Exists)
        /\ Fails
        /\ UNCHANGED local
  /\ UNCHANGED path

\* ... and recorded when the transition succeeds.
Finish ==
  /\ Returns("node", "SUCCESS")
  /\ captured' = IF Kind("copy_file") THEN local ELSE captured

\* Mutant: the mode is left as it is.
ChmodNextNever == Finish

\* A copy, a download and a directory end with a chmod if there is a mode.
ChmodNext ==
  IF params.mode = "any" THEN Finish ELSE Continue("chmod") /\ UNCHANGED captured

Copy ==
  /\ At("copy")
  /\ \/ /\ source # "none" /\ path.is # "dir"
        /\ path' = Holding(source)
        /\ ChmodNext
     \/ /\ source = "none" \/ path.is = "dir" \/ faults
        /\ Fails
        /\ UNCHANGED path
     \/ /\ faults /\ source # "none" /\ path.is # "dir"
        /\ Fails
        /\ path' = Holding("torn")
  /\ UNCHANGED local

\* download_file: HTTP_NOT_FOUND and a dest that cannot be opened leave the
\* path alone, a connection that breaks does not, and when it only ends too early
\* what has arrived is taken for the whole.  An error of http.client that is no
\* OSError is not translated and leaves start(): there is no report, and no rollback.
Download ==
  /\ Kind("download_file")
  /\ \/ /\ source # "none" /\ path.is # "dir"
        /\ path' = Holding(source)
        /\ Continue("hash")
        /\ UNCHANGED captured
     \/ /\ source = "none" \/ path.is = "dir" \/ faults
        /\ Fails
        /\ UNCHANGED path
     \/ /\ faults /\ source # "none" /\ path.is # "dir"
        /\ Fails \/ (UNCHANGED captured /\ (Continue("hash") \/ Continue("raised")))
        /\ path' = Holding("torn")
     \/ faults /\ Continue("raised") /\ UNCHANGED <<path, captured>>
  /\ UNCHANGED local

Hash ==
  /\ At("hash")
  /\ \/ path.is = "file" /\ HasSha256 /\ ChmodNext
     \/ path.is = "file" /\ ~HasSha256 /\ Continue("unlink") /\ UNCHANGED captured
     \/ (path.is # "file" \/ faults) /\ Fails
  /\ UNCHANGED <<path, local>>

\* CHECKSUM_MISMATCH, whether the file can be removed or not.
Unlink ==
  /\ At("unlink")
  /\ Fails
  /\ \/ path' = IF path.is = "dir" THEN path ELSE Absent
     \/ faults /\ UNCHANGED path
  /\ UNCHANGED local

Chmod ==
  /\ At("chmod")
  /\ \/ /\ path.is # "absent"
        /\ path' = [path EXCEPT !.mode = params.mode]
        /\ Finish
     \/ (path.is = "absent" \/ faults) /\ Fails /\ UNCHANGED path
  /\ UNCHANGED local

WriteText ==
  /\ Kind("new_text_file")
  /\ \/ path.is # "dir" /\ path' = Holding(source) /\ Succeeds
     \/ (path.is = "dir" \/ faults) /\ Fails /\ UNCHANGED path
     \/ faults /\ path.is # "dir" /\ Fails /\ path' = Holding("torn")
  /\ UNCHANGED local

\* ensure_symlink: what may be replaced is removed first.
ClearLink ==
  /\ Kind("ensure_symlink")
  /\ \/ /\ path.is \in {"absent", "symlink"} \/ (path.is = "file" /\ params.overwrite)
        /\ path' = Absent
        /\ Continue("link")
        /\ UNCHANGED captured
     \/ /\ \/ path.is = "dir"
           \/ path.is = "file" /\ ~params.overwrite
           \/ faults /\ path # Absent
        /\ Fails
        /\ UNCHANGED path
  /\ UNCHANGED local

Link ==
  /\ At("link")
  /\ \/ path = Absent /\ path' = OurLink /\ Succeeds
     \/ (path # Absent \/ faults) /\ Fails /\ UNCHANGED path
  /\ UNCHANGED local

MakeDirectory ==
  /\ Kind("ensure_directory")
  /\ \/ /\ path.is # "file"
        /\ path' = IF path = Absent THEN NewDir ELSE path
        /\ ChmodNext
     \/ (path.is = "file" \/ faults) /\ Fails /\ UNCHANGED path
  /\ UNCHANGED local

SetMode ==
  /\ Kind("set_file_mode")
  /\ \/ path # Absent /\ path' = [path EXCEPT !.mode = params.mode] /\ Succeeds
     \/ (path = Absent \/ faults) /\ Fails /\ UNCHANGED path
  /\ UNCHANGED local

\* Deletable with the parameters of a delete_path.
Deletable ==
  /\ params.expected \in {"any", path.is}
  /\ path.is = "dir" /\ path.content = "full" => params.recursive

Delete ==
  /\ Kind("delete_path")
  /\ \/ ~Exists /\ Returns("node", "SKIPPED") /\ UNCHANGED <<path, captured>>
     \/ Exists /\ Deletable /\ path' = Absent /\ Succeeds
     \/ Exists /\ (~Deletable \/ faults) /\ Fails /\ UNCHANGED path
  /\ UNCHANGED local

-----------------------------------------------------------------------------
(* The transitions of the inverses.                                          *)

\* delete_file of the path
RemoveFile ==
  /\ \/ path.is = "absent" /\ Undone("node", "SKIPPED") /\ UNCHANGED path
     \/ path.is \in {"file", "symlink"} /\ Undone("node", "SUCCESS") /\ path' = Absent
     \/ (path.is = "dir" \/ faults) /\ Undone("node", "FAILURE") /\ UNCHANGED path
  /\ UNCHANGED memVars

\* Mutant: the copy is deleted, whatever was there before.
RestoreCopyDeletes ==
  Kind("copy_file") /\ RemoveFile

\* The copy is deleted if the transition has not recorded that dest existed,
\* and the pre-image is written back if it has.
RestoreCopy ==
  /\ Kind("copy_file")
  /\ \/ captured = "none" /\ RemoveFile
     \/ /\ captured # "none"
        /\ \/ path.is # "dir" /\ path' = Holding(captured) /\ Undone("node", "SUCCESS")
           \/ (path.is = "dir" \/ faults) /\ Undone("node", "FAILURE") /\ UNCHANGED path
           \/ faults /\ path.is # "dir" /\ Undone("node", "FAILURE") /\ path' = Holding("torn")
        /\ UNCHANGED memVars

RemoveDownload == Kind("download_file") /\ RemoveFile

\* Mutant: a path that is absent already is reported as an assessment.
RemoveTextAssesses ==
  /\ Kind("new_text_file")
  /\ \/ path.is = "absent" /\ Undone("node", "ALREADY_APPLIED") /\ UNCHANGED <<path, memVars>>
     \/ path.is # "absent" /\ RemoveFile

RemoveText == Kind("new_text_file") /\ RemoveFile

\* Mutant: only a link is removed that FileSystem.exists sees.
RemoveLinkSeen ==
  /\ Kind("ensure_symlink")
  /\ \/ ~Exists /\ Undone("node", "SKIPPED") /\ UNCHANGED <<path, memVars>>
     \/ Exists /\ RemoveFile

RemoveLink == Kind("ensure_symlink") /\ RemoveFile

\* rmdir
RemoveDirectory ==
  /\ Kind("ensure_directory")
  /\ \/ path.is = "absent" /\ Undone("node", "SKIPPED") /\ UNCHANGED path
     \/ /\ path.is = "dir" /\ path.content = "empty"
        /\ Undone("node", "SUCCESS")
        /\ path' = Absent
     \/ /\ path.is = "file" \/ path.content = "full" \/ faults
        /\ Undone("node", "FAILURE")
        /\ UNCHANGED path
  /\ UNCHANGED memVars

\* set_file_mode asks for the mode in rollback() ...
ReadMode ==
  /\ Kind("set_file_mode")
  /\ local' = IF path = Absent THEN "none" ELSE path.mode
  /\ Continue("restore")
  /\ UNCHANGED <<path, captured>>

\* ... and sets it in the transition of the inverse.
RestoreMode ==
  /\ At("restore")
  /\ \/ /\ local # "none" /\ path # Absent
        /\ path' = [path EXCEPT !.mode = local]
        /\ Undone("node", "SUCCESS")
     \/ local # "none" /\ path = Absent /\ Undone("node", "SKIPPED") /\ UNCHANGED path
     \/ (local = "none" \/ faults) /\ Undone("node", "FAILURE") /\ UNCHANGED path
  /\ UNCHANGED memVars

NothingToUndo ==
  Kind("delete_path") /\ NoInverse("node") /\ UNCHANGED <<path, memVars>>

-----------------------------------------------------------------------------

Transition ==
  /\ At("transition")
  /\ \/ ReadPreImage \/ Download \/ WriteText \/ ClearLink
     \/ MakeDirectory \/ SetMode \/ Delete
  /\ before' = path
  /\ touched' = FALSE
  /\ UNCHANGED setVars

TransitionGoesOn ==
  /\ Copy \/ Hash \/ Unlink \/ Chmod \/ Link
  /\ UNCHANGED <<setVars, before, touched>>

Rollback ==
  /\ At("rollback")
  /\ \/ RestoreCopy \/ RemoveDownload \/ RemoveText \/ RemoveLink
     \/ RemoveDirectory \/ ReadMode \/ NothingToUndo
  /\ UNCHANGED <<setVars, before, touched>>

RollbackGoesOn ==
  RestoreMode /\ UNCHANGED <<setVars, before, touched>>

Next ==
  \/ DriftSource \/ DriftPath \/ StartAgain
  \/ AssessState \/ Transition \/ TransitionGoesOn
  \/ Rollback \/ RollbackGoesOn

Spec == Init /\ [][Next]_vars

-----------------------------------------------------------------------------
(* Properties.                                                              *)

TypeOK ==
  /\ LifeTypeOK
  /\ phase["node"] \in {"assess", "transition", "copy", "hash", "unlink", "chmod",
                        "link", "raised", "verify", "rollback", "restore", "done"}
  /\ faults \in BOOLEAN
  /\ params \in Params
  /\ source \in Content \cup {"none"}
  /\ {path, before} \subseteq
       Things \cup [is : {"file"}, content : {"torn"}, mode : Mode]
  /\ local \in Content \cup Mode \cup {"none", "torn"}
  /\ captured \in Content \cup {"none", "torn"}
  /\ runs \in 1 .. MaxRuns
  /\ drift \in 0 .. MaxDrift
  /\ touched \in BOOLEAN

\* A copy that succeeded and is found not to hold, because the source has
\* changed since, is undone, in every run: dest holds again what it held before
\* this run, not what an earlier run has recorded.
MismatchRestored ==
  Kind("copy_file") /\ result["node"] = "MISMATCH" /\ undo["node"] = "SUCCESS" /\ ~touched =>
    path.content = before.content

\* A path that did not exist does not exist after the rollback, wherever the
\* transition has failed.  (A copy that fails in a second run may write back
\* what the first run recorded.)
FreshPathRemoved ==
  /\ before = Absent /\ undo["node"] \in {"SUCCESS", "SKIPPED"} /\ ~touched
  /\ ~(Kind("copy_file") /\ runs > 1 /\ result["node"] = "FAILURE")
  => path = Absent

\* Something that is not what the changer would make.
Foreign(thing) ==
  \/ thing.is = "dir"
  \/ /\ thing.is = "file"
     /\ \/ params.kind \in {"copy_file", "new_text_file"} /\ thing.content # source
        \/ Kind("download_file") /\ params.sha256 \notin {"any", thing.content}
        \/ Kind("ensure_symlink")

\* Without overwrite, what somebody else has put at the path stays as it was,
\* in spite of every fault, unless it appears while the node runs.
ForeignKept ==
  /\ params.kind \in {"copy_file", "download_file", "new_text_file", "ensure_symlink"}
  /\ ~params.overwrite /\ drift = 0 /\ runs = 1 /\ Foreign(before)
  => path = before

\* Without faults and other programs the second assessment finds what the
\* transition has done.  (A deletion that does not tolerate a missing path
\* rejects its own effect.)
EffectConfirmed ==
  ~faults /\ drift = 0 /\ result["node"] = "MISMATCH" =>
    Kind("delete_path") /\ ~params.missing_ok

\* "... an inverse StateChanger to undo its transition": after a rollback that
\* reports success, the path holds what it held before.
UndoRestores ==
  undo["node"] = "SUCCESS" /\ ~touched => path.content = before.content
=============================================================================
