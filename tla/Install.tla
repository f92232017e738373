------------------------------ MODULE Install ------------------------------
(***************************************************************************)
(* A chain that installs something: a script that                           *)
(* FetchUrlToStringStateChanger caches, or a tree that                      *)
(* ExtractArchiveStateChanger unpacks, then the RunCommandStateChanger that  *)
(* runs it, then ReplaceInFileStateChanger in a file that the command makes *)
(* if it is missing.  Neither the archive nor the command can be undone.    *)
(*                                                                         *)
(* Contents are sets of parts, so that what broke off half-way can be told  *)
(* from what is whole.  Parents, schemes, executables, encodings and        *)
(* patterns that are refused make assess_state INVALID, as a fault does;    *)
(* the directory the archive is unpacked into goes with the tree.  Node is  *)
(* {1, 2, 3}, a chain.                                                      *)
(***************************************************************************)
EXTENDS Naturals, NodeLife

CONSTANT MaxRuns  \* bound on how often the program calls start()

\* The cache file is there if it has a head; of a tree, the head is the sentinel.
Contents == {"head", "rest"}

\* What the command does: the paths of its two hints, and everything else.
Work == {"creates", "removes", "rest"}

\* max_age, the hints of the command, and whether the replacement still has a match
\* in it.  (With expected_count 0 every text counts as substituted.)
Params == [kind : {"script", "archive"}, max_age : {"none", "zero", "long"},
           hints : SUBSET {"creates", "removes"}, keeps : BOOLEAN]

\* Is the sentinel in the archive?  Has the archive a member that is refused, or one
\* that raises an error RealArchive does not translate?  Can the replacement be
\* encoded?
Nature == [listed : BOOLEAN, archive : {"sound", "unsafe", "odd"}, encodes : BOOLEAN]

\* Are there matches in the file, and as many as expected; how often have they been
\* replaced; is it as another program has written it; is something missing of it?
Matches == {"none", "expected", "unexpected"}
Text    == [matches : Matches, new : 0 .. MaxRuns, edited : BOOLEAN, torn : BOOLEAN]

Written(m) == [matches |-> m, new |-> 0, edited |-> FALSE, torn |-> FALSE]
NoText     == [Written("none") EXCEPT !.torn = TRUE]

VARIABLES
  faults,   \* may the calls of this host fail?
  params,   \* self._params of the three changers
  nature,
  source,   \* the cache file or the tree
  aged,     \* is the cache file older than a max_age that is not zero?
  work,     \* what the command has done
  present,  \* is the file of replace_in_file there?
  text,     \* what is in it
  buffer,   \* the text that has been read
  pre,      \* self._captured_pre_image, a set with the text that was captured
  other,    \* another program: "no", "edited", or "raced" if it acted while
            \* replace_in_file was at work
  runs,
  before    \* the source and the text when the transition that is about it began

setVars  == <<faults, params, nature, runs>>
fileVars == <<present, text, buffer, pre>>
vars     == <<setVars, source, aged, work, fileVars, other, before, lifeVars>>

Script == params.kind = "script"
Whole  == IF nature.listed THEN Contents ELSE {"rest"}

\* The parameters of the other kind do not matter.
Init ==
  /\ faults \in BOOLEAN
  /\ params \in {p \in Params : p.kind = "archive" => p.max_age = "none"}
  /\ nature \in {x \in Nature : Script => x.listed /\ x.archive = "sound"}
  /\ source \in {{}} \cup (IF Script THEN {Contents} ELSE {})
  /\ aged \in {FALSE, source # {}}
  /\ work \in {{}, Work}
  /\ \/ present = FALSE /\ text = NoText
     \/ present = TRUE /\ text \in {Written(m) : m \in Matches}
  /\ work = Work => present
  /\ buffer = NoText
  /\ pre = {}
  /\ other = "no"
  /\ runs = 1
  /\ before = [source |-> source, text |-> text]
  /\ LifeInit

-----------------------------------------------------------------------------
(* assess_state.                                                            *)

\* _is_cache_fresh: of a max_age of zero some time has always passed.
Fresh == params.max_age = "none" \/ (params.max_age = "long" /\ ~aged)

SourceVerdict ==
  IF "head" \in source /\ (Script => Fresh) THEN "ALREADY_APPLIED" ELSE "READY"

CommandVerdict ==
  IF params.hints # {} /\ params.hints \subseteq work THEN "ALREADY_APPLIED" ELSE "READY"

\* A text that the substitution does not change counts as substituted, before the
\* matches are counted.
ReplaceVerdict ==
  IF ~present THEN "INVALID"
  ELSE IF text.matches = "none" THEN "ALREADY_APPLIED"
  ELSE IF text.matches = "unexpected" THEN "INVALID"
  ELSE "READY"

Verdict(n) ==
  CASE n = 1 -> SourceVerdict
    [] n = 2 -> CommandVerdict
    [] n = 3 -> ReplaceVerdict

Proceeds(n) == outcome[n] \in {"SUCCESS", "SKIPPED_ALREADY_APPLIED", "SKIPPED_BY_TRANSITION"}

Released(n) == \A m \in Node : m < n => Proceeds(m)

\* A modification time that cannot be read makes the cache stale.
AssessState(n) ==
  /\ Released(n)
  /\ \E state \in {Verdict(n)} \cup
                  (IF faults THEN {"INVALID"} \cup {s \in {"READY"} : n = 1 /\ Script} ELSE {}) :
       Assess(n, state) \/ Verify(n, state)
  /\ UNCHANGED <<setVars, source, aged, work, fileVars, other, before>>

\* The exception leaves start(): there is no report, and no rollback.
Raises(n) == Goto(n, "raised") /\ UNCHANGED <<outcome, result, undo>>

\* Between two runs time may pass, and the administrator may write the file anew.
StartAgain ==
  /\ runs < MaxRuns
  /\ \A n \in Node : phase[n] \in {"done", "raised"} \/ ~Released(n)
  /\ runs' = runs + 1
  /\ aged' \in {aged, source # {}}
  /\ text' \in {text} \cup (IF present THEN {[Written("expected") EXCEPT !.edited = TRUE]} ELSE {})
  /\ before' = [source |-> source, text |-> text']
  /\ LifeAgain
  /\ UNCHANGED <<faults, params, nature, source, work, present, buffer, pre, other>>

\* Another program rewrites the file or removes it, once.
OtherEdits ==
  /\ other = "no"
  /\ present
  /\ phase[3] # "assess"
  /\ other' = (IF phase[3] \in {"write", "verify", "rollback"} THEN "raced" ELSE "edited")
  /\ \/ \E m \in Matches : text' = [text EXCEPT !.matches = m, !.edited = TRUE]
          /\ UNCHANGED present
     \/ present' = FALSE /\ text' = NoText
  /\ UNCHANGED <<setVars, source, aged, work, buffer, pre, before, lifeVars>>

-----------------------------------------------------------------------------
(* fetch_url_to_string and extract_archive.                                 *)

At(n, p)    == phase[n] = p
Succeeds(n) == Returns(n, "SUCCESS")
Fails(n)    == Returns(n, "FAILURE")

\* The body is written only when all of it has arrived and been decoded.  An error of
\* http.client that is no OSError is not translated.
Fetch ==
  /\ At(1, "transition") /\ Script
  /\ before' = [before EXCEPT !.source = source]
  /\ \/ source' = Contents /\ aged' = FALSE /\ Succeeds(1)
     \/ faults /\ (Fails(1) \/ Raises(1)) /\ UNCHANGED <<source, aged>>
     \/ faults /\ source' = {"head"} /\ aged' = FALSE /\ Fails(1)
  /\ UNCHANGED <<setVars, work, fileVars, other>>

\* What RealArchive.extract has written when it raises: members of a zip, and links
\* that a tar may not have, are refused when those before them are on the disk.
PartlyExtracted == {source \cup part : part \in SUBSET Whole}

Extract ==
  /\ At(1, "transition") /\ ~Script
  /\ before' = [before EXCEPT !.source = source]
  /\ \/ nature.archive = "sound" /\ source' = source \cup Whole /\ Succeeds(1)
     \/ /\ nature.archive # "sound" \/ faults
        /\ source' \in PartlyExtracted
        /\ \/ nature.archive = "odd" /\ Raises(1)
           \/ (nature.archive = "unsafe" \/ faults) /\ Fails(1)
  /\ UNCHANGED <<setVars, aged, work, fileVars, other>>

\* The inverse deletes the cache file, also one that was there before.
DeleteCache ==
  /\ At(1, "rollback") /\ Script
  /\ \/ source = {} /\ Undone(1, "SKIPPED") /\ UNCHANGED source
     \/ source # {} /\ source' = {} /\ Undone(1, "SUCCESS")
     \/ faults /\ Undone(1, "FAILURE") /\ UNCHANGED source
  /\ UNCHANGED <<setVars, aged, work, fileVars, other, before>>

-----------------------------------------------------------------------------
(* run_command.                                                             *)

\* A command that is given up (timeout, undecodable output) or exits with another
\* code may have done any of its work, and so may one that runs half a script; the
\* file is part of the rest.
Command ==
  /\ At(2, "transition")
  /\ \E part \in SUBSET Work :
       /\ work' = work \cup part
       /\ IF "rest" \in part /\ ~present
          THEN present' = TRUE /\ text' = Written("expected")
          ELSE UNCHANGED <<present, text>>
       /\ \/ part = Work /\ source = Whole /\ Succeeds(2)
          \/ source # Whole /\ (Succeeds(2) \/ Fails(2))
          \/ faults /\ Fails(2)
  /\ UNCHANGED <<setVars, source, aged, buffer, pre, other, before>>

NothingToUndo ==
  /\ \E n \in {1, 2} : (n = 1 => ~Script) /\ NoInverse(n)
  /\ UNCHANGED <<setVars, source, aged, work, fileVars, other, before>>

-----------------------------------------------------------------------------
(* replace_in_file.                                                         *)

\* _apply, where the number of matches is the one expected.
Applied(t) == [t EXCEPT !.matches = IF params.keeps THEN @ ELSE "none", !.new = @ + 1]

\* There is something to replace, or the count would be another one.  The text may
\* have become one that the substitution does not change.
ReadText ==
  /\ At(3, "transition")
  /\ before' = [before EXCEPT !.text = text]
  /\ \/ /\ present /\ text.matches = "expected"
        /\ buffer' = text
        /\ Goto(3, "write") /\ UNCHANGED <<outcome, result, undo>>
     \/ /\ ~present \/ text.matches # "expected" \/ faults
        /\ UNCHANGED buffer
        /\ Fails(3)
     \/ /\ present /\ text.matches = "none"
        /\ UNCHANGED buffer
        /\ Returns(3, "SKIPPED")
  /\ UNCHANGED <<setVars, source, aged, work, present, text, pre, other>>

Torn(t) == [t EXCEPT !.matches = "none", !.new = 0, !.torn = TRUE]

\* The file is emptied, or made, before the text is encoded; the text that was read
\* is captured when the new one has been written.
WriteText ==
  /\ At(3, "write")
  /\ buffer' = NoText
  /\ \/ /\ nature.encodes
        /\ present' = TRUE /\ text' = Applied(buffer) /\ pre' = {buffer}
        /\ Succeeds(3)
     \/ /\ faults \/ ~nature.encodes
        /\ present' = TRUE /\ text' = Torn(buffer) /\ UNCHANGED pre
        /\ IF nature.encodes THEN Fails(3) ELSE Raises(3)
     \/ faults /\ Fails(3) /\ UNCHANGED <<present, text, pre>>
  /\ UNCHANGED <<setVars, source, aged, work, other, before>>

\* The inverse puts back what was captured, whatever the file has become.
RestoreText ==
  /\ At(3, "rollback")
  /\ \/ (pre = {} \/ ~present) /\ Undone(3, "SKIPPED") /\ UNCHANGED text
     \/ /\ present
        /\ \E t \in pre : text' = t /\ Undone(3, "SUCCESS")
     \/ /\ present /\ pre # {} /\ faults
        /\ text' \in {text} \cup {Torn(t) : t \in pre}
        /\ Undone(3, "FAILURE")
  /\ UNCHANGED <<setVars, source, aged, work, present, buffer, pre, other, before>>

Next ==
  \/ \E n \in Node : AssessState(n)
  \/ StartAgain \/ OtherEdits
  \/ Fetch \/ Extract \/ DeleteCache \/ Command \/ NothingToUndo
  \/ ReadText \/ WriteText \/ RestoreText

Spec == Init /\ [][Next]_vars

-----------------------------------------------------------------------------
(* Properties.                                                              *)

TypeOK ==
  /\ LifeTypeOK
  /\ \A n \in Node : phase[n] \in {"assess", "transition", "write", "verify", "rollback",
                                   "raised", "done"}
  /\ {faults, aged, present} \subseteq BOOLEAN
  /\ params \in Params
  /\ nature \in Nature
  /\ source \subseteq Contents
  /\ work \subseteq Work
  /\ {text, buffer} \cup pre \subseteq Text
  /\ other \in {"no", "edited", "raced"}
  /\ runs \in 1 .. MaxRuns

\* A node that is reported as done is done completely: the source is whole, the
\* command has done all of its work, the text is no torn one.  The exceptions: an
\* earlier run broke off, and left what assess_state takes for the whole.
ReportedWhole ==
  \A n \in Node : outcome[n] \in {"SUCCESS", "SKIPPED_ALREADY_APPLIED"} =>
    \/ CASE n = 1 -> source = Whole
         [] n = 2 -> work = Work
         [] n = 3 -> ~text.torn \/ ~present
    \/ runs > 1 /\ (faults \/ nature.archive # "sound" \/ ~nature.encodes)

\* Without faults no second assessment is disappointed, except by a max_age of zero,
\* an archive without its sentinel, a command without hints or on half a tree, a
\* replacement that still matches, or another program.
EffectConfirmed ==
  ~faults =>
    /\ result[1] = "MISMATCH" => params.max_age = "zero" \/ ~nature.listed
    /\ result[2] = "MISMATCH" => params.hints = {} \/ source # Whole
    /\ result[3] = "MISMATCH" => params.keeps \/ other = "raced"

\* A cache file that is left torn has a rollback that failed, in this run or an
\* earlier one; an old one is lost only by a fetch that failed.
CacheKept ==
  Script /\ phase[1] = "done" =>
    /\ source = {"head"} => undo[1] = "FAILURE" \/ runs > 1
    /\ source = {} => outcome[1] # "SUCCESS" /\ (before.source # {} => result[1] # "NONE")

\* A rollback of replace_in_file that reports success puts back the text this run
\* has found, unless the transition has failed and an earlier run had captured
\* another one, or another program has acted in between.
TextRestored ==
  undo[3] = "SUCCESS" /\ present /\ other # "raced" =>
    text = before.text \/ other = "edited" \/ (runs > 1 /\ result[3] = "FAILURE")

\* What another program or the administrator has written is lost only to a race or to
\* a text captured in an earlier run, and a text is torn only by a write that fails or
\* raises.  Without faults and other programs nothing is replaced twice.
EditsKept ==
  /\ present /\ text.torn => faults \/ ~nature.encodes
  /\ before.text.edited /\ ~text.edited =>
       ~present \/ (runs > 1 /\ result[3] = "FAILURE") \/ other = "raced"
  /\ ~faults /\ other = "no" => text.new <= 1
=============================================================================
