--------------------------- MODULE InstallProofs ----------------------------
(***************************************************************************)
(* A cache file or a tree, a command and a text: each action of Install     *)
(* preserves InstallInv, the part of HostsInv about them.                   *)
(***************************************************************************)
EXTENDS AccountsProofs

USE DEF Ins!At, Ins!Succeeds, Ins!Fails, Ins!Raises, Ins!Returns, Ins!Failed, Ins!Goto,
        Ins!Report, Ins!Undone, Ins!NoInverse, Ins!setVars, Ins!fileVars, Ins!lifeVars,
        Three

\* The bound on the runs is positive.
LEMMA RunsBound == MaxRuns \in Nat /\ 0 \in 0 .. MaxRuns /\ 1 \in 1 .. MaxRuns
  BY BoundsAssumption

\* A text that another program has written is whole and has nothing replaced.
LEMMA WrittenFields ==
  ASSUME NEW m \in Ins!Matches
  PROVE  /\ Ins!Written(m) \in Ins!Text /\ Ins!Written(m).matches = m /\ Ins!Written(m).new = 0
         /\ ~Ins!Written(m).edited /\ ~Ins!Written(m).torn
  BY RunsBound DEF Ins!Text, Ins!Written

\* So is the text of a file that does not exist.
LEMMA NoTextFields ==
  /\ Ins!NoText \in Ins!Text /\ Ins!NoText.matches = "none" /\ Ins!NoText.new = 0
  /\ ~Ins!NoText.edited /\ Ins!NoText.torn
  BY RunsBound DEF Ins!Text, Ins!Written, Ins!NoText, Ins!Matches

\* What replacing and tearing do to a text.
LEMMA TextFields ==
  ASSUME NEW t \in Ins!Text
  PROVE  /\ t.matches \in Ins!Matches /\ t.new \in 0 .. MaxRuns
         /\ t.edited \in BOOLEAN /\ t.torn \in BOOLEAN
         /\ Ins!Torn(t) \in Ins!Text /\ Ins!Torn(t).matches = "none" /\ Ins!Torn(t).new = 0
         /\ Ins!Torn(t).edited = t.edited /\ Ins!Torn(t).torn
         /\ Ins!Applied(t).new = t.new + 1 /\ Ins!Applied(t).edited = t.edited
         /\ Ins!Applied(t).torn = t.torn
         /\ Ins!Applied(t).matches = (IF params.keeps THEN t.matches ELSE "none")
         /\ t.new < MaxRuns => Ins!Applied(t) \in Ins!Text
<1>1. /\ t.matches \in Ins!Matches /\ t.new \in 0 .. MaxRuns
      /\ t.edited \in BOOLEAN /\ t.torn \in BOOLEAN
  BY DEF Ins!Text
<1>2. Ins!Torn(t) \in Ins!Text
  BY RunsBound DEF Ins!Text, Ins!Torn, Ins!Matches
<1>3. Ins!Torn(t).matches = "none" /\ Ins!Torn(t).new = 0 /\ Ins!Torn(t).edited = t.edited
  BY DEF Ins!Text, Ins!Torn
<1>4. Ins!Torn(t).torn
  BY DEF Ins!Text, Ins!Torn
<1>5. ASSUME t.new < MaxRuns PROVE Ins!Applied(t) \in Ins!Text
  <2>1. t.new + 1 \in 0 .. MaxRuns
    BY <1>1, <1>5, RunsBound
  <2>2. CASE params.keeps
    BY <2>1, <2>2 DEF Ins!Text, Ins!Applied, Ins!Matches
  <2>3. CASE ~params.keeps
    BY <2>1, <2>3 DEF Ins!Text, Ins!Applied, Ins!Matches
  <2>. QED
    BY <2>2, <2>3
<1>6. /\ Ins!Applied(t).new = t.new + 1 /\ Ins!Applied(t).edited = t.edited
      /\ Ins!Applied(t).torn = t.torn
  BY DEF Ins!Text, Ins!Applied
<1>7. Ins!Applied(t).matches = (IF params.keeps THEN t.matches ELSE "none")
  BY DEF Ins!Text, Ins!Applied
<1>. QED
  BY <1>1, <1>2, <1>3, <1>4, <1>5, <1>6, <1>7

\* The inverse of replace_in_file, field by field.
LEMMA RestoreTextDoes ==
  ASSUME InstallInv, Ins!RestoreText
  PROVE /\ phase[3] = "rollback" /\ phase' = [phase EXCEPT ![3] = "done"]
        /\ outcome' = [outcome EXCEPT ![3] = "FAILED_TRANSITION"]
        /\ undo' = [undo EXCEPT ![3] = undo'[3]] /\ undo'[3] \in {"SUCCESS","FAILURE","SKIPPED"}
        /\ text' \in Ins!Text
        /\ \/ text' = text /\ undo'[3] # "SUCCESS" /\ (~faults => pre = {} \/ ~present)
           \/ present /\ undo'[3]="SUCCESS" /\ text' \in pre
           \/ present /\ faults /\ undo'[3] = "FAILURE" /\ \E t \in pre: text' = Ins!Torn(t)
        /\ UNCHANGED <<faults, params, nature, runs, source, aged, work, present, buffer,
                       pre, other, before, result>>
<1>1. text' \in Ins!Text
  BY TextFields DEF Ins!RestoreText, InstallInv, InstallType
<1>2. undo \in [Three -> {"SUCCESS", "FAILURE", "SKIPPED", "NONE"}]
  BY DEF InstallInv, InstallType, Ins!LifeTypeOK, Ins!Status
<1> QED
  BY <1>1, <1>2 DEF Ins!RestoreText

\* The write of replace_in_file, field by field.
LEMMA WriteTextDoes ==
  ASSUME InstallInv, Ins!WriteText
  PROVE  /\ phase[3] = "write" /\ text' \in Ins!Text /\ buffer' = Ins!NoText
         /\ \/ /\ present' /\ text' = Ins!Applied(buffer) /\ pre' = {buffer}
               /\ phase' = [phase EXCEPT ![3] = "verify"]
               /\ result' = [result EXCEPT ![3] = "SUCCESS"]
            \/ /\ faults \/ ~nature.encodes
               /\ present' /\ text' = Ins!Torn(buffer) /\ pre' = pre
               /\ \/ /\ faults
                     /\ phase' = [phase EXCEPT ![3] = "rollback"]
                     /\ result' = [result EXCEPT ![3] = "FAILURE"]
                  \/ phase' = [phase EXCEPT ![3] = "raised"] /\ result' = result
            \/ /\ faults /\ (present' <=> present) /\ UNCHANGED <<text, pre>>
               /\ phase' = [phase EXCEPT ![3] = "rollback"]
               /\ result' = [result EXCEPT ![3] = "FAILURE"]
         /\ UNCHANGED <<faults, params, nature, runs, source, aged, work, other, before,
                        outcome, undo>>
<1>0. buffer.new < MaxRuns /\ buffer \in Ins!Text /\ text \in Ins!Text /\ phase[3] = "write"
  <2>1. buffer \in Ins!Text /\ text \in Ins!Text /\ runs \in 1 .. MaxRuns /\ buffer.new < runs
    BY DEF InstallInv, InstallType, NewBound
  <2>2. buffer.new \in 0 .. MaxRuns
    BY <2>1 DEF Ins!Text
  <2>. QED
    BY <2>1, <2>2, RunsBound DEF Ins!WriteText
<1>1. text' \in Ins!Text
  BY <1>0, TextFields DEF Ins!WriteText
<1>2. nature.encodes \in BOOLEAN /\ faults \in BOOLEAN
  BY DEF InstallInv, InstallType, Ins!Nature
<1> QED
  BY <1>0, <1>1, <1>2 DEF Ins!WriteText

\* An edit of another program, field by field.
LEMMA EditDoes ==
  ASSUME InstallInv, Ins!OtherEdits
  PROVE /\ other = "no" /\ present /\ phase[3] # "assess"
        /\ other' = (IF phase[3] \in {"write", "verify", "rollback"} THEN "raced" ELSE "edited")
        /\ text' \in Ins!Text
        /\ \/ ~present' /\ text' = Ins!NoText
           \/ present' /\ text'.edited /\ text'.new = text.new /\ text'.torn = text.torn
        /\ UNCHANGED <<faults, params, nature, runs, source, aged, work, buffer, pre,
                       before, phase, outcome, result, undo>>
<1>1. Ins!NoText \in Ins!Text
  BY RunsBound DEF Ins!NoText, Ins!Text, Ins!Written, Ins!Matches
<1>2. text \in Ins!Text
  BY DEF InstallInv, InstallType
<1>3. \A m \in Ins!Matches : LET e == [text EXCEPT !.matches = m, !.edited = TRUE]
         IN e \in Ins!Text /\ e.edited /\ e.new = text.new /\ e.torn = text.torn
  BY <1>2 DEF Ins!Text
<1> QED
  BY <1>1, <1>2, <1>3 DEF Ins!OtherEdits

\* An extraction adds what the archive has.
LEMMA ExtractContents ==
  ASSUME InstallInv, Ins!Extract
  PROVE  (source \subseteq Ins!Contents)'
<1>1. source \subseteq Ins!Contents /\ Ins!Whole \subseteq Ins!Contents
  BY DEF InstallInv, InstallType, Ins!Whole, Ins!Contents
<1>2. source' = source \cup Ins!Whole \/ \E part \in SUBSET Ins!Whole : source' = source \cup part
  BY DEF Ins!Extract, Ins!PartlyExtracted
<1>. QED
  BY <1>1, <1>2

\* A command may write the file anew.
LEMMA CommandText ==
  ASSUME InstallInv, Ins!Command
  PROVE  text' \in Ins!Text
<1>1. text' = text \/ text' = Ins!Written("expected")
  BY DEF Ins!Command
<1>. QED
  BY <1>1, WrittenFields DEF InstallInv, InstallType, Ins!Matches

\* A restored file is there or not.
LEMMA RestorePresent ==
  ASSUME InstallInv, Ins!RestoreText
  PROVE  (present \in BOOLEAN)'
  BY DEF InstallInv, InstallType, Ins!RestoreText

\* A written file is there or not.
LEMMA WritePresent ==
  ASSUME InstallInv, Ins!WriteText
  PROVE  (present \in BOOLEAN)'
  BY DEF InstallInv, InstallType, Ins!WriteText

\* An edited file is there or not.
LEMMA EditPresent ==
  ASSUME InstallInv, Ins!OtherEdits
  PROVE  (present \in BOOLEAN)'
  BY DEF InstallInv, InstallType, Ins!OtherEdits

\* What assess_state of a node decides when nothing fails.
LEMMA InstallAssessed ==
  ASSUME NEW n \in Three, InstallInv, Ins!AssessState(n), ~faults
  PROVE  LET v == Ins!Verdict(n)
         IN  \/ /\ phase[n] = "assess" /\ UNCHANGED result
                /\ \/ v = "READY" /\ phase' = [phase EXCEPT ![n] = "transition"]
                      /\ UNCHANGED outcome
                   \/ v = "ALREADY_APPLIED" /\ phase' = [phase EXCEPT ![n] = "done"]
                      /\ outcome' = [outcome EXCEPT ![n] = "SKIPPED_ALREADY_APPLIED"]
                   \/ v = "INVALID" /\ phase' = [phase EXCEPT ![n] = "done"]
                      /\ outcome' = [outcome EXCEPT ![n] = "FAILED_INVALID"]
             \/ /\ phase[n] = "verify"
                /\ \/ v = "ALREADY_APPLIED" /\ phase' = [phase EXCEPT ![n] = "done"]
                      /\ outcome' = [outcome EXCEPT ![n] = "SUCCESS"] /\ UNCHANGED result
                   \/ v # "ALREADY_APPLIED" /\ phase' = [phase EXCEPT ![n] = "rollback"]
                      /\ result' = [result EXCEPT ![n] = "MISMATCH"] /\ UNCHANGED outcome
  BY DEF Ins!AssessState, Ins!Assess, Ins!Verify

\* A calm host stays calm: every node finds itself applied.
LEMMA InstallAssessCalm ==
  ASSUME NEW n \in Three, InstallInv, Ins!AssessState(n), calm' = CalmNext
  PROVE  InstallCalm'
<1>0. UNCHANGED <<faults, params, nature, runs, source, aged, work, present, text, other>>
  BY DEF Ins!AssessState
<1>1. SUFFICES ASSUME calm' PROVE InstallCalm'
  BY DEF InstallCalm
<1>2. calm /\ ~faults /\ other = "no"
  BY <1>0, <1>1, CalmKept DEF InstallInv, InstallCalm
<1>3. \A m \in Three : (Ins!Verdict(m) = "ALREADY_APPLIED")'
  BY <1>0, <1>2 DEF InstallInv, InstallCalm, Ins!Verdict, Ins!SourceVerdict,
                    Ins!CommandVerdict, Ins!ReplaceVerdict, Ins!Script, Ins!Fresh
<1>4. \A m \in Three : /\ phase'[m] \in {"assess", "done"}
                       /\ outcome'[m] \in {"NONE", "SKIPPED_ALREADY_APPLIED"}
  BY <1>2, InstallAssessed DEF InstallInv, InstallCalm, InstallLife, InstallType,
                               Ins!LifeTypeOK
<1>. QED
  BY <1>0, <1>2, <1>3, <1>4 DEF InstallCalm

\* The second assessment rejects a source only if max_age is zero or the sentinel is none of
\* the archive.
LEMMA SourceMismatch ==
  ASSUME InstallInv, Ins!AssessState(1), ~faults
  PROVE  (result[1] = "MISMATCH" => params.max_age = "zero" \/ ~nature.listed)'
<1>0. UNCHANGED <<params, nature>>
  BY DEF Ins!AssessState
<1>1. phase[1] = "verify" =>
        Ins!Verdict(1) = "ALREADY_APPLIED" \/ params.max_age = "zero" \/ ~nature.listed
  BY DEF InstallInv, InstallType, SourceInv, Ins!Params, Ins!Verdict, Ins!SourceVerdict,
         Ins!Script, Ins!Fresh, Ins!Whole, Ins!Contents
<1>2. result \in [Three -> {"SUCCESS", "FAILURE", "SKIPPED", "NONE", "MISMATCH"}]
  BY DEF InstallInv, InstallType, Ins!LifeTypeOK, Ins!Status
<1>. QED
  BY <1>0, <1>1, <1>2, InstallAssessed DEF InstallInv, Ins!EffectConfirmed

\* A rollback that reports success restores what this run has found.
LEMMA RestoreRestores ==
  ASSUME InstallInv, Ins!RestoreText
  PROVE  Ins!TextRestored'
<1>1. SUFFICES ASSUME undo'[3] = "SUCCESS", present', other' # "raced"
              PROVE  (text = before.text \/ other = "edited" \/ (runs > 1 /\ result[3] = "FAILURE"))'
  BY DEF Ins!TextRestored
<1>2. phase[3] = "rollback" /\ text' \in pre /\ UNCHANGED <<before, other, runs, result>>
  <2>1. undo \in [Three -> {"SUCCESS", "FAILURE", "SKIPPED", "NONE"}]
    BY DEF InstallInv, InstallType, Ins!LifeTypeOK, Ins!Status
  <2>. QED
    BY <1>1, <2>1 DEF Ins!RestoreText
<1>3. result[3] \in {"FAILURE", "MISMATCH"} /\ runs \in 1 .. MaxRuns
  BY <1>2 DEF InstallInv, InstallLife, InstallType, LifeOf, Undoing
<1>. QED
  BY <1>2, <1>3, RunsBound DEF InstallInv, CaptureInv

\* An assessment leaves what has been reported as it was, and reports what it has found.
LEMMA InstallAssessSettled ==
  ASSUME NEW n \in Three, InstallInv, Ins!AssessState(n)
  PROVE  InstallSettled'
<1>0. UNCHANGED <<faults, params, nature, runs, source, aged, work, present, text, other>>
  BY DEF Ins!AssessState
<1>1. \A m \in Three : Ins!Verdict(m)' = Ins!Verdict(m)
  BY <1>0 DEF Ins!Verdict, Ins!SourceVerdict, Ins!CommandVerdict, Ins!ReplaceVerdict,
              Ins!Script, Ins!Fresh
<1>2. \A m \in Three : Proceeded(m)' => Proceeded(m) \/ Ins!Verdict(m) = "ALREADY_APPLIED"
  BY DEF Proceeded, Ins!AssessState, Ins!Assess, Ins!Verify, InstallInv, InstallType,
         Ins!LifeTypeOK
<1>. QED
  BY <1>0, <1>1, <1>2 DEF InstallInv, InstallSettled

\* A restored text has not been replaced, or has no match left.
LEMMA RestoreOnce ==
  ASSUME InstallInv, Ins!RestoreText
  PROVE  (~faults /\ other = "no" => (text.new = 1 => text.matches = "none"))'
<1>1. SUFFICES ASSUME ~faults', other' = "no", text'.new = 1 PROVE text'.matches = "none"
  OBVIOUS
<1>2. ~faults /\ other = "no" /\ OnceInv /\ CaptureInv /\ phase[3] = "rollback"
  BY <1>1, RestoreTextDoes DEF InstallInv
<1>3. CASE text' \in pre
  BY <1>1, <1>2, <1>3 DEF OnceInv
<1>4. CASE text' = text /\ (pre = {} \/ ~present)
  BY <1>1, <1>2, <1>4 DEF OnceInv, CaptureInv, InstallInv, InstallLife, LifeOf, Undoing
<1>. QED
  BY <1>2, <1>3, <1>4, RestoreTextDoes

-----------------------------------------------------------------------------
(* The actions.                                                             *)

\* fetch_url_to_string.
LEMMA FetchStep ==
  ASSUME InstallInv,
         Ins!Fetch,
         calm' = CalmNext
  PROVE  InstallInv'
<1>1. InstallLife'
  BY DEF Ins!Fetch, InstallLife, LifeOf, InOrder, Proceeded, Undoing, InstallInv,
         InstallType, Ins!LifeTypeOK
<1>2. InstallType'
  <2>1. (Ins!LifeTypeOK)'
    BY DEF Ins!Fetch, InstallType, InstallInv, Ins!LifeTypeOK, Ins!Status
  <2>2. (phase \in [Three -> {"assess", "transition", "write", "verify", "rollback", "raised",
                             "done"}])'
    BY DEF Ins!Fetch, InstallType, InstallInv
  <2>3. (faults \in BOOLEAN)'
    BY DEF Ins!Fetch, InstallType, InstallInv
  <2>4. (aged \in BOOLEAN)'
    BY DEF Ins!Fetch, InstallType, InstallInv
  <2>5. (present \in BOOLEAN)'
    BY DEF Ins!Fetch, InstallType, InstallInv
  <2>6. (params \in Ins!Params)'
    BY DEF Ins!Fetch, InstallType, InstallInv
  <2>7. (nature \in Ins!Nature)'
    BY DEF Ins!Fetch, InstallType, InstallInv
  <2>8. (source \subseteq Ins!Contents)'
    BY DEF Ins!Fetch, InstallType, InstallInv, Ins!Contents
  <2>9. (work \subseteq Ins!Work)'
    BY DEF Ins!Fetch, InstallType, InstallInv
  <2>10. (text \in Ins!Text)'
    BY DEF Ins!Fetch, InstallType, InstallInv
  <2>11. (buffer \in Ins!Text)'
    BY DEF Ins!Fetch, InstallType, InstallInv
  <2>12. (pre \subseteq Ins!Text)'
    BY DEF Ins!Fetch, InstallType, InstallInv
  <2>13. (before.text \in Ins!Text)'
    BY DEF Ins!Fetch, InstallType, InstallInv
  <2>14. (other \in {"no", "edited", "raced"})'
    BY DEF Ins!Fetch, InstallType, InstallInv
  <2>15. (runs \in 1 .. MaxRuns)'
    BY DEF Ins!Fetch, InstallType, InstallInv
  <2>16. (before = [source |-> before.source, text |-> before.text])'
    BY DEF Ins!Fetch, InstallType, InstallInv
  <2>. QED
    BY <2>1, <2>2, <2>3, <2>4, <2>5, <2>6, <2>7, <2>8, <2>9, <2>10, <2>11, <2>12, <2>13,
       <2>14, <2>15, <2>16
       DEF InstallType
<1>3. NewBound'
  BY DEF Ins!Fetch, NewBound, InstallInv, InstallType
<1>4. SourceInv'
  BY DEF Ins!Fetch, SourceInv, Ins!Whole, Ins!Contents, Proceeded, InstallInv, InstallLife,
         InstallType, LifeOf, Ins!LifeTypeOK
<1>5. WorkInv'
  BY DEF Ins!Fetch, WorkInv, Clean, Proceeded, InstallInv, InstallLife, InstallType, LifeOf,
         Undoing, InOrder
<1>6. TornInv'
  BY DEF Ins!Fetch, TornInv, InstallInv, InstallType, Ins!LifeTypeOK
<1>7. CaptureInv'
  BY DEF Ins!Fetch, CaptureInv, InstallInv, InstallType, Ins!LifeTypeOK
<1>8. OnceInv'
  BY DEF Ins!Fetch, OnceInv, InstallInv, InstallType, Ins!LifeTypeOK
<1>9. InstallSettled'
  BY DEF Ins!Fetch, InstallSettled, Proceeded, Ins!Verdict, Ins!SourceVerdict,
         Ins!CommandVerdict, Ins!ReplaceVerdict, Ins!Fresh, InstallInv, InstallType
<1>10. InstallCalm'
  BY CalmKept DEF Ins!Fetch, InstallCalm, InstallInv
<1>11. Ins!EffectConfirmed'
  BY DEF Ins!Fetch, Ins!EffectConfirmed, InstallInv, InstallLife, InstallType, LifeOf,
         Undoing, Ins!LifeTypeOK, InOrder, Proceeded
<1>12. Ins!CacheKept'
  BY DEF Ins!Fetch, Ins!CacheKept, InstallInv, InstallType
<1>13. Ins!TextRestored'
  BY DEF Ins!Fetch, Ins!TextRestored, InstallInv, InstallType, Ins!LifeTypeOK
<1>14. Ins!EditsKept'
  BY DEF Ins!Fetch, Ins!EditsKept, InstallInv, InstallType, Ins!LifeTypeOK
<1>15. SkipInv'
  BY DEF Ins!Fetch, SkipInv, InstallInv, InstallType, Ins!LifeTypeOK
<1>. QED
  BY <1>1, <1>2, <1>3, <1>4, <1>5, <1>6, <1>7, <1>8, <1>9, <1>10, <1>11, <1>12, <1>13, <1>14,
     <1>15
     DEF InstallInv

\* extract_archive.
LEMMA ExtractStep ==
  ASSUME InstallInv,
         Ins!Extract,
         calm' = CalmNext
  PROVE  InstallInv'
<1>1. InstallLife'
  BY DEF Ins!Extract, InstallLife, LifeOf, InOrder, Proceeded, Undoing, InstallInv,
         InstallType, Ins!LifeTypeOK
<1>2. InstallType'
  <2>1. (Ins!LifeTypeOK)'
    BY DEF Ins!Extract, InstallType, InstallInv, Ins!LifeTypeOK, Ins!Status
  <2>2. (phase \in [Three -> {"assess", "transition", "write", "verify", "rollback", "raised",
                             "done"}])'
    BY DEF Ins!Extract, InstallType, InstallInv
  <2>3. (faults \in BOOLEAN)'
    BY DEF Ins!Extract, InstallType, InstallInv
  <2>4. (aged \in BOOLEAN)'
    BY DEF Ins!Extract, InstallType, InstallInv
  <2>5. (present \in BOOLEAN)'
    BY DEF Ins!Extract, InstallType, InstallInv
  <2>6. (params \in Ins!Params)'
    BY DEF Ins!Extract, InstallType, InstallInv
  <2>7. (nature \in Ins!Nature)'
    BY DEF Ins!Extract, InstallType, InstallInv
  <2>8. (source \subseteq Ins!Contents)'
    BY ExtractContents
  <2>9. (work \subseteq Ins!Work)'
    BY DEF Ins!Extract, InstallType, InstallInv
  <2>10. (text \in Ins!Text)'
    BY DEF Ins!Extract, InstallType, InstallInv
  <2>11. (buffer \in Ins!Text)'
    BY DEF Ins!Extract, InstallType, InstallInv
  <2>12. (pre \subseteq Ins!Text)'
    BY DEF Ins!Extract, InstallType, InstallInv
  <2>13. (before.text \in Ins!Text)'
    BY DEF Ins!Extract, InstallType, InstallInv
  <2>14. (other \in {"no", "edited", "raced"})'
    BY DEF Ins!Extract, InstallType, InstallInv
  <2>15. (runs \in 1 .. MaxRuns)'
    BY DEF Ins!Extract, InstallType, InstallInv
  <2>16. (before = [source |-> before.source, text |-> before.text])'
    BY DEF Ins!Extract, InstallType, InstallInv
  <2>. QED
    BY <2>1, <2>2, <2>3, <2>4, <2>5, <2>6, <2>7, <2>8, <2>9, <2>10, <2>11, <2>12, <2>13,
       <2>14, <2>15, <2>16
       DEF InstallType
<1>3. NewBound'
  BY DEF Ins!Extract, NewBound, InstallInv, InstallType
<1>4. SourceInv'
  BY DEF Ins!Extract, Ins!PartlyExtracted, SourceInv, Ins!Script, Ins!Whole, Ins!Contents,
         Clean, Proceeded, InstallInv, InstallType, Ins!LifeTypeOK
<1>5. WorkInv'
  BY DEF Ins!Extract, WorkInv, Clean, Proceeded, InstallInv, InstallLife, InstallType,
         LifeOf, Undoing, InOrder
<1>6. TornInv'
  BY DEF Ins!Extract, TornInv, InstallInv, InstallType, Ins!LifeTypeOK
<1>7. CaptureInv'
  BY DEF Ins!Extract, CaptureInv, InstallInv, InstallType, Ins!LifeTypeOK
<1>8. OnceInv'
  BY DEF Ins!Extract, OnceInv, InstallInv, InstallType, Ins!LifeTypeOK
<1>9. InstallSettled'
  BY DEF Ins!Extract, Ins!PartlyExtracted, InstallSettled, Proceeded, Ins!Verdict,
         Ins!SourceVerdict, Ins!CommandVerdict, Ins!ReplaceVerdict, Ins!Script, InstallInv
<1>10. InstallCalm'
  BY CalmKept DEF Ins!Extract, InstallCalm, InstallInv
<1>11. Ins!EffectConfirmed'
  BY DEF Ins!Extract, Ins!EffectConfirmed, InstallInv, InstallLife, InstallType, LifeOf,
         Undoing, Ins!LifeTypeOK, InOrder, Proceeded
<1>12. Ins!CacheKept'
  BY DEF Ins!Extract, Ins!CacheKept, Ins!Script
<1>13. Ins!TextRestored'
  BY DEF Ins!Extract, Ins!TextRestored, InstallInv, InstallType, Ins!LifeTypeOK
<1>14. Ins!EditsKept'
  BY DEF Ins!Extract, Ins!EditsKept, InstallInv, InstallType, Ins!LifeTypeOK
<1>15. SkipInv'
  BY DEF Ins!Extract, SkipInv, InstallInv, InstallType, Ins!LifeTypeOK
<1>. QED
  BY <1>1, <1>2, <1>3, <1>4, <1>5, <1>6, <1>7, <1>8, <1>9, <1>10, <1>11, <1>12, <1>13, <1>14,
     <1>15
     DEF InstallInv

\* The inverse of fetch_url_to_string.
LEMMA DeleteCacheStep ==
  ASSUME InstallInv,
         Ins!DeleteCache,
         calm' = CalmNext
  PROVE  InstallInv'
<1>1. InstallLife'
  BY DEF Ins!DeleteCache, InstallLife, LifeOf, InOrder, Proceeded, Undoing, InstallInv,
         InstallType, Ins!LifeTypeOK
<1>2. InstallType'
  BY DEF Ins!DeleteCache, InstallType, InstallInv, Ins!LifeTypeOK, Ins!Status
<1>3. NewBound'
  BY DEF Ins!DeleteCache, NewBound, InstallInv, InstallType
<1>4. SourceInv'
  BY DEF Ins!DeleteCache, SourceInv, Ins!Whole, Proceeded, InstallInv, InstallLife,
         InstallType, LifeOf, Undoing, Ins!LifeTypeOK
<1>5. WorkInv'
  BY DEF Ins!DeleteCache, WorkInv, Clean, Proceeded, Ins!Whole, InstallInv, InstallType,
         Ins!LifeTypeOK
<1>6. TornInv'
  BY DEF Ins!DeleteCache, TornInv, InstallInv, InstallType
<1>7. CaptureInv'
  BY DEF Ins!DeleteCache, CaptureInv, InstallInv, InstallType
<1>8. OnceInv'
  BY DEF Ins!DeleteCache, OnceInv, InstallInv, InstallType
<1>9. InstallSettled'
  BY DEF Ins!DeleteCache, InstallSettled, Proceeded, Ins!Verdict, Ins!CommandVerdict,
         Ins!ReplaceVerdict, InstallInv, InstallType, Ins!LifeTypeOK
<1>10. InstallCalm'
  BY CalmKept DEF Ins!DeleteCache, InstallCalm, InstallInv
<1>11. Ins!EffectConfirmed'
  BY DEF Ins!DeleteCache, Ins!EffectConfirmed, Ins!Whole, InstallInv, InstallType
<1>12. Ins!CacheKept'
  BY DEF Ins!DeleteCache, Ins!CacheKept, InstallInv, InstallLife, InstallType, LifeOf,
         Undoing, Ins!LifeTypeOK
<1>13. Ins!TextRestored'
  BY DEF Ins!DeleteCache, Ins!TextRestored, InstallInv, InstallType, Ins!LifeTypeOK
<1>14. Ins!EditsKept'
  BY DEF Ins!DeleteCache, Ins!EditsKept, InstallInv
<1>15. SkipInv'
  BY DEF Ins!DeleteCache, SkipInv, InstallInv, InstallType, Ins!LifeTypeOK
<1>. QED
  BY <1>1, <1>2, <1>3, <1>4, <1>5, <1>6, <1>7, <1>8, <1>9, <1>10, <1>11, <1>12, <1>13, <1>14,
     <1>15
     DEF InstallInv

\* run_command.
LEMMA CommandStep ==
  ASSUME InstallInv,
         Ins!Command,
         calm' = CalmNext
  PROVE  InstallInv'
<1>1. InstallLife'
  BY DEF Ins!Command, InstallLife, LifeOf, InOrder, Proceeded, Undoing, InstallInv,
         InstallType, Ins!LifeTypeOK
<1>2. InstallType'
  <2>1. (Ins!LifeTypeOK)'
    BY DEF Ins!Command, InstallType, InstallInv, Ins!LifeTypeOK, Ins!Status
  <2>2. (phase \in [Three -> {"assess", "transition", "write", "verify", "rollback", "raised",
                             "done"}])'
    BY DEF Ins!Command, InstallType, InstallInv
  <2>3. (faults \in BOOLEAN)'
    BY DEF Ins!Command, InstallType, InstallInv
  <2>4. (aged \in BOOLEAN)'
    BY DEF Ins!Command, InstallType, InstallInv
  <2>5. (present \in BOOLEAN)'
    BY DEF Ins!Command, Ins!Written, InstallType, InstallInv
  <2>6. (params \in Ins!Params)'
    BY DEF Ins!Command, InstallType, InstallInv
  <2>7. (nature \in Ins!Nature)'
    BY DEF Ins!Command, InstallType, InstallInv
  <2>8. (source \subseteq Ins!Contents)'
    BY DEF Ins!Command, InstallType, InstallInv
  <2>9. (work \subseteq Ins!Work)'
    BY DEF Ins!Command, InstallType, InstallInv
  <2>10. (text \in Ins!Text)'
    BY CommandText
  <2>11. (buffer \in Ins!Text)'
    BY DEF Ins!Command, InstallType, InstallInv
  <2>12. (pre \subseteq Ins!Text)'
    BY DEF Ins!Command, InstallType, InstallInv
  <2>13. (before.text \in Ins!Text)'
    BY DEF Ins!Command, InstallType, InstallInv
  <2>14. (other \in {"no", "edited", "raced"})'
    BY DEF Ins!Command, InstallType, InstallInv
  <2>15. (runs \in 1 .. MaxRuns)'
    BY DEF Ins!Command, InstallType, InstallInv
  <2>16. (before = [source |-> before.source, text |-> before.text])'
    BY DEF Ins!Command, InstallType, InstallInv
  <2>. QED
    BY <2>1, <2>2, <2>3, <2>4, <2>5, <2>6, <2>7, <2>8, <2>9, <2>10, <2>11, <2>12, <2>13,
       <2>14, <2>15, <2>16
       DEF InstallType
<1>3. NewBound'
  BY DEF Ins!Command, Ins!Written, NewBound, InstallInv, InstallType
<1>4. SourceInv'
  BY DEF Ins!Command, SourceInv, Ins!Script, Ins!Whole, Clean, Proceeded, InstallInv,
         InstallType, Ins!LifeTypeOK
<1>5. WorkInv'
  BY DEF Ins!Command, WorkInv, Clean, Proceeded, Ins!Whole, InstallInv, InstallLife,
         InstallType, Ins!LifeTypeOK, InOrder, SourceInv
<1>6. TornInv'
  BY DEF Ins!Command, Ins!Written, TornInv, InstallInv, InstallType, Ins!LifeTypeOK
<1>7. CaptureInv'
  BY DEF Ins!Command, Ins!Written, CaptureInv, InstallInv, InstallType, Ins!LifeTypeOK,
         TornInv, Ins!NoText
<1>8. OnceInv'
  BY DEF Ins!Command, Ins!Written, OnceInv, InstallInv, InstallType, Ins!LifeTypeOK
<1>9. InstallSettled'
  BY DEF Ins!Command, InstallSettled, Proceeded, Ins!Verdict, Ins!SourceVerdict,
         Ins!CommandVerdict, Ins!ReplaceVerdict, Ins!Script, Ins!Fresh, InstallInv
<1>10. InstallCalm'
  BY CalmKept DEF Ins!Command, InstallCalm, InstallInv
<1>11. Ins!EffectConfirmed'
  BY DEF Ins!Command, Ins!EffectConfirmed, InstallInv, InstallType, Ins!LifeTypeOK
<1>12. Ins!CacheKept'
  BY DEF Ins!Command, Ins!CacheKept, Ins!Script, InstallInv, InstallType, Ins!LifeTypeOK
<1>13. Ins!TextRestored'
  BY DEF Ins!Command, Ins!TextRestored, InstallInv, InstallLife, LifeOf, InOrder, Proceeded
<1>14. Ins!EditsKept'
  BY DEF Ins!Command, Ins!Written, Ins!EditsKept, TornInv, CaptureInv, InstallInv,
         InstallLife, LifeOf, InOrder, Proceeded, Ins!NoText
<1>15. SkipInv'
  BY DEF Ins!Command, SkipInv, InstallInv, InstallLife, InstallType, Ins!LifeTypeOK, InOrder,
         Proceeded, LifeOf
<1>. QED
  BY <1>1, <1>2, <1>3, <1>4, <1>5, <1>6, <1>7, <1>8, <1>9, <1>10, <1>11, <1>12, <1>13, <1>14,
     <1>15
     DEF InstallInv

\* A command and an archive have no inverse.
LEMMA NothingToUndoStep ==
  ASSUME InstallInv,
         Ins!NothingToUndo,
         calm' = CalmNext
  PROVE  InstallInv'
<1>1. InstallLife'
  BY DEF Ins!NothingToUndo, InstallLife, LifeOf, InOrder, Proceeded, Undoing, InstallInv,
         InstallType, Ins!LifeTypeOK
<1>2. InstallType'
  BY DEF Ins!NothingToUndo, InstallType, InstallInv, Ins!LifeTypeOK
<1>3. NewBound'
  BY DEF Ins!NothingToUndo, NewBound, InstallInv
<1>4. SourceInv'
  BY DEF Ins!NothingToUndo, SourceInv, Ins!Script, Ins!Whole, Clean, Proceeded, InstallInv
<1>5. WorkInv'
  BY DEF Ins!NothingToUndo, WorkInv, Clean, Proceeded, Ins!Whole, InstallInv
<1>6. TornInv'
  BY DEF Ins!NothingToUndo, TornInv, InstallInv
<1>7. CaptureInv'
  BY DEF Ins!NothingToUndo, CaptureInv, InstallInv
<1>8. OnceInv'
  BY DEF Ins!NothingToUndo, OnceInv, InstallInv
<1>9. InstallSettled'
  BY DEF Ins!NothingToUndo, InstallSettled, Proceeded, Ins!Verdict, Ins!SourceVerdict,
         Ins!CommandVerdict, Ins!ReplaceVerdict, Ins!Script, Ins!Fresh, InstallInv
<1>10. InstallCalm'
  BY CalmKept DEF Ins!NothingToUndo, InstallCalm, InstallInv
<1>11. Ins!EffectConfirmed'
  BY DEF Ins!NothingToUndo, Ins!EffectConfirmed, Ins!Whole, InstallInv
<1>12. Ins!CacheKept'
  BY DEF Ins!NothingToUndo, Ins!CacheKept, Ins!Script, InstallInv
<1>13. Ins!TextRestored'
  BY DEF Ins!NothingToUndo, Ins!TextRestored, InstallInv
<1>14. Ins!EditsKept'
  BY DEF Ins!NothingToUndo, Ins!EditsKept, InstallInv
<1>15. SkipInv'
  BY DEF Ins!NothingToUndo, SkipInv, InstallInv, InstallType, Ins!LifeTypeOK
<1>. QED
  BY <1>1, <1>2, <1>3, <1>4, <1>5, <1>6, <1>7, <1>8, <1>9, <1>10, <1>11, <1>12, <1>13, <1>14,
     <1>15
     DEF InstallInv

\* replace_in_file reads the text.
LEMMA ReadTextStep ==
  ASSUME InstallInv,
         Ins!ReadText,
         calm' = CalmNext
  PROVE  InstallInv'
<1>1. InstallLife'
  BY DEF Ins!ReadText, InstallLife, LifeOf, InOrder, Proceeded, Undoing, InstallInv,
         InstallType, Ins!LifeTypeOK
<1>2. InstallType'
  BY DEF Ins!ReadText, InstallType, InstallInv, Ins!LifeTypeOK, Ins!Status
<1>3. NewBound'
  BY DEF Ins!ReadText, NewBound, InstallInv
<1>4. SourceInv'
  BY DEF Ins!ReadText, SourceInv, Ins!Script, Ins!Whole, Clean, Proceeded, InstallInv,
         InstallType, Ins!LifeTypeOK
<1>5. WorkInv'
  BY DEF Ins!ReadText, WorkInv, Clean, Proceeded, Ins!Whole, InstallInv, InstallType,
         Ins!LifeTypeOK
<1>6. TornInv'
  BY DEF Ins!ReadText, TornInv, InstallInv, InstallLife, InstallType, LifeOf, Undoing
<1>7. CaptureInv'
  BY DEF Ins!ReadText, CaptureInv, InstallInv, InstallLife, InstallType, LifeOf, Undoing,
         Ins!LifeTypeOK
<1>8. OnceInv'
  BY DEF Ins!ReadText, OnceInv, InstallInv, InstallType, Ins!LifeTypeOK, Ins!Text
<1>9. InstallSettled'
  <2>1. \A n \in Three : Proceeded(n)' => Proceeded(n)
    BY DEF Ins!ReadText, Proceeded, InstallInv, InstallLife, LifeOf, InstallType,
           Ins!LifeTypeOK, Three
  <2>2. \A n \in Three : (Ins!Verdict(n) = "ALREADY_APPLIED")
                        = (Ins!Verdict(n) = "ALREADY_APPLIED")'
    BY DEF Ins!ReadText, Ins!Verdict, Ins!SourceVerdict, Ins!CommandVerdict,
           Ins!ReplaceVerdict, Ins!Script, Ins!Fresh
  <2>. QED
    BY <2>1, <2>2 DEF InstallSettled, InstallInv, Ins!ReadText
<1>10. InstallCalm'
  BY CalmKept DEF Ins!ReadText, InstallCalm, InstallInv
<1>11. Ins!EffectConfirmed'
  BY DEF Ins!ReadText, Ins!EffectConfirmed, Ins!Whole, InstallInv, InstallType,
         Ins!LifeTypeOK
<1>12. Ins!CacheKept'
  BY DEF Ins!ReadText, Ins!CacheKept, Ins!Script, InstallInv, InstallType, Ins!LifeTypeOK
<1>13. Ins!TextRestored'
  BY DEF Ins!ReadText, Ins!TextRestored
<1>14. Ins!EditsKept'
  BY DEF Ins!ReadText, Ins!EditsKept, InstallInv
<1>15. SkipInv'
  BY DEF Ins!ReadText, SkipInv, InstallInv, InstallType, Ins!LifeTypeOK
<1>. QED
  BY <1>1, <1>2, <1>3, <1>4, <1>5, <1>6, <1>7, <1>8, <1>9, <1>10, <1>11, <1>12, <1>13, <1>14,
     <1>15
     DEF InstallInv

\* The inverse writes the captured text.
LEMMA RestoreTextStep ==
  ASSUME InstallInv,
         Ins!RestoreText,
         calm' = CalmNext
  PROVE  InstallInv'
<1>1. InstallLife'
  BY RestoreTextDoes, TextFields, NoTextFields DEF InstallLife, LifeOf, InOrder, Proceeded,
       Undoing, InstallInv, InstallType, Ins!LifeTypeOK
<1>2. InstallType'
  BY RestoreTextDoes, TextFields, NoTextFields DEF InstallType, InstallInv, Ins!LifeTypeOK,
       Ins!Status
<1>3. NewBound'
  <2>1. (text.new <= runs)'
    BY RestoreTextDoes, TextFields, NoTextFields DEF NewBound, InstallInv, InstallType
  <2>2. (phase[3] \in {"assess", "transition", "write"} => text.new < runs)'
    BY RestoreTextDoes, TextFields, NoTextFields DEF NewBound, InstallInv, InstallType
  <2>3. (buffer.new < runs)'
    BY RestoreTextDoes, TextFields, NoTextFields DEF NewBound, InstallInv
  <2>4. (\A t \in pre : t.new < runs)'
    BY RestoreTextDoes, TextFields, NoTextFields DEF NewBound, InstallInv
  <2>. QED
    BY <2>1, <2>2, <2>3, <2>4 DEF NewBound
<1>4. SourceInv'
  BY RestoreTextDoes, TextFields, NoTextFields DEF SourceInv, Ins!Script, Ins!Whole, Clean,
       Proceeded, InstallInv, InstallType, Ins!LifeTypeOK
<1>5. WorkInv'
  BY RestoreTextDoes, TextFields, NoTextFields DEF WorkInv, Clean, Proceeded, Ins!Whole,
       InstallInv, InstallType, Ins!LifeTypeOK
<1>6. TornInv'
  BY RestoreTextDoes, TextFields, NoTextFields DEF TornInv, InstallInv, InstallLife,
       InstallType, LifeOf, Undoing
<1>7. CaptureInv'
  BY RestoreTextDoes, TextFields, NoTextFields DEF CaptureInv, InstallInv, InstallType
<1>8. OnceInv'
  <2>1. (~faults /\ other = "no" =>
          text.new <= 1)'
    BY RestoreTextDoes, TextFields, NoTextFields DEF OnceInv, InstallInv
  <2>2. (~faults /\ other = "no" =>
          (text.new = 1 =>
             \/ text.matches = "none"
             \/ phase[3] \in {"verify", "rollback"} /\ result[3] \in {"SUCCESS", "MISMATCH"}))'
    BY RestoreOnce
  <2>3. (~faults /\ other = "no" =>
          (phase[3] = "write" => buffer.new = 0))'
    BY RestoreTextDoes, TextFields, NoTextFields DEF OnceInv, InstallInv, InstallType
  <2>4. (~faults /\ other = "no" =>
          \A t \in pre : t.new = 0)'
    BY RestoreTextDoes, TextFields, NoTextFields DEF OnceInv, InstallInv
  <2>5. (~faults /\ other = "no" =>
          (phase[3] \in {"write", "verify"} \/ result[3] = "MISMATCH" => present))'
    BY RestoreTextDoes, TextFields, NoTextFields DEF OnceInv, InstallInv, InstallType
  <2>. QED
    BY <2>1, <2>2, <2>3, <2>4, <2>5 DEF OnceInv
<1>9. InstallSettled'
  BY RestoreTextDoes, TextFields, NoTextFields DEF InstallSettled, Proceeded, Ins!Verdict,
       Ins!SourceVerdict, Ins!CommandVerdict, Ins!Script, Ins!Fresh, InstallInv,
       InstallType, Ins!LifeTypeOK
<1>10. InstallCalm'
  BY CalmKept, RestoreTextDoes, TextFields, NoTextFields DEF InstallCalm, InstallInv
<1>11. Ins!EffectConfirmed'
  BY RestoreTextDoes, TextFields, NoTextFields DEF Ins!EffectConfirmed, Ins!Whole,
       InstallInv
<1>12. Ins!CacheKept'
  BY RestoreTextDoes, TextFields, NoTextFields DEF Ins!CacheKept, Ins!Script, InstallInv,
       InstallType, Ins!LifeTypeOK
<1>13. Ins!TextRestored'
  BY RestoreRestores
<1>14. Ins!EditsKept'
  BY RestoreTextDoes, TextFields, NoTextFields DEF Ins!EditsKept, TornInv, CaptureInv,
       OnceInv, InstallInv, InstallLife, InstallType, LifeOf, Undoing
<1>15. SkipInv'
  BY RestoreTextDoes DEF SkipInv, InstallInv, InstallType, Ins!LifeTypeOK
<1>. QED
  BY <1>1, <1>2, <1>3, <1>4, <1>5, <1>6, <1>7, <1>8, <1>9, <1>10, <1>11, <1>12, <1>13, <1>14,
     <1>15
     DEF InstallInv

\* It writes the replaced text.
LEMMA WriteTextStep ==
  ASSUME InstallInv,
         Ins!WriteText,
         calm' = CalmNext
  PROVE  InstallInv'
<1>1. InstallLife'
  BY WriteTextDoes, TextFields, NoTextFields DEF InstallLife, LifeOf, InOrder, Proceeded,
                                                 Undoing, InstallInv, InstallType,
                                                 Ins!LifeTypeOK
<1>2. InstallType'
  <2>1. (Ins!LifeTypeOK)'
    BY WriteTextDoes, TextFields, NoTextFields DEF InstallType, InstallInv, Ins!LifeTypeOK,
         Ins!Status
  <2>2. (phase \in [Three -> {"assess", "transition", "write", "verify", "rollback", "raised",
                             "done"}])'
    BY WriteTextDoes, TextFields, NoTextFields DEF InstallType, InstallInv
  <2>3. (faults \in BOOLEAN)'
    BY WriteTextDoes, TextFields, NoTextFields DEF InstallType, InstallInv
  <2>4. (aged \in BOOLEAN)'
    BY WriteTextDoes, TextFields, NoTextFields DEF InstallType, InstallInv
  <2>5. (present \in BOOLEAN)'
    BY WritePresent
  <2>6. (params \in Ins!Params)'
    BY WriteTextDoes, TextFields, NoTextFields DEF InstallType, InstallInv
  <2>7. (nature \in Ins!Nature)'
    BY WriteTextDoes, TextFields, NoTextFields DEF InstallType, InstallInv
  <2>8. (source \subseteq Ins!Contents)'
    BY WriteTextDoes, TextFields, NoTextFields DEF InstallType, InstallInv
  <2>9. (work \subseteq Ins!Work)'
    BY WriteTextDoes, TextFields, NoTextFields DEF InstallType, InstallInv
  <2>10. (text \in Ins!Text)'
    BY WriteTextDoes, TextFields, NoTextFields DEF InstallType
  <2>11. (buffer \in Ins!Text)'
    BY WriteTextDoes, TextFields, NoTextFields DEF InstallType
  <2>12. (pre \subseteq Ins!Text)'
    BY WriteTextDoes, TextFields, NoTextFields DEF InstallType, InstallInv
  <2>13. (before.text \in Ins!Text)'
    BY WriteTextDoes, TextFields, NoTextFields DEF InstallType, InstallInv
  <2>14. (other \in {"no", "edited", "raced"})'
    BY WriteTextDoes, TextFields, NoTextFields DEF InstallType, InstallInv
  <2>15. (runs \in 1 .. MaxRuns)'
    BY WriteTextDoes, TextFields, NoTextFields DEF InstallType, InstallInv
  <2>16. (before = [source |-> before.source, text |-> before.text])'
    BY WriteTextDoes, TextFields, NoTextFields DEF InstallType, InstallInv
  <2>. QED
    BY <2>1, <2>2, <2>3, <2>4, <2>5, <2>6, <2>7, <2>8, <2>9, <2>10, <2>11, <2>12, <2>13,
       <2>14, <2>15, <2>16
       DEF InstallType
<1>3. NewBound'
  <2>1. (text.new <= runs)'
    BY WriteTextDoes, TextFields, NoTextFields DEF NewBound, InstallInv, InstallType
  <2>2. (phase[3] \in {"assess", "transition", "write"} => text.new < runs)'
    BY WriteTextDoes, TextFields, NoTextFields DEF NewBound, InstallInv, InstallType
  <2>3. (buffer.new < runs)'
    BY WriteTextDoes, TextFields, NoTextFields DEF NewBound, InstallInv, InstallType
  <2>4. (\A t \in pre : t.new < runs)'
    BY WriteTextDoes, TextFields, NoTextFields DEF NewBound, InstallInv
  <2>. QED
    BY <2>1, <2>2, <2>3, <2>4 DEF NewBound
<1>4. SourceInv'
  BY WriteTextDoes, TextFields, NoTextFields DEF SourceInv, Ins!Script, Ins!Whole, Clean,
                                                 Proceeded, InstallInv, InstallType,
                                                 Ins!LifeTypeOK
<1>5. WorkInv'
  BY WriteTextDoes, TextFields, NoTextFields DEF WorkInv, Clean, Proceeded, Ins!Whole,
                                                 InstallInv, InstallType, Ins!LifeTypeOK
<1>6. TornInv'
  BY WriteTextDoes, TextFields, NoTextFields DEF TornInv, InstallInv, InstallType,
                                                 Ins!LifeTypeOK
<1>7. CaptureInv'
  BY WriteTextDoes, TextFields, NoTextFields DEF CaptureInv, InstallInv, InstallLife,
                                                 InstallType, LifeOf, Undoing,
                                                 Ins!LifeTypeOK
<1>8. OnceInv'
  BY WriteTextDoes, TextFields, NoTextFields DEF OnceInv, InstallInv, InstallType,
                                                 Ins!LifeTypeOK
<1>9. InstallSettled'
  BY WriteTextDoes, TextFields, NoTextFields DEF InstallSettled, Proceeded, Ins!Verdict,
                                                 Ins!SourceVerdict, Ins!CommandVerdict,
                                                 Ins!Script, Ins!Fresh, InstallInv,
                                                 InstallLife, LifeOf
<1>10. InstallCalm'
  BY CalmKept, WriteTextDoes, TextFields, NoTextFields DEF InstallCalm, InstallInv
<1>11. Ins!EffectConfirmed'
  BY WriteTextDoes, TextFields, NoTextFields DEF Ins!EffectConfirmed, Ins!Whole, InstallInv,
                                                 InstallType, Ins!LifeTypeOK
<1>12. Ins!CacheKept'
  BY WriteTextDoes, TextFields, NoTextFields DEF Ins!CacheKept, Ins!Script, InstallInv,
                                                 InstallType, Ins!LifeTypeOK
<1>13. Ins!TextRestored'
  BY WriteTextDoes, TextFields, NoTextFields DEF Ins!TextRestored, InstallInv, InstallLife,
                                                 LifeOf
<1>14. Ins!EditsKept'
  BY WriteTextDoes, TextFields, NoTextFields DEF Ins!EditsKept, TornInv, CaptureInv,
                                                 OnceInv, InstallInv, InstallLife,
                                                 InstallType, LifeOf, Undoing
<1>15. SkipInv'
  BY WriteTextDoes DEF SkipInv, InstallInv, InstallType, Ins!LifeTypeOK
<1>. QED
  BY <1>1, <1>2, <1>3, <1>4, <1>5, <1>6, <1>7, <1>8, <1>9, <1>10, <1>11, <1>12, <1>13, <1>14,
     <1>15
     DEF InstallInv

\* Another program edits the text.
LEMMA OtherEditsStep ==
  ASSUME InstallInv,
         Ins!OtherEdits,
         calm' = CalmNext
  PROVE  InstallInv'
<1>1. InstallLife'
  BY EditDoes, TextFields, NoTextFields DEF InstallLife, LifeOf, InOrder, Proceeded,
                                            InstallInv
<1>2. InstallType'
  <2>1. (Ins!LifeTypeOK)'
    BY EditDoes, TextFields, NoTextFields DEF InstallType, InstallInv, Ins!LifeTypeOK
  <2>2. (phase \in [Three -> {"assess", "transition", "write", "verify", "rollback", "raised",
                             "done"}])'
    BY EditDoes, TextFields, NoTextFields DEF InstallType, InstallInv
  <2>3. (faults \in BOOLEAN)'
    BY EditDoes, TextFields, NoTextFields DEF InstallType, InstallInv
  <2>4. (aged \in BOOLEAN)'
    BY EditDoes, TextFields, NoTextFields DEF InstallType, InstallInv
  <2>5. (present \in BOOLEAN)'
    BY EditPresent
  <2>6. (params \in Ins!Params)'
    BY EditDoes, TextFields, NoTextFields DEF InstallType, InstallInv
  <2>7. (nature \in Ins!Nature)'
    BY EditDoes, TextFields, NoTextFields DEF InstallType, InstallInv
  <2>8. (source \subseteq Ins!Contents)'
    BY EditDoes, TextFields, NoTextFields DEF InstallType, InstallInv
  <2>9. (work \subseteq Ins!Work)'
    BY EditDoes, TextFields, NoTextFields DEF InstallType, InstallInv
  <2>10. (text \in Ins!Text)'
    BY EditDoes, TextFields, NoTextFields DEF InstallType
  <2>11. (buffer \in Ins!Text)'
    BY EditDoes, TextFields, NoTextFields DEF InstallType, InstallInv
  <2>12. (pre \subseteq Ins!Text)'
    BY EditDoes, TextFields, NoTextFields DEF InstallType, InstallInv
  <2>13. (before.text \in Ins!Text)'
    BY EditDoes, TextFields, NoTextFields DEF InstallType, InstallInv
  <2>14. (other \in {"no", "edited", "raced"})'
    BY EditDoes, TextFields, NoTextFields DEF InstallType
  <2>15. (runs \in 1 .. MaxRuns)'
    BY EditDoes, TextFields, NoTextFields DEF InstallType, InstallInv
  <2>16. (before = [source |-> before.source, text |-> before.text])'
    BY EditDoes, TextFields, NoTextFields DEF InstallType, InstallInv
  <2>. QED
    BY <2>1, <2>2, <2>3, <2>4, <2>5, <2>6, <2>7, <2>8, <2>9, <2>10, <2>11, <2>12, <2>13,
       <2>14, <2>15, <2>16
       DEF InstallType
<1>3. NewBound'
  <2>1. (text.new <= runs)'
    BY EditDoes, TextFields, NoTextFields DEF NewBound, InstallInv, InstallType
  <2>2. (phase[3] \in {"assess", "transition", "write"} => text.new < runs)'
    BY EditDoes, TextFields, NoTextFields DEF NewBound, InstallInv, InstallType
  <2>3. (buffer.new < runs)'
    BY EditDoes, TextFields, NoTextFields DEF NewBound, InstallInv
  <2>4. (\A t \in pre : t.new < runs)'
    BY EditDoes, TextFields, NoTextFields DEF NewBound, InstallInv
  <2>. QED
    BY <2>1, <2>2, <2>3, <2>4 DEF NewBound
<1>4. SourceInv'
  BY EditDoes, TextFields, NoTextFields DEF SourceInv, Ins!Script, Ins!Whole, Clean,
                                            Proceeded, InstallInv, InstallType
<1>5. WorkInv'
  BY EditDoes, TextFields, NoTextFields DEF WorkInv, Clean, Proceeded, Ins!Whole, InstallInv
<1>6. TornInv'
  BY EditDoes, TextFields, NoTextFields DEF TornInv, InstallInv
<1>7. CaptureInv'
  BY EditDoes, TextFields, NoTextFields DEF CaptureInv, InstallInv
<1>8. OnceInv'
  BY EditDoes, TextFields, NoTextFields DEF OnceInv
<1>9. InstallSettled'
  BY EditDoes, TextFields, NoTextFields DEF InstallSettled, Proceeded, Ins!Verdict,
                                            Ins!SourceVerdict, Ins!CommandVerdict,
                                            Ins!Script, Ins!Fresh, InstallInv
<1>10. InstallCalm'
  BY CalmKept, EditDoes, TextFields, NoTextFields DEF InstallCalm
<1>11. Ins!EffectConfirmed'
  BY EditDoes, TextFields, NoTextFields DEF Ins!EffectConfirmed, Ins!Whole, InstallInv
<1>12. Ins!CacheKept'
  BY EditDoes, TextFields, NoTextFields DEF Ins!CacheKept, Ins!Script, InstallInv
<1>13. Ins!TextRestored'
  BY EditDoes, TextFields, NoTextFields DEF Ins!TextRestored
<1>14. Ins!EditsKept'
  BY EditDoes, TextFields, NoTextFields DEF Ins!EditsKept, InstallInv
<1>15. SkipInv'
  BY EditDoes DEF SkipInv, InstallInv
<1>. QED
  BY <1>1, <1>2, <1>3, <1>4, <1>5, <1>6, <1>7, <1>8, <1>9, <1>10, <1>11, <1>12, <1>13, <1>14,
     <1>15
     DEF InstallInv

\* assess_state of the source.
LEMMA AssessSourceStep ==
  ASSUME InstallInv,
         Ins!AssessState(1),
         calm' = CalmNext
  PROVE  InstallInv'
<1>1. InstallLife'
  BY DEF Ins!AssessState, Ins!Assess, Ins!Verify, Ins!Released, Ins!Proceeds, InstallLife,
         LifeOf, InOrder, Proceeded, Undoing, InstallInv, InstallType, Ins!LifeTypeOK
<1>2. InstallType'
  BY DEF Ins!AssessState, Ins!Assess, Ins!Verify, Ins!Released, Ins!Proceeds, InstallType,
         InstallInv, Ins!LifeTypeOK
<1>3. NewBound'
  BY DEF Ins!AssessState, Ins!Assess, Ins!Verify, Ins!Released, Ins!Proceeds, NewBound,
         InstallInv, InstallType
<1>4. SourceInv'
  BY DEF Ins!AssessState, Ins!Assess, Ins!Verify, Ins!Released, Ins!Proceeds, Ins!Verdict,
         Ins!SourceVerdict, SourceInv, Ins!Script, Ins!Whole, Clean, Proceeded, InstallInv,
         InstallLife, InstallType, LifeOf, Undoing, Ins!LifeTypeOK
<1>5. WorkInv'
  BY DEF Ins!AssessState, Ins!Assess, Ins!Verify, Ins!Released, Ins!Proceeds, WorkInv,
         Clean, Proceeded, Ins!Whole, InstallInv, InstallType, Ins!LifeTypeOK
<1>6. TornInv'
  BY DEF Ins!AssessState, Ins!Assess, Ins!Verify, Ins!Released, Ins!Proceeds, TornInv,
         InstallInv, InstallType, Ins!LifeTypeOK
<1>7. CaptureInv'
  BY DEF Ins!AssessState, Ins!Assess, Ins!Verify, Ins!Released, Ins!Proceeds, CaptureInv,
         InstallInv, InstallType, Ins!LifeTypeOK
<1>8. OnceInv'
  BY DEF Ins!AssessState, Ins!Assess, Ins!Verify, Ins!Released, Ins!Proceeds, OnceInv,
         InstallInv, InstallType, Ins!LifeTypeOK
<1>9. InstallSettled'
  BY InstallAssessSettled
<1>10. InstallCalm'
  BY InstallAssessCalm
<1>11. Ins!EffectConfirmed'
  <2>1. (~faults =>
          (result[1] = "MISMATCH" => params.max_age = "zero" \/ ~nature.listed))'
    BY SourceMismatch DEF Ins!AssessState
  <2>2. (~faults =>
          (result[2] = "MISMATCH" => params.hints = {} \/ source # Ins!Whole))'
    BY DEF Ins!AssessState, Ins!Assess, Ins!Verify, Ins!Released, Ins!Proceeds,
           Ins!EffectConfirmed, Ins!Whole, InstallInv, InstallType, Ins!LifeTypeOK
  <2>3. (~faults =>
          (result[3] = "MISMATCH" => params.keeps \/ other = "raced"))'
    BY DEF Ins!AssessState, Ins!Assess, Ins!Verify, Ins!Released, Ins!Proceeds,
           Ins!EffectConfirmed, InstallInv, InstallType, Ins!LifeTypeOK
  <2>. QED
    BY <2>1, <2>2, <2>3 DEF Ins!EffectConfirmed
<1>12. Ins!CacheKept'
  BY DEF Ins!AssessState, Ins!Assess, Ins!Verify, Ins!Released, Ins!Proceeds, Ins!Verdict,
         Ins!SourceVerdict, Ins!CacheKept, SourceInv, Ins!Script, InstallInv, InstallLife,
         InstallType, LifeOf, Undoing, Ins!LifeTypeOK, Ins!Status, CaptureInv, InOrder,
         Proceeded, WorkInv, TornInv, OnceInv, Ins!Text, Ins!NoText, Ins!Written, Ins!Torn,
         Ins!Applied, Ins!Contents, Ins!Work, Ins!Whole, Clean, Ins!PartlyExtracted,
         Ins!Nature, Ins!Params
<1>13. Ins!TextRestored'
  BY DEF Ins!AssessState, Ins!Assess, Ins!Verify, Ins!Released, Ins!Proceeds,
         Ins!TextRestored, InstallInv, InstallType, Ins!LifeTypeOK
<1>14. Ins!EditsKept'
  BY DEF Ins!AssessState, Ins!Assess, Ins!Verify, Ins!Released, Ins!Proceeds, Ins!EditsKept,
         InstallInv, InstallType, LifeOf, Undoing, Ins!LifeTypeOK
<1>15. SkipInv'
  BY DEF Ins!AssessState, Ins!Assess, Ins!Verify, SkipInv, InstallInv, InstallType,
         Ins!LifeTypeOK
<1>. QED
  BY <1>1, <1>2, <1>3, <1>4, <1>5, <1>6, <1>7, <1>8, <1>9, <1>10, <1>11, <1>12, <1>13, <1>14,
     <1>15
     DEF InstallInv

\* assess_state of run_command.
LEMMA AssessCommandStep ==
  ASSUME InstallInv,
         Ins!AssessState(2),
         calm' = CalmNext
  PROVE  InstallInv'
<1>1. InstallLife'
  BY DEF Ins!AssessState, Ins!Assess, Ins!Verify, Ins!Released, Ins!Proceeds, Ins!Verdict,
         Ins!CommandVerdict, InstallLife, LifeOf, InOrder, Proceeded, Undoing, InstallInv,
         InstallType, Ins!LifeTypeOK, Ins!Status
<1>2. InstallType'
  BY DEF Ins!AssessState, Ins!Assess, Ins!Verify, Ins!Released, Ins!Proceeds, Ins!Verdict,
         Ins!CommandVerdict, InstallType, InstallInv, Ins!LifeTypeOK, Ins!Status
<1>3. NewBound'
  BY DEF Ins!AssessState, Ins!Assess, Ins!Verify, Ins!Released, Ins!Proceeds, NewBound,
         InstallInv, InstallType, Ins!LifeTypeOK, Proceeded
<1>4. SourceInv'
  BY DEF Ins!AssessState, Ins!Assess, Ins!Verify, Ins!Released, Ins!Proceeds, Ins!Verdict,
         Ins!CommandVerdict, SourceInv, Ins!Script, Ins!Whole, Ins!Contents, Clean,
         Proceeded, InstallInv, InstallLife, InstallType, LifeOf, Undoing, Ins!LifeTypeOK
<1>5. WorkInv'
  BY DEF Ins!AssessState, Ins!Assess, Ins!Verify, Ins!Released, Ins!Proceeds, Ins!Verdict,
         Ins!CommandVerdict, WorkInv, Clean, Ins!Work, Proceeded, Ins!Whole, InstallInv,
         InstallLife, InstallType, LifeOf, Undoing, Ins!LifeTypeOK, Ins!Status
<1>6. TornInv'
  BY DEF Ins!AssessState, Ins!Assess, Ins!Verify, Ins!Released, Ins!Proceeds, TornInv,
         InstallInv, InstallType, Ins!LifeTypeOK
<1>7. CaptureInv'
  BY DEF Ins!AssessState, Ins!Assess, Ins!Verify, Ins!Released, Ins!Proceeds, CaptureInv,
         InstallInv, InstallType, Ins!LifeTypeOK
<1>8. OnceInv'
  BY DEF Ins!AssessState, Ins!Assess, Ins!Verify, Ins!Released, Ins!Proceeds, Ins!Verdict,
         Ins!CommandVerdict, OnceInv, InstallInv, InstallType, Ins!LifeTypeOK
<1>9. InstallSettled'
  BY InstallAssessSettled
<1>10. InstallCalm'
  BY InstallAssessCalm
<1>11. Ins!EffectConfirmed'
  BY DEF Ins!AssessState, Ins!Assess, Ins!Verify, Ins!Released, Ins!Proceeds, Ins!Verdict,
         Ins!CommandVerdict, Ins!EffectConfirmed, Ins!Whole, InstallInv, InstallLife,
         InstallType, LifeOf, Undoing, Ins!LifeTypeOK, Ins!Status, CaptureInv, InOrder,
         Proceeded, SourceInv, WorkInv, TornInv, OnceInv, Ins!Text, Ins!NoText, Ins!Written,
         Ins!Torn, Ins!Applied, Ins!Contents, Ins!Work, Ins!Script, Clean,
         Ins!PartlyExtracted, Ins!Nature, Ins!Params
<1>12. Ins!CacheKept'
  BY DEF Ins!AssessState, Ins!Assess, Ins!Verify, Ins!Released, Ins!Proceeds, Ins!Verdict,
         Ins!CommandVerdict, Ins!CacheKept, SourceInv, Ins!Script, InstallInv, InstallLife,
         InstallType, LifeOf, Undoing, Ins!LifeTypeOK, Ins!Status
<1>13. Ins!TextRestored'
  BY DEF Ins!AssessState, Ins!Assess, Ins!Verify, Ins!Released, Ins!Proceeds,
         Ins!TextRestored, InstallInv, InstallType, Ins!LifeTypeOK
<1>14. Ins!EditsKept'
  BY DEF Ins!AssessState, Ins!Assess, Ins!Verify, Ins!Released, Ins!Proceeds, Ins!EditsKept,
         InstallInv, InstallType, LifeOf, Undoing, Ins!LifeTypeOK
<1>15. SkipInv'
  BY DEF Ins!AssessState, Ins!Assess, Ins!Verify, SkipInv, InstallInv, InstallType,
         Ins!LifeTypeOK
<1>. QED
  BY <1>1, <1>2, <1>3, <1>4, <1>5, <1>6, <1>7, <1>8, <1>9, <1>10, <1>11, <1>12, <1>13, <1>14,
     <1>15
     DEF InstallInv

\* assess_state of replace_in_file.
LEMMA AssessReplaceStep ==
  ASSUME InstallInv,
         Ins!AssessState(3),
         calm' = CalmNext
  PROVE  InstallInv'
<1>1. InstallLife'
  BY DEF Ins!AssessState, Ins!Assess, Ins!Verify, Ins!Released, Ins!Proceeds, Ins!Verdict,
         Ins!ReplaceVerdict, InstallLife, LifeOf, InOrder, Proceeded, Undoing, InstallInv,
         InstallType, Ins!LifeTypeOK, Ins!Status
<1>2. InstallType'
  BY DEF Ins!AssessState, Ins!Assess, Ins!Verify, Ins!Released, Ins!Proceeds, Ins!Verdict,
         Ins!ReplaceVerdict, InstallType, InstallInv, Ins!LifeTypeOK, Ins!Status
<1>3. NewBound'
  BY DEF Ins!AssessState, Ins!Assess, Ins!Verify, Ins!Released, Ins!Proceeds, Ins!Verdict,
         Ins!ReplaceVerdict, NewBound, Ins!Text, InstallInv, InstallLife, InstallType,
         LifeOf, Undoing, Ins!LifeTypeOK, Ins!Status, CaptureInv, InOrder, Proceeded,
         SourceInv, WorkInv, TornInv, OnceInv, Ins!NoText, Ins!Written, Ins!Torn,
         Ins!Applied
<1>4. SourceInv'
  BY DEF Ins!AssessState, Ins!Assess, Ins!Verify, Ins!Released, Ins!Proceeds, Ins!Verdict,
         Ins!ReplaceVerdict, SourceInv, Ins!Script, Ins!Whole, Ins!Contents, Clean,
         Proceeded, InstallInv, InstallLife, InstallType, LifeOf, Undoing, Ins!LifeTypeOK,
         Ins!Status
<1>5. WorkInv'
  BY DEF Ins!AssessState, Ins!Assess, Ins!Verify, Ins!Released, Ins!Proceeds, Ins!Verdict,
         Ins!ReplaceVerdict, WorkInv, Clean, Ins!Work, Proceeded, Ins!Whole, InstallInv,
         InstallLife, InstallType, LifeOf, Undoing, Ins!LifeTypeOK, Ins!Status
<1>6. TornInv'
  BY DEF Ins!AssessState, Ins!Assess, Ins!Verify, Ins!Released, Ins!Proceeds, Ins!Verdict,
         Ins!ReplaceVerdict, TornInv, Ins!NoText, InstallInv, InstallLife, InstallType,
         LifeOf, Undoing, Ins!LifeTypeOK
<1>7. CaptureInv'
  BY DEF Ins!AssessState, Ins!Assess, Ins!Verify, Ins!Released, Ins!Proceeds, Ins!Verdict,
         Ins!ReplaceVerdict, CaptureInv, InstallInv, InstallLife, InstallType, LifeOf,
         Undoing, Ins!LifeTypeOK, Ins!Status
<1>8. OnceInv'
  BY DEF Ins!AssessState, Ins!Assess, Ins!Verify, Ins!Released, Ins!Proceeds, Ins!Verdict,
         Ins!ReplaceVerdict, OnceInv, InstallInv, InstallType, Ins!LifeTypeOK
<1>9. InstallSettled'
  BY InstallAssessSettled
<1>10. InstallCalm'
  BY InstallAssessCalm
<1>11. Ins!EffectConfirmed'
  BY DEF Ins!AssessState, Ins!Assess, Ins!Verify, Ins!Released, Ins!Proceeds, Ins!Verdict,
         Ins!ReplaceVerdict, Ins!EffectConfirmed, Ins!Whole, InstallInv, InstallLife,
         InstallType, LifeOf, Undoing, Ins!LifeTypeOK, Ins!Status, CaptureInv, InOrder,
         Proceeded, SourceInv, WorkInv
<1>12. Ins!CacheKept'
  BY DEF Ins!AssessState, Ins!Assess, Ins!Verify, Ins!Released, Ins!Proceeds, Ins!Verdict,
         Ins!ReplaceVerdict, Ins!CacheKept, SourceInv, Ins!Script, InstallInv, InstallLife,
         InstallType, LifeOf, Undoing, Ins!LifeTypeOK, Ins!Status
<1>13. Ins!TextRestored'
  BY DEF Ins!AssessState, Ins!Assess, Ins!Verify, Ins!Released, Ins!Proceeds, Ins!Verdict,
         Ins!ReplaceVerdict, Ins!TextRestored, CaptureInv, InstallInv, InstallLife,
         InstallType, LifeOf, Undoing
<1>14. Ins!EditsKept'
  BY DEF Ins!AssessState, Ins!Assess, Ins!Verify, Ins!Released, Ins!Proceeds, Ins!Verdict,
         Ins!ReplaceVerdict, Ins!EditsKept, TornInv, CaptureInv, OnceInv, InstallInv,
         InstallLife, InstallType, LifeOf, Undoing, Ins!LifeTypeOK, Ins!Status
<1>15. SkipInv'
  BY DEF Ins!AssessState, Ins!Assess, Ins!Verify, Ins!Verdict, Ins!ReplaceVerdict, SkipInv,
         InstallInv, InstallType, Ins!LifeTypeOK, Ins!Text, Ins!Matches
<1>. QED
  BY <1>1, <1>2, <1>3, <1>4, <1>5, <1>6, <1>7, <1>8, <1>9, <1>10, <1>11, <1>12, <1>13, <1>14,
     <1>15
     DEF InstallInv

\* start() is called again; the source may have aged, the text may have been edited.
LEMMA InstallStartStep ==
  ASSUME InstallInv, Ins!StartAgain, calm' = CalmNext
  PROVE  InstallInv'
<1>1. /\ phase' = [n \in Three |-> "assess"] /\ outcome' = [n \in Three |-> "NONE"]
      /\ result' = [n \in Three |-> "NONE"] /\ undo' = [n \in Three |-> "NONE"]
  BY DEF Ins!StartAgain, Ins!LifeAgain
<1>2. UNCHANGED <<faults, params, nature, source, work, present, buffer, pre, other>>
  BY DEF Ins!StartAgain
<1>3. runs' \in 1 .. MaxRuns /\ runs' = runs + 1 /\ runs \in 1 .. MaxRuns /\ runs' # runs
  BY RunsBound DEF Ins!StartAgain, InstallInv, InstallType
<1>4. aged' \in BOOLEAN
  BY DEF Ins!StartAgain, InstallInv, InstallType
<1>5. /\ text' \in Ins!Text /\ before'.text = text' /\ before'.source = source
      /\ before' = [source |-> before'.source, text |-> before'.text]
      /\ text' = text \/ (present /\ text'.new = 0 /\ ~text'.torn /\ text'.edited)
  <2>1. before' = [source |-> source, text |-> text']
    BY DEF Ins!StartAgain
  <2>2. text \in Ins!Text
    BY DEF InstallInv, InstallType
  <2>. DEFINE anew == [Ins!Written("expected") EXCEPT !.edited = TRUE]
  <2>3. anew \in Ins!Text /\ anew.new = 0 /\ ~anew.torn /\ anew.edited
    BY RunsBound DEF Ins!Text, Ins!Written, Ins!Matches
  <2>4. text' = text \/ (present /\ text' = anew)
    BY DEF Ins!StartAgain
  <2>. HIDE DEF anew
  <2>. QED
    BY <2>1, <2>2, <2>3, <2>4
<1>6. /\ text.new \in 0 .. MaxRuns /\ buffer.new \in 0 .. MaxRuns
      /\ \A t \in pre : t.new \in 0 .. MaxRuns
  BY DEF InstallInv, InstallType, Ins!Text
<1>7. calm' => ~faults /\ other = "no" /\ UNCHANGED <<aged,
                                                      text>> /\ \A n \in Three : Proceeded(n)
  <2>1. calm' => /\ UNCHANGED <<aged, text>> /\ ~faults /\ other = "no"
                 /\ \A n \in DOMAIN outcome : Ins!Proceeds(n)
    BY <1>3 DEF CalmNext
  <2>2. DOMAIN outcome = Three
    BY DEF InstallInv, InstallType, Ins!LifeTypeOK
  <2>3. other = "no" => \A n \in Three : Ins!Proceeds(n) => Proceeded(n)
    BY DEF Ins!Proceeds, Proceeded, InstallInv, InstallLife, SkipInv, Three
  <2>. QED
    BY <2>1, <2>2, <2>3
<1>11. InstallLife'
  BY <1>1 DEF InstallLife, LifeOf, InOrder, Undoing
<1>12. InstallType'
  BY <1>1, <1>2, <1>3, <1>4, <1>5 DEF InstallInv, InstallType, Ins!LifeTypeOK
<1>13. NewBound'
  BY <1>2, <1>3, <1>5, <1>6, RunsBound DEF InstallInv, NewBound
<1>14. SourceInv'
  BY <1>1, <1>2, <1>3, <1>5, RunsBound DEF InstallInv, SourceInv, Clean, Proceeded,
                                           Ins!Whole, Ins!Script
<1>15. WorkInv'
  BY <1>1, <1>2, <1>3, RunsBound DEF InstallInv, WorkInv, Clean, Proceeded
<1>16. TornInv'
  BY <1>1, <1>2, <1>3, <1>5, RunsBound DEF InstallInv, TornInv
<1>17. CaptureInv'
  BY <1>1, <1>2, <1>3, <1>5, RunsBound DEF InstallInv, CaptureInv
<1>18. OnceInv'
  <2>1. phase[3] \notin {"verify", "rollback"}
    BY DEF Ins!StartAgain, Ins!Released, Ins!Proceeds, Proceeded, InstallInv, InstallLife,
           InOrder
  <2>. QED
    BY <1>1, <1>2, <1>5, <2>1 DEF InstallInv, OnceInv
<1>19. InstallSettled'
  BY <1>1 DEF InstallSettled, Proceeded
<1>20. InstallCalm'
  <2>1. SUFFICES ASSUME calm' PROVE InstallCalm'
    BY DEF InstallCalm
  <2>2. \A n \in Three : Ins!Verdict(n)' = Ins!Verdict(n)
    BY <1>2, <1>7, <2>1 DEF Ins!Verdict, Ins!SourceVerdict, Ins!CommandVerdict,
                            Ins!ReplaceVerdict, Ins!Script, Ins!Fresh
  <2>. QED
    BY <1>1, <1>2, <1>7, <2>1, <2>2 DEF InstallInv, InstallSettled, InstallCalm
<1>21. Ins!EffectConfirmed'
  BY <1>1 DEF Ins!EffectConfirmed
<1>22. Ins!CacheKept'
  BY <1>1 DEF Ins!CacheKept
<1>23. Ins!TextRestored'
  BY <1>1 DEF Ins!TextRestored
<1>24. Ins!EditsKept'
  BY <1>2, <1>5 DEF InstallInv, Ins!EditsKept
<1>25. SkipInv'
  BY <1>1 DEF SkipInv
<1>. QED
  BY <1>11, <1>12, <1>13, <1>14, <1>15, <1>16, <1>17, <1>18, <1>19, <1>20, <1>21, <1>22,
     <1>23, <1>24, <1>25
     DEF InstallInv

\* Nothing of the files changes.
LEMMA InstallStutter ==
  ASSUME InstallInv,
         UNCHANGED <<phase, outcome, result, undo, faults, params, nature, runs, source, aged, work,
                     present, text, buffer, pre, other, before, calm>>
  PROVE  InstallInv'
<1>1. InstallLife' /\ InstallType' /\ NewBound'
  BY DEF InstallInv, InstallLife, InstallType, NewBound, LifeOf, InOrder, Proceeded,
         Ins!LifeTypeOK
<1>2. SourceInv' /\ WorkInv'
  BY DEF InstallInv, SourceInv, WorkInv, Clean, Proceeded, Ins!Script, Ins!Whole
<1>3. TornInv' /\ CaptureInv' /\ SkipInv' /\ OnceInv'
  BY DEF InstallInv, TornInv, CaptureInv, SkipInv, OnceInv
<1>4. \A n \in Three : Ins!Verdict(n)' = Ins!Verdict(n)
  BY DEF Ins!Verdict, Ins!SourceVerdict, Ins!CommandVerdict, Ins!ReplaceVerdict, Ins!Script,
         Ins!Fresh, Ins!Whole
<1>5. InstallSettled' /\ InstallCalm'
  BY <1>4 DEF InstallInv, InstallSettled, InstallCalm, Proceeded
<1>6. Ins!EffectConfirmed' /\ Ins!CacheKept' /\ Ins!TextRestored' /\ Ins!EditsKept'
  BY DEF InstallInv, Ins!EffectConfirmed, Ins!CacheKept, Ins!TextRestored, Ins!EditsKept,
         Ins!Whole, Ins!Script
<1>. QED
  BY <1>1, <1>2, <1>3, <1>5, <1>6 DEF InstallInv

\* The files a program may find.
LEMMA InstallInit ==
  ASSUME Ins!Init, calm = FALSE
  PROVE  InstallInv
<1>1. /\ phase = [n \in Three |-> "assess"] /\ outcome = [n \in Three |-> "NONE"]
      /\ result = [n \in Three |-> "NONE"] /\ undo = [n \in Three |-> "NONE"]
  BY DEF Ins!Init, Ins!LifeInit
<1>2. before.text = text /\ before.source = source /\ before = [source |-> source, text |-> text]
  BY DEF Ins!Init
<1>3. \/ ~present /\ text = Ins!NoText
      \/ present /\ \E m \in Ins!Matches : text = Ins!Written(m)
  BY DEF Ins!Init
<1>4. present \in BOOLEAN /\ text \in Ins!Text /\ text.new = 0 /\ (present => ~text.torn)
  BY <1>3, WrittenFields, NoTextFields DEF Ins!Init
<1>5. source \in {{}, Ins!Contents} /\ source \in {{}, Ins!Whole} /\ source \subseteq Ins!Contents
  BY DEF Ins!Init, Ins!Script, Ins!Whole
<1>6. faults \in BOOLEAN /\ params \in Ins!Params /\ nature \in Ins!Nature /\ runs = 1 /\ pre = {}
      /\ buffer = Ins!NoText /\ other = "no"
  BY DEF Ins!Init
<1>7. work \in {{}, Ins!Work}
  BY DEF Ins!Init
<1>8. aged \in BOOLEAN
  BY DEF Ins!Init
<1>11. InstallLife
  BY <1>1 DEF InstallLife, LifeOf, InOrder, Undoing
<1>12. InstallType
  BY <1>1, <1>2, <1>4, <1>5, <1>6, <1>7, <1>8, NoTextFields, RunsBound
     DEF InstallType, Ins!LifeTypeOK
<1>13. NewBound
  BY <1>4, <1>6, NoTextFields DEF NewBound
<1>14. SourceInv
  BY <1>1, <1>2, <1>5 DEF Ins!Init, SourceInv, Proceeded, Ins!Whole, Ins!Script
<1>15. WorkInv
  BY <1>1, <1>7 DEF WorkInv, Proceeded
<1>16. TornInv /\ CaptureInv /\ SkipInv /\ OnceInv
  BY <1>1, <1>2, <1>3, <1>4, <1>6 DEF TornInv, CaptureInv, SkipInv, OnceInv
<1>17. InstallSettled /\ InstallCalm
  BY <1>1 DEF InstallSettled, Proceeded, InstallCalm
<1>18. Ins!EffectConfirmed /\ Ins!CacheKept /\ Ins!TextRestored /\ Ins!EditsKept
  BY <1>1, <1>2, <1>4 DEF Ins!EffectConfirmed, Ins!CacheKept, Ins!TextRestored,
                          Ins!EditsKept
<1>. QED
  BY <1>11, <1>12, <1>13, <1>14, <1>15, <1>16, <1>17, <1>18 DEF InstallInv

\* Every action of Install preserves the invariant.
LEMMA InstallNext ==
  ASSUME InstallInv, Ins!Next, calm' = CalmNext
  PROVE  InstallInv'
<1>1. CASE \E n \in {1, 2, 3} : Ins!AssessState(n)
  BY <1>1, AssessSourceStep, AssessCommandStep, AssessReplaceStep
<1>. QED
  BY <1>1, InstallStartStep, OtherEditsStep, FetchStep, ExtractStep, DeleteCacheStep,
     CommandStep, NothingToUndoStep, ReadTextStep, WriteTextStep, RestoreTextStep
     DEF Ins!Next
=============================================================================
