--------------------------- MODULE AccountsProofs ---------------------------
(***************************************************************************)
(* The accounts of a host: each action of Accounts preserves AccountInv,    *)
(* the part of HostsInv about them.  Every lemma about an action goes       *)
(* through the parts of the invariant one by one.                           *)
(***************************************************************************)
EXTENDS HostsInv, TLAPS

USE DEF Acc!At, Acc!Continue, Acc!Succeeds, Acc!Fails, Acc!Returns, Acc!Failed, Acc!Goto,
        Acc!Report, Acc!Undone, Acc!setVars, Acc!memVars, Acc!lifeVars, Three, Acc!Linux,
        Acc!Darwin

\* Within a run calm only gets lost.
LEMMA CalmKept ==
  ASSUME calm' = CalmNext, runs' = runs
  PROVE  calm' => calm /\ UNCHANGED <<crashes, other>>
  BY DEF CalmNext

\* What assess_state of a node decides when nothing fails.
LEMMA AccountAssessed ==
  ASSUME NEW n \in Three, AccountInv, Acc!AssessState(n), ~faults
  PROVE  LET v == Acc!Verdict(n)
         IN  \/ /\ phase[n] = "assess" /\ UNCHANGED result
                /\ \/ v = "READY" /\ phase' = [phase EXCEPT ![n] = "transition"]
                      /\ UNCHANGED outcome
                   \/ v = "ALREADY_APPLIED" /\ phase' = [phase EXCEPT ![n] = "done"]
                      /\ outcome' = [outcome EXCEPT ![n] = "SKIPPED_ALREADY_APPLIED"]
                   \/ v = "INVALID" /\ phase' = [phase EXCEPT ![n] = "done"]
                      /\ outcome' = [outcome EXCEPT ![n] = "FAILED_INVALID"]
             \/ /\ phase[n] = "verify"
                /\ \/ v = "ALREADY_APPLIED" /\ phase' = [phase EXCEPT ![n] = "done"]
                      /\ outcome' = [outcome EXCEPT ![n] = "SUCCESS"] /\ UNCHANGED result
                   \/ v # "ALREADY_APPLIED" /\ phase' = [phase EXCEPT ![n] = "rollback"]
                      /\ result' = [result EXCEPT ![n] = "MISMATCH"] /\ UNCHANGED outcome
  BY DEF Acc!AssessState, Acc!Assess, Acc!Verify

\* A calm account stays calm: every node finds itself applied.
LEMMA AccountAssessCalm ==
  ASSUME NEW n \in Three, AccountInv, Acc!AssessState(n), calm' = CalmNext PROVE AccountCalm'
<1>0. UNCHANGED <<faults, platform, params, ordered, taken, runs, user, group, shells>>
  BY DEF Acc!AssessState
<1>1. SUFFICES ASSUME calm' PROVE AccountCalm'
  BY DEF AccountCalm
<1>2. calm /\ ~faults /\ ordered
  BY <1>0, <1>1, CalmKept DEF AccountInv, AccountCalm
<1>3. CASE params.enforce /\ params.shell
  BY <1>0, <1>2, <1>3 DEF AccountCalm
<1>4. CASE ~(params.enforce /\ params.shell)
  <2>1. \A m \in Three : (Acc!Verdict(m) = "ALREADY_APPLIED")'
    BY <1>0, <1>2, <1>4 DEF AccountInv, AccountCalm, Acc!Verdict, Acc!UserVerdict,
                            Acc!GroupVerdict, Acc!ShellVerdict, Acc!Visible, Acc!Known,
                            Acc!HasShell, Acc!Differs, Acc!UidInUse
  <2>2. \A m \in Three : /\ phase'[m] \in {"assess", "done"}
                         /\ outcome'[m] \in {"NONE", "SKIPPED_ALREADY_APPLIED"}
    BY <1>2, <1>4, AccountAssessed DEF AccountInv, AccountCalm, AccountLife, AccountType,
                                       Acc!LifeTypeOK
  <2>. QED
    BY <1>0, <1>2, <2>1, <2>2 DEF AccountCalm
<1>. QED
  BY <1>3, <1>4

\* ensure_user goes ahead only if the uid is free and the group is there.
LEMMA UserNeeds ==
  ASSUME AccountInv, Acc!AssessState(1), ~faults
  PROVE  (phase[1] \notin {"assess", "done"} =>
           ~taken /\ (params.supp => group # "none"))'
  BY AccountAssessed DEF AccountInv, UserSound, Acc!AssessState, Acc!Verdict,
                         Acc!UserVerdict, Acc!UidInUse, AccountLife, AccountType,
                         AccountShape

\* The second assessment of ensure_user confirms it, but for a disputed shell.
LEMMA UserConfirmed ==
  ASSUME AccountInv, Acc!AssessState(1), ~faults, phase[1] = "verify"
  PROVE  Acc!Verdict(1) = "ALREADY_APPLIED" \/ Disputed
  BY DEF AccountInv, UserSound, Acc!Verdict, Acc!UserVerdict, Acc!UidInUse, AccountShape,
         Disputed, Acc!Visible, Acc!Differs

\* It is rolled back only for such a shell, or a record that is no user.
LEMMA UserUndoes ==
  ASSUME AccountInv, Acc!AssessState(1), ~faults
  PROVE  (phase[1] = "rollback" =>
      IF result[1] = "MISMATCH"
      THEN Disputed /\ Acc!Visible /\ (before.user.by = "none" => created)
      ELSE ~Acc!Visible /\ platform = "darwin" /\ ~(params.uid /\ params.shell))'
<1>1. CASE phase'[1] = phase[1]
  BY <1>1, AccountAssessed DEF AccountInv, UserSound, Acc!AssessState, AccountLife,
                               AccountType, Acc!LifeTypeOK, Disputed, Acc!Visible
<1>2. CASE phase[1] = "verify"
  BY <1>2, AccountAssessed, UserConfirmed DEF AccountInv, UserSound, Acc!AssessState,
                                              AccountLife, AccountType, Acc!LifeTypeOK,
                                              Disputed, Acc!Visible
<1>3. CASE phase[1] = "assess"
  BY <1>3, AccountAssessed DEF AccountInv, AccountLife
<1>. QED
  BY <1>1, <1>2, <1>3, AccountAssessed

\* So a mismatch without faults is a dispute about the shell.
LEMMA UserMismatch ==
  ASSUME AccountInv, Acc!AssessState(1), ~faults
  PROVE  (result[1] = "MISMATCH" => Disputed)'
  BY AccountAssessed, UserConfirmed DEF AccountInv, UserSound, Acc!AssessState, AccountLife,
                                        AccountType, Disputed, Acc!LifeTypeOK

\* The account that ensure_user is to change has the attributes it may not change.
LEMMA UserFound ==
  ASSUME AccountInv, Acc!AssessState(1), ~faults
  PROVE (phase[1] = "transition" =>
      /\ ~Acc!UidInUse
      /\ Acc!Visible => /\ params.enforce /\ params.uid => user.uid = "wanted"
                        /\ ordered /\ params.enforce /\ params.shell => user.shell = "bash")'
  BY AccountAssessed DEF AccountInv, UserSound, Acc!AssessState, Acc!Verdict,
                         Acc!UserVerdict, Acc!UidInUse, AccountLife, AccountType,
                         AccountShape, Acc!Differs, Acc!Visible

-----------------------------------------------------------------------------
(* The actions.                                                             *)

\* ensure_user looks the account up.
LEMMA ProbeUserStep ==
  ASSUME AccountInv,
         Acc!ProbeUser,
         calm' = CalmNext
  PROVE  AccountInv'
<1>1. AccountLife'
  BY DEF Acc!ProbeUser, AccountLife, LifeOf, InOrder, Proceeded, UserPhase, GroupPhase,
         ShellPhase, Undoing, AccountInv, AccountType, Acc!LifeTypeOK, Acc!Status
<1>2. AccountType'
  <2>1. (Acc!LifeTypeOK)'
    BY DEF Acc!ProbeUser, AccountType, AccountInv, Acc!LifeTypeOK, Acc!Status
  <2>2. (faults \in BOOLEAN /\ ordered \in BOOLEAN /\ taken \in BOOLEAN)'
    BY DEF Acc!ProbeUser, AccountType, AccountInv, Acc!LifeTypeOK, Acc!Status
  <2>3. (fresh \in BOOLEAN)'
    BY DEF Acc!ProbeUser, AccountType, AccountInv
  <2>4. (created \in BOOLEAN)'
    BY DEF Acc!ProbeUser, AccountType, AccountInv, Acc!LifeTypeOK, Acc!Status
  <2>5. (platform \in {"linux", "darwin"})'
    BY DEF Acc!ProbeUser, AccountType, AccountInv, Acc!LifeTypeOK, Acc!Status
  <2>6. (params \in Acc!Params)'
    BY DEF Acc!ProbeUser, AccountType, AccountInv, Acc!LifeTypeOK, Acc!Status
  <2>7. (user \in Acc!User)'
    BY DEF Acc!ProbeUser, AccountType, AccountInv, Acc!LifeTypeOK, Acc!Status
  <2>8. (group \in {"none", "empty", "member"})'
    BY DEF Acc!ProbeUser, AccountType, AccountInv, Acc!LifeTypeOK, Acc!Status
  <2>9. (shells \subseteq {"old", "fish", "zsh"})'
    BY DEF Acc!ProbeUser, AccountType, AccountInv, Acc!LifeTypeOK, Acc!Status
  <2>10. (buffer \subseteq {"old", "fish", "zsh"})'
    BY DEF Acc!ProbeUser, AccountType, AccountInv, Acc!LifeTypeOK, Acc!Status
  <2>11. (pre \in Acc!LoginShell \cup {"none"})'
    BY DEF Acc!ProbeUser, AccountType, AccountInv, Acc!LifeTypeOK, Acc!Status
  <2>12. (other \in {"no", "added", "raced"})'
    BY DEF Acc!ProbeUser, AccountType, AccountInv, Acc!LifeTypeOK, Acc!Status
  <2>13. (runs \in 1 .. MaxRuns)'
    BY DEF Acc!ProbeUser, AccountType, AccountInv, Acc!LifeTypeOK, Acc!Status
  <2>14. (before \in [user : Acc!User, group : {"none", "empty", "member"},
                    shell : Acc!LoginShell \cup {"none"}])'
    BY DEF Acc!ProbeUser, AccountType, AccountInv, Acc!LifeTypeOK, Acc!Status
  <2>. QED
    BY <2>1, <2>2, <2>3, <2>4, <2>5, <2>6, <2>7, <2>8, <2>9, <2>10, <2>11, <2>12, <2>13,
       <2>14
       DEF AccountType
<1>3. AccountShape'
  BY DEF Acc!ProbeUser, AccountShape, Acc!Visible, Acc!NoUser, AccountInv, AccountLife,
         AccountType, LifeOf, UserPhase, GroupPhase, ShellPhase, Undoing, Acc!LifeTypeOK,
         Acc!Status
<1>4. UserMade'
  BY DEF Acc!ProbeUser, UserMade, Claim, AccountInv, AccountLife, AccountType, LifeOf,
         UserPhase, GroupPhase, ShellPhase, Undoing, Acc!LifeTypeOK, Acc!Status,
         AccountShape, InOrder, Proceeded, Acc!Visible, Acc!Known, Acc!HasShell, Acc!NoUser,
         Acc!Params, Acc!User, Acc!LoginShell
<1>5. UserSound'
  BY DEF Acc!ProbeUser, UserSound, Disputed, Acc!UidInUse, Acc!Visible, AccountInv,
         AccountLife, AccountType, LifeOf, UserPhase, GroupPhase, ShellPhase, Undoing,
         Acc!LifeTypeOK, Acc!Status
<1>6. OthersSound'
  BY DEF Acc!ProbeUser, OthersSound, Disputed, Acc!Known, Acc!HasShell, AccountInv,
         AccountLife, AccountType, LifeOf, UserPhase, GroupPhase, ShellPhase, Undoing,
         Acc!LifeTypeOK, Acc!Status
<1>7. AccountEffect'
  BY DEF Acc!ProbeUser, AccountEffect, Proceeded, Acc!Visible, AccountInv, AccountLife,
         AccountType, LifeOf, UserPhase, GroupPhase, ShellPhase, Undoing, Acc!LifeTypeOK,
         Acc!Status
<1>8. FoundInv'
  BY DEF Acc!ProbeUser, FoundInv, AccountInv, AccountLife, AccountType, LifeOf, UserPhase,
         GroupPhase, ShellPhase, Undoing, Acc!LifeTypeOK, Acc!Status
<1>9. ShellsInv'
  BY DEF Acc!ProbeUser, ShellsInv, Acc!ShellsKept, AccountInv, AccountLife, AccountType,
         LifeOf, UserPhase, GroupPhase, ShellPhase, Undoing, Acc!LifeTypeOK, Acc!Status
<1>10. AccountSettled'
  BY DEF Acc!ProbeUser, AccountSettled, AccountEffect, Proceeded, Acc!Verdict,
         Acc!UserVerdict, Acc!GroupVerdict, Acc!ShellVerdict, Acc!Differs, Acc!UidInUse,
         Acc!Visible, Acc!Known, Acc!HasShell, AccountInv
<1>11. AccountCalm'
  BY CalmKept DEF Acc!ProbeUser, AccountCalm, AccountInv
<1>12. Acc!AccountKept'
  BY DEF Acc!ProbeUser, Acc!AccountKept, Claim, UserMade, Acc!NoUser, AccountInv
<1>13. Acc!FreshAccountGone'
  BY DEF Acc!ProbeUser, Acc!FreshAccountGone, UserSound, FoundInv, Acc!NoUser, AccountInv,
         AccountLife, AccountType, LifeOf, UserPhase, GroupPhase, ShellPhase, Undoing,
         Acc!LifeTypeOK, Acc!Status
<1>14. Acc!ShellRestored'
  BY DEF Acc!ProbeUser, Acc!ShellRestored, FoundInv, AccountInv, AccountLife, AccountType,
         LifeOf, UserPhase, GroupPhase, ShellPhase, Undoing, Acc!LifeTypeOK, Acc!Status
<1>15. Acc!ShellsKept'
  BY DEF Acc!ProbeUser, Acc!ShellsKept, ShellsInv, AccountInv
<1>. QED
  BY <1>1, <1>2, <1>3, <1>4, <1>5, <1>6, <1>7, <1>8, <1>9, <1>10, <1>11, <1>12, <1>13,
     <1>14, <1>15
     DEF AccountInv

\* useradd.
LEMMA UserAddStep ==
  ASSUME AccountInv,
         Acc!UserAdd,
         calm' = CalmNext
  PROVE  AccountInv'
<1>1. AccountLife'
  BY DEF Acc!UserAdd, AccountLife, LifeOf, InOrder, Proceeded, UserPhase, GroupPhase,
         ShellPhase, Undoing, AccountInv, AccountType, Acc!LifeTypeOK, Acc!Status
<1>2. AccountType'
  <2>1. (Acc!LifeTypeOK)'
    BY DEF Acc!UserAdd, AccountType, AccountInv, Acc!LifeTypeOK, Acc!Status
  <2>2. (faults \in BOOLEAN /\ ordered \in BOOLEAN /\ taken \in BOOLEAN)'
    BY DEF Acc!UserAdd, AccountType, AccountInv, Acc!LifeTypeOK, Acc!Status
  <2>3. (fresh \in BOOLEAN)'
    BY DEF Acc!UserAdd, AccountType, AccountInv
  <2>4. (created \in BOOLEAN)'
    BY DEF Acc!UserAdd, AccountType, AccountInv, Acc!LifeTypeOK, Acc!Status
  <2>5. (platform \in {"linux", "darwin"})'
    BY DEF Acc!UserAdd, AccountType, AccountInv, Acc!LifeTypeOK, Acc!Status
  <2>6. (params \in Acc!Params)'
    BY DEF Acc!UserAdd, AccountType, AccountInv, Acc!LifeTypeOK, Acc!Status
  <2>7. (user \in Acc!User)'
    BY DEF Acc!UserAdd, AccountType, Acc!LifeTypeOK, Acc!Status, Acc!User, Acc!LoginShell,
           Acc!NoUser, AccountInv, AccountLife, LifeOf, UserPhase, GroupPhase, ShellPhase,
           Undoing
  <2>8. (group \in {"none", "empty", "member"})'
    BY DEF Acc!UserAdd, AccountType, AccountInv, Acc!LifeTypeOK, Acc!Status
  <2>9. (shells \subseteq {"old", "fish", "zsh"})'
    BY DEF Acc!UserAdd, AccountType, AccountInv, Acc!LifeTypeOK, Acc!Status
  <2>10. (buffer \subseteq {"old", "fish", "zsh"})'
    BY DEF Acc!UserAdd, AccountType, AccountInv, Acc!LifeTypeOK, Acc!Status
  <2>11. (pre \in Acc!LoginShell \cup {"none"})'
    BY DEF Acc!UserAdd, AccountType, AccountInv, Acc!LifeTypeOK, Acc!Status
  <2>12. (other \in {"no", "added", "raced"})'
    BY DEF Acc!UserAdd, AccountType, AccountInv, Acc!LifeTypeOK, Acc!Status
  <2>13. (runs \in 1 .. MaxRuns)'
    BY DEF Acc!UserAdd, AccountType, AccountInv, Acc!LifeTypeOK, Acc!Status
  <2>14. (before \in [user : Acc!User, group : {"none", "empty", "member"},
                    shell : Acc!LoginShell \cup {"none"}])'
    BY DEF Acc!UserAdd, AccountType, AccountInv, Acc!LifeTypeOK, Acc!Status
  <2>. QED
    BY <2>1, <2>2, <2>3, <2>4, <2>5, <2>6, <2>7, <2>8, <2>9, <2>10, <2>11, <2>12, <2>13,
       <2>14
       DEF AccountType
<1>3. AccountShape'
  BY DEF Acc!UserAdd, AccountShape, Acc!Visible, Acc!NoUser, AccountInv, AccountLife,
         AccountType, LifeOf, UserPhase, GroupPhase, ShellPhase, Undoing, Acc!LifeTypeOK,
         Acc!Status
<1>4. UserMade'
  BY DEF Acc!UserAdd, UserMade, Claim, AccountInv, AccountLife, AccountType, LifeOf,
         UserPhase, GroupPhase, ShellPhase, Undoing, Acc!LifeTypeOK, Acc!Status,
         AccountShape, InOrder, Proceeded, Acc!Visible, Acc!Known, Acc!HasShell, Acc!NoUser,
         Acc!Params, Acc!User, Acc!LoginShell
<1>5. UserSound'
  BY DEF Acc!UserAdd, UserSound, Disputed, Acc!UidInUse, Acc!Visible, AccountInv,
         AccountLife, AccountType, LifeOf, UserPhase, GroupPhase, ShellPhase, Undoing,
         Acc!LifeTypeOK, Acc!Status, AccountShape, InOrder, Proceeded, Acc!Known,
         Acc!HasShell, Acc!NoUser, Acc!Params, Acc!User, Acc!LoginShell
<1>6. OthersSound'
  BY DEF Acc!UserAdd, OthersSound, Disputed, Acc!Known, Acc!HasShell, AccountInv,
         AccountLife, AccountType, LifeOf, UserPhase, GroupPhase, ShellPhase, Undoing,
         Acc!LifeTypeOK, Acc!Status, AccountShape, InOrder, Proceeded, Acc!Visible,
         Acc!NoUser, Acc!Params, Acc!User, Acc!LoginShell
<1>7. AccountEffect'
  BY DEF Acc!UserAdd, AccountEffect, Proceeded, Acc!Visible, AccountInv, AccountLife,
         AccountType, LifeOf, UserPhase, GroupPhase, ShellPhase, Undoing, Acc!LifeTypeOK,
         Acc!Status, AccountShape, InOrder, Acc!Known, Acc!HasShell, Acc!NoUser, Acc!Params,
         Acc!User, Acc!LoginShell
<1>8. FoundInv'
  BY DEF Acc!UserAdd, FoundInv, AccountInv, AccountLife, AccountType, LifeOf, UserPhase,
         GroupPhase, ShellPhase, Undoing, Acc!LifeTypeOK, Acc!Status, AccountShape, InOrder,
         Proceeded, Acc!Visible, Acc!Known, Acc!HasShell, Acc!NoUser, Acc!Params, Acc!User,
         Acc!LoginShell
<1>9. ShellsInv'
  BY DEF Acc!UserAdd, ShellsInv, Acc!ShellsKept, AccountInv, AccountLife, AccountType,
         LifeOf, UserPhase, GroupPhase, ShellPhase, Undoing, Acc!LifeTypeOK, Acc!Status
<1>10. AccountSettled'
  BY DEF Acc!UserAdd, AccountSettled, AccountEffect, Proceeded, Acc!Verdict,
         Acc!UserVerdict, Acc!GroupVerdict, Acc!ShellVerdict, Acc!Differs, Acc!UidInUse,
         Acc!Visible, Acc!Known, Acc!HasShell, AccountInv, AccountLife, AccountType, LifeOf,
         UserPhase, GroupPhase, ShellPhase, Undoing, Acc!LifeTypeOK, Acc!Status,
         AccountShape, InOrder, Acc!NoUser, Acc!Params, Acc!User, Acc!LoginShell
<1>11. AccountCalm'
  BY CalmKept DEF Acc!UserAdd, AccountCalm, AccountInv
<1>12. Acc!AccountKept'
  BY DEF Acc!UserAdd, Acc!AccountKept, Claim, UserMade, Acc!NoUser, AccountInv
<1>13. Acc!FreshAccountGone'
  BY DEF Acc!UserAdd, Acc!FreshAccountGone, UserSound, FoundInv, Acc!NoUser, AccountInv,
         AccountLife, AccountType, LifeOf, UserPhase, GroupPhase, ShellPhase, Undoing,
         Acc!LifeTypeOK, Acc!Status
<1>14. Acc!ShellRestored'
  BY DEF Acc!UserAdd, Acc!ShellRestored, FoundInv, AccountInv, AccountLife, AccountType,
         LifeOf, UserPhase, GroupPhase, ShellPhase, Undoing, Acc!LifeTypeOK, Acc!Status,
         AccountShape, InOrder, Proceeded, Acc!Visible, Acc!Known, Acc!HasShell, Acc!NoUser,
         Acc!Params, Acc!User, Acc!LoginShell
<1>15. Acc!ShellsKept'
  BY DEF Acc!UserAdd, Acc!ShellsKept, ShellsInv, AccountInv
<1>. QED
  BY <1>1, <1>2, <1>3, <1>4, <1>5, <1>6, <1>7, <1>8, <1>9, <1>10, <1>11, <1>12, <1>13,
     <1>14, <1>15
     DEF AccountInv

\* dscl -create.
LEMMA CreateRecordStep ==
  ASSUME AccountInv,
         Acc!CreateRecord,
         calm' = CalmNext
  PROVE  AccountInv'
<1>1. AccountLife'
  BY DEF Acc!CreateRecord, AccountLife, LifeOf, InOrder, Proceeded, UserPhase, GroupPhase,
         ShellPhase, Undoing, AccountInv, AccountType, Acc!LifeTypeOK, Acc!Status
<1>2. AccountType'
  BY DEF Acc!CreateRecord, AccountType, Acc!LifeTypeOK, Acc!Status, Acc!User,
         Acc!LoginShell, Acc!NoUser, AccountInv, AccountLife, LifeOf, UserPhase, GroupPhase,
         ShellPhase, Undoing
<1>3. AccountShape'
  BY DEF Acc!CreateRecord, AccountShape, Acc!Visible, Acc!NoUser, AccountInv, AccountLife,
         AccountType, LifeOf, UserPhase, GroupPhase, ShellPhase, Undoing, Acc!LifeTypeOK,
         Acc!Status
<1>4. UserMade'
  BY DEF Acc!CreateRecord, UserMade, Claim, AccountInv, AccountLife, AccountType, LifeOf,
         UserPhase, GroupPhase, ShellPhase, Undoing, Acc!LifeTypeOK, Acc!Status,
         AccountShape, InOrder, Proceeded, Acc!Visible, Acc!Known, Acc!HasShell, Acc!NoUser,
         Acc!Params, Acc!User, Acc!LoginShell
<1>5. UserSound'
  BY DEF Acc!CreateRecord, UserSound, Disputed, Acc!UidInUse, Acc!Visible, AccountInv,
         AccountLife, AccountType, LifeOf, UserPhase, GroupPhase, ShellPhase, Undoing,
         Acc!LifeTypeOK, Acc!Status
<1>6. OthersSound'
  BY DEF Acc!CreateRecord, OthersSound, Disputed, Acc!Known, Acc!HasShell, AccountInv,
         AccountLife, AccountType, LifeOf, UserPhase, GroupPhase, ShellPhase, Undoing,
         Acc!LifeTypeOK, Acc!Status, AccountShape, InOrder, Proceeded, Acc!Visible,
         Acc!NoUser, Acc!Params, Acc!User, Acc!LoginShell
<1>7. AccountEffect'
  BY DEF Acc!CreateRecord, AccountEffect, Proceeded, Acc!Visible, AccountInv, AccountLife,
         AccountType, LifeOf, UserPhase, GroupPhase, ShellPhase, Undoing, Acc!LifeTypeOK,
         Acc!Status, AccountShape, InOrder, Acc!Known, Acc!HasShell, Acc!NoUser, Acc!Params,
         Acc!User, Acc!LoginShell
<1>8. FoundInv'
  BY DEF Acc!CreateRecord, FoundInv, AccountInv, AccountLife, AccountType, LifeOf,
         UserPhase, GroupPhase, ShellPhase, Undoing, Acc!LifeTypeOK, Acc!Status,
         AccountShape, InOrder, Proceeded, Acc!Visible, Acc!Known, Acc!HasShell, Acc!NoUser,
         Acc!Params, Acc!User, Acc!LoginShell
<1>9. ShellsInv'
  BY DEF Acc!CreateRecord, ShellsInv, Acc!ShellsKept, AccountInv, AccountLife, AccountType,
         LifeOf, UserPhase, GroupPhase, ShellPhase, Undoing, Acc!LifeTypeOK, Acc!Status
<1>10. AccountSettled'
  BY DEF Acc!CreateRecord, AccountSettled, AccountEffect, Proceeded, Acc!Verdict,
         Acc!UserVerdict, Acc!GroupVerdict, Acc!ShellVerdict, Acc!Differs, Acc!UidInUse,
         Acc!Visible, Acc!Known, Acc!HasShell, AccountInv, AccountLife, AccountType, LifeOf,
         UserPhase, GroupPhase, ShellPhase, Undoing, Acc!LifeTypeOK, Acc!Status,
         AccountShape, InOrder, Acc!NoUser, Acc!Params, Acc!User, Acc!LoginShell
<1>11. AccountCalm'
  BY CalmKept DEF Acc!CreateRecord, AccountCalm, AccountInv
<1>12. Acc!AccountKept'
  BY DEF Acc!CreateRecord, Acc!AccountKept, Claim, UserMade, Acc!NoUser, AccountInv
<1>13. Acc!FreshAccountGone'
  BY DEF Acc!CreateRecord, Acc!FreshAccountGone, UserSound, FoundInv, Acc!NoUser,
         AccountInv, AccountLife, AccountType, LifeOf, UserPhase, GroupPhase, ShellPhase,
         Undoing, Acc!LifeTypeOK, Acc!Status
<1>14. Acc!ShellRestored'
  BY DEF Acc!CreateRecord, Acc!ShellRestored, FoundInv, AccountInv, AccountLife,
         AccountType, LifeOf, UserPhase, GroupPhase, ShellPhase, Undoing, Acc!LifeTypeOK,
         Acc!Status, AccountShape, InOrder, Proceeded, Acc!Visible, Acc!Known, Acc!HasShell,
         Acc!NoUser, Acc!Params, Acc!User, Acc!LoginShell
<1>15. Acc!ShellsKept'
  BY DEF Acc!CreateRecord, Acc!ShellsKept, ShellsInv, AccountInv
<1>. QED
  BY <1>1, <1>2, <1>3, <1>4, <1>5, <1>6, <1>7, <1>8, <1>9, <1>10, <1>11, <1>12, <1>13,
     <1>14, <1>15
     DEF AccountInv

\* The uid of the record.
LEMMA CreateUidStep ==
  ASSUME AccountInv,
         Acc!CreateUid,
         calm' = CalmNext
  PROVE  AccountInv'
<1>1. AccountLife'
  BY DEF Acc!CreateUid, AccountLife, LifeOf, InOrder, Proceeded, UserPhase, GroupPhase,
         ShellPhase, Undoing, AccountInv, AccountType, Acc!LifeTypeOK, Acc!Status
<1>2. AccountType'
  BY DEF Acc!CreateUid, AccountType, Acc!LifeTypeOK, Acc!Status, Acc!User, Acc!LoginShell,
         Acc!NoUser, AccountInv, AccountLife, LifeOf, UserPhase, GroupPhase, ShellPhase,
         Undoing
<1>3. AccountShape'
  BY DEF Acc!CreateUid, AccountShape, Acc!Visible, Acc!NoUser, AccountInv, AccountLife,
         AccountType, LifeOf, UserPhase, GroupPhase, ShellPhase, Undoing, Acc!LifeTypeOK,
         Acc!Status, InOrder, Proceeded, Acc!Known, Acc!HasShell, Acc!Params, Acc!User,
         Acc!LoginShell, UserSound, OthersSound, UserMade, AccountEffect, FoundInv,
         Disputed, Claim, Acc!UidInUse
<1>4. UserMade'
  BY DEF Acc!CreateUid, UserMade, Claim, AccountInv, AccountLife, AccountType, LifeOf,
         UserPhase, GroupPhase, ShellPhase, Undoing, Acc!LifeTypeOK, Acc!Status,
         AccountShape, InOrder, Proceeded, Acc!Visible, Acc!Known, Acc!HasShell, Acc!NoUser,
         Acc!Params, Acc!User, Acc!LoginShell
<1>5. UserSound'
  BY DEF Acc!CreateUid, UserSound, Disputed, Acc!UidInUse, Acc!Visible, AccountInv,
         AccountLife, AccountType, LifeOf, UserPhase, GroupPhase, ShellPhase, Undoing,
         Acc!LifeTypeOK, Acc!Status, AccountShape, InOrder, Proceeded, Acc!Known,
         Acc!HasShell, Acc!NoUser, Acc!Params, Acc!User, Acc!LoginShell
<1>6. OthersSound'
  BY DEF Acc!CreateUid, OthersSound, Disputed, Acc!Known, Acc!HasShell, AccountInv,
         AccountLife, AccountType, LifeOf, UserPhase, GroupPhase, ShellPhase, Undoing,
         Acc!LifeTypeOK, Acc!Status, AccountShape, InOrder, Proceeded, Acc!Visible,
         Acc!NoUser, Acc!Params, Acc!User, Acc!LoginShell
<1>7. AccountEffect'
  BY DEF Acc!CreateUid, AccountEffect, Proceeded, Acc!Visible, AccountInv, AccountLife,
         AccountType, LifeOf, UserPhase, GroupPhase, ShellPhase, Undoing, Acc!LifeTypeOK,
         Acc!Status, AccountShape, InOrder, Acc!Known, Acc!HasShell, Acc!NoUser, Acc!Params,
         Acc!User, Acc!LoginShell
<1>8. FoundInv'
  BY DEF Acc!CreateUid, FoundInv, AccountInv, AccountLife, AccountType, LifeOf, UserPhase,
         GroupPhase, ShellPhase, Undoing, Acc!LifeTypeOK, Acc!Status, AccountShape, InOrder,
         Proceeded, Acc!Visible, Acc!Known, Acc!HasShell, Acc!NoUser, Acc!Params, Acc!User,
         Acc!LoginShell
<1>9. ShellsInv'
  BY DEF Acc!CreateUid, ShellsInv, Acc!ShellsKept, AccountInv, AccountLife, AccountType,
         LifeOf, UserPhase, GroupPhase, ShellPhase, Undoing, Acc!LifeTypeOK, Acc!Status
<1>10. AccountSettled'
  BY DEF Acc!CreateUid, AccountSettled, AccountEffect, Proceeded, Acc!Verdict,
         Acc!UserVerdict, Acc!GroupVerdict, Acc!ShellVerdict, Acc!Differs, Acc!UidInUse,
         Acc!Visible, Acc!Known, Acc!HasShell, AccountInv, AccountLife, AccountType, LifeOf,
         UserPhase, GroupPhase, ShellPhase, Undoing, Acc!LifeTypeOK, Acc!Status,
         AccountShape, InOrder, Acc!NoUser, Acc!Params, Acc!User, Acc!LoginShell
<1>11. AccountCalm'
  BY CalmKept DEF Acc!CreateUid, AccountCalm, AccountInv
<1>12. Acc!AccountKept'
  BY DEF Acc!CreateUid, Acc!AccountKept, Claim, UserMade, Acc!NoUser, AccountInv,
         AccountLife, AccountType, LifeOf, UserPhase, GroupPhase, ShellPhase, Undoing,
         Acc!LifeTypeOK, Acc!Status, AccountShape, InOrder, Proceeded, Acc!Visible,
         Acc!Known, Acc!HasShell, Acc!Params, Acc!User, Acc!LoginShell
<1>13. Acc!FreshAccountGone'
  BY DEF Acc!CreateUid, Acc!FreshAccountGone, UserSound, FoundInv, Acc!NoUser, AccountInv,
         AccountLife, AccountType, LifeOf, UserPhase, GroupPhase, ShellPhase, Undoing,
         Acc!LifeTypeOK, Acc!Status
<1>14. Acc!ShellRestored'
  BY DEF Acc!CreateUid, Acc!ShellRestored, FoundInv, AccountInv, AccountLife, AccountType,
         LifeOf, UserPhase, GroupPhase, ShellPhase, Undoing, Acc!LifeTypeOK, Acc!Status,
         AccountShape, InOrder, Proceeded, Acc!Visible, Acc!Known, Acc!HasShell, Acc!NoUser,
         Acc!Params, Acc!User, Acc!LoginShell
<1>15. Acc!ShellsKept'
  BY DEF Acc!CreateUid, Acc!ShellsKept, ShellsInv, AccountInv
<1>. QED
  BY <1>1, <1>2, <1>3, <1>4, <1>5, <1>6, <1>7, <1>8, <1>9, <1>10, <1>11, <1>12, <1>13,
     <1>14, <1>15
     DEF AccountInv

\* The shell of the record.
LEMMA CreateShellStep ==
  ASSUME AccountInv,
         Acc!CreateShell,
         calm' = CalmNext
  PROVE  AccountInv'
<1>1. AccountLife'
  BY DEF Acc!CreateShell, AccountLife, LifeOf, InOrder, Proceeded, UserPhase, GroupPhase,
         ShellPhase, Undoing, AccountInv, AccountType, Acc!LifeTypeOK, Acc!Status
<1>2. AccountType'
  <2>1. (Acc!LifeTypeOK)'
    BY DEF Acc!CreateShell, AccountType, AccountInv, Acc!LifeTypeOK, Acc!Status
  <2>2. (faults \in BOOLEAN /\ ordered \in BOOLEAN /\ taken \in BOOLEAN)'
    BY DEF Acc!CreateShell, AccountType, AccountInv, Acc!LifeTypeOK, Acc!Status
  <2>3. (fresh \in BOOLEAN)'
    BY DEF Acc!CreateShell, AccountType, AccountInv
  <2>4. (created \in BOOLEAN)'
    BY DEF Acc!CreateShell, AccountType, AccountInv, Acc!LifeTypeOK, Acc!Status
  <2>5. (platform \in {"linux", "darwin"})'
    BY DEF Acc!CreateShell, AccountType, AccountInv, Acc!LifeTypeOK, Acc!Status
  <2>6. (params \in Acc!Params)'
    BY DEF Acc!CreateShell, AccountType, AccountInv, Acc!LifeTypeOK, Acc!Status
  <2>7. (user \in Acc!User)'
    BY DEF Acc!CreateShell, AccountType, Acc!LifeTypeOK, Acc!Status, Acc!User,
           Acc!LoginShell, Acc!NoUser, AccountInv, AccountLife, LifeOf, UserPhase,
           GroupPhase, ShellPhase, Undoing
  <2>8. (group \in {"none", "empty", "member"})'
    BY DEF Acc!CreateShell, AccountType, AccountInv, Acc!LifeTypeOK, Acc!Status
  <2>9. (shells \subseteq {"old", "fish", "zsh"})'
    BY DEF Acc!CreateShell, AccountType, AccountInv, Acc!LifeTypeOK, Acc!Status
  <2>10. (buffer \subseteq {"old", "fish", "zsh"})'
    BY DEF Acc!CreateShell, AccountType, AccountInv, Acc!LifeTypeOK, Acc!Status
  <2>11. (pre \in Acc!LoginShell \cup {"none"})'
    BY DEF Acc!CreateShell, AccountType, AccountInv, Acc!LifeTypeOK, Acc!Status
  <2>12. (other \in {"no", "added", "raced"})'
    BY DEF Acc!CreateShell, AccountType, AccountInv, Acc!LifeTypeOK, Acc!Status
  <2>13. (runs \in 1 .. MaxRuns)'
    BY DEF Acc!CreateShell, AccountType, AccountInv, Acc!LifeTypeOK, Acc!Status
  <2>14. (before \in [user : Acc!User, group : {"none", "empty", "member"},
                    shell : Acc!LoginShell \cup {"none"}])'
    BY DEF Acc!CreateShell, AccountType, AccountInv, Acc!LifeTypeOK, Acc!Status
  <2>. QED
    BY <2>1, <2>2, <2>3, <2>4, <2>5, <2>6, <2>7, <2>8, <2>9, <2>10, <2>11, <2>12, <2>13,
       <2>14
       DEF AccountType
<1>3. AccountShape'
  BY DEF Acc!CreateShell, AccountShape, Acc!Visible, Acc!NoUser, AccountInv, AccountLife,
         AccountType, LifeOf, UserPhase, GroupPhase, ShellPhase, Undoing, Acc!LifeTypeOK,
         Acc!Status, InOrder, Proceeded, Acc!Known, Acc!HasShell, Acc!Params, Acc!User,
         Acc!LoginShell, UserSound, OthersSound, UserMade, AccountEffect, FoundInv,
         Disputed, Claim, Acc!UidInUse
<1>4. UserMade'
  BY DEF Acc!CreateShell, UserMade, Claim, AccountInv, AccountLife, AccountType, LifeOf,
         UserPhase, GroupPhase, ShellPhase, Undoing, Acc!LifeTypeOK, Acc!Status
<1>5. UserSound'
  BY DEF Acc!CreateShell, UserSound, Disputed, Acc!UidInUse, Acc!Visible, AccountInv,
         AccountLife, AccountType, LifeOf, UserPhase, GroupPhase, ShellPhase, Undoing,
         Acc!LifeTypeOK, Acc!Status, AccountShape, InOrder, Proceeded, Acc!Known,
         Acc!HasShell, Acc!NoUser, Acc!Params, Acc!User, Acc!LoginShell, OthersSound,
         UserMade, AccountEffect, FoundInv, Claim
<1>6. OthersSound'
  BY DEF Acc!CreateShell, OthersSound, Disputed, Acc!Known, Acc!HasShell, AccountInv,
         AccountLife, AccountType, LifeOf, UserPhase, GroupPhase, ShellPhase, Undoing,
         Acc!LifeTypeOK, Acc!Status, AccountShape, InOrder, Proceeded, Acc!Visible,
         Acc!NoUser, Acc!Params, Acc!User, Acc!LoginShell
<1>7. AccountEffect'
  BY DEF Acc!CreateShell, AccountEffect, Proceeded, Acc!Visible, AccountInv, AccountLife,
         AccountType, LifeOf, UserPhase, GroupPhase, ShellPhase, Undoing, Acc!LifeTypeOK,
         Acc!Status, AccountShape, InOrder, Acc!Known, Acc!HasShell, Acc!NoUser, Acc!Params,
         Acc!User, Acc!LoginShell
<1>8. FoundInv'
  BY DEF Acc!CreateShell, FoundInv, AccountInv, AccountLife, AccountType, LifeOf, UserPhase,
         GroupPhase, ShellPhase, Undoing, Acc!LifeTypeOK, Acc!Status, AccountShape, InOrder,
         Proceeded, Acc!Visible, Acc!Known, Acc!HasShell, Acc!NoUser, Acc!Params, Acc!User,
         Acc!LoginShell
<1>9. ShellsInv'
  BY DEF Acc!CreateShell, ShellsInv, Acc!ShellsKept, AccountInv, AccountLife, AccountType,
         LifeOf, UserPhase, GroupPhase, ShellPhase, Undoing, Acc!LifeTypeOK, Acc!Status
<1>10. AccountSettled'
  BY DEF Acc!CreateShell, AccountSettled, AccountEffect, Proceeded, Acc!Verdict,
         Acc!UserVerdict, Acc!GroupVerdict, Acc!ShellVerdict, Acc!Differs, Acc!UidInUse,
         Acc!Visible, Acc!Known, Acc!HasShell, AccountInv, AccountLife, AccountType, LifeOf,
         UserPhase, GroupPhase, ShellPhase, Undoing, Acc!LifeTypeOK, Acc!Status,
         AccountShape, InOrder, Acc!NoUser, Acc!Params, Acc!User, Acc!LoginShell
<1>11. AccountCalm'
  BY CalmKept DEF Acc!CreateShell, AccountCalm, AccountInv
<1>12. Acc!AccountKept'
  BY DEF Acc!CreateShell, Acc!AccountKept, Claim, UserMade, Acc!NoUser, AccountInv,
         AccountLife, AccountType, LifeOf, UserPhase, GroupPhase, ShellPhase, Undoing,
         Acc!LifeTypeOK, Acc!Status, AccountShape, InOrder, Proceeded, Acc!Visible,
         Acc!Known, Acc!HasShell, Acc!Params, Acc!User, Acc!LoginShell
<1>13. Acc!FreshAccountGone'
  BY DEF Acc!CreateShell, Acc!FreshAccountGone, UserSound, FoundInv, Acc!NoUser, AccountInv,
         AccountLife, AccountType, LifeOf, UserPhase, GroupPhase, ShellPhase, Undoing,
         Acc!LifeTypeOK, Acc!Status
<1>14. Acc!ShellRestored'
  BY DEF Acc!CreateShell, Acc!ShellRestored, FoundInv, AccountInv, AccountLife, AccountType,
         LifeOf, UserPhase, GroupPhase, ShellPhase, Undoing, Acc!LifeTypeOK, Acc!Status,
         AccountShape, InOrder, Proceeded, Acc!Visible, Acc!Known, Acc!HasShell, Acc!NoUser,
         Acc!Params, Acc!User, Acc!LoginShell
<1>15. Acc!ShellsKept'
  BY DEF Acc!CreateShell, Acc!ShellsKept, ShellsInv, AccountInv
<1>. QED
  BY <1>1, <1>2, <1>3, <1>4, <1>5, <1>6, <1>7, <1>8, <1>9, <1>10, <1>11, <1>12, <1>13,
     <1>14, <1>15
     DEF AccountInv

\* usermod -aG or dscl -append.
LEMMA AddSupplementaryStep ==
  ASSUME AccountInv,
         Acc!AddSupplementary,
         calm' = CalmNext
  PROVE  AccountInv'
<1>1. AccountLife'
  BY DEF Acc!AddSupplementary, AccountLife, LifeOf, InOrder, Proceeded, UserPhase,
         GroupPhase, ShellPhase, Undoing, AccountInv, AccountType, Acc!LifeTypeOK,
         Acc!Status
<1>2. AccountType'
  BY DEF Acc!AddSupplementary, AccountType, AccountInv, Acc!LifeTypeOK, Acc!Status
<1>3. AccountShape'
  BY DEF Acc!AddSupplementary, AccountShape, Acc!Visible, Acc!NoUser, AccountInv,
         AccountLife, AccountType, LifeOf, UserPhase, GroupPhase, ShellPhase, Undoing,
         Acc!LifeTypeOK, Acc!Status
<1>4. UserMade'
  BY DEF Acc!AddSupplementary, UserMade, Claim, AccountInv, AccountLife, AccountType,
         LifeOf, UserPhase, GroupPhase, ShellPhase, Undoing, Acc!LifeTypeOK, Acc!Status
<1>5. UserSound'
  BY DEF Acc!AddSupplementary, UserSound, Disputed, Acc!UidInUse, Acc!Visible, AccountInv,
         AccountLife, AccountType, LifeOf, UserPhase, GroupPhase, ShellPhase, Undoing,
         Acc!LifeTypeOK, Acc!Status
<1>6. OthersSound'
  BY DEF Acc!AddSupplementary, OthersSound, Disputed, Acc!Known, Acc!HasShell, AccountInv,
         AccountLife, AccountType, LifeOf, UserPhase, GroupPhase, ShellPhase, Undoing,
         Acc!LifeTypeOK, Acc!Status
<1>7. AccountEffect'
  BY DEF Acc!AddSupplementary, AccountEffect, Proceeded, Acc!Visible, AccountInv,
         AccountLife, AccountType, LifeOf, UserPhase, GroupPhase, ShellPhase, Undoing,
         Acc!LifeTypeOK, Acc!Status
<1>8. FoundInv'
  BY DEF Acc!AddSupplementary, FoundInv, AccountInv, AccountLife, AccountType, LifeOf,
         UserPhase, GroupPhase, ShellPhase, Undoing, Acc!LifeTypeOK, Acc!Status
<1>9. ShellsInv'
  BY DEF Acc!AddSupplementary, ShellsInv, Acc!ShellsKept, AccountInv, AccountLife,
         AccountType, LifeOf, UserPhase, GroupPhase, ShellPhase, Undoing, Acc!LifeTypeOK,
         Acc!Status
<1>10. AccountSettled'
  BY DEF Acc!AddSupplementary, AccountSettled, AccountEffect, Proceeded, Acc!Verdict,
         Acc!UserVerdict, Acc!GroupVerdict, Acc!ShellVerdict, Acc!Differs, Acc!UidInUse,
         Acc!Visible, Acc!Known, Acc!HasShell, AccountInv
<1>11. AccountCalm'
  BY CalmKept DEF Acc!AddSupplementary, AccountCalm, AccountInv
<1>12. Acc!AccountKept'
  BY DEF Acc!AddSupplementary, Acc!AccountKept, Claim, UserMade, Acc!NoUser, AccountInv
<1>13. Acc!FreshAccountGone'
  BY DEF Acc!AddSupplementary, Acc!FreshAccountGone, UserSound, FoundInv, Acc!NoUser,
         AccountInv, AccountLife, AccountType, LifeOf, UserPhase, GroupPhase, ShellPhase,
         Undoing, Acc!LifeTypeOK, Acc!Status
<1>14. Acc!ShellRestored'
  BY DEF Acc!AddSupplementary, Acc!ShellRestored, FoundInv, AccountInv, AccountLife,
         AccountType, LifeOf, UserPhase, GroupPhase, ShellPhase, Undoing, Acc!LifeTypeOK,
         Acc!Status
<1>15. Acc!ShellsKept'
  BY DEF Acc!AddSupplementary, Acc!ShellsKept, ShellsInv, AccountInv
<1>. QED
  BY <1>1, <1>2, <1>3, <1>4, <1>5, <1>6, <1>7, <1>8, <1>9, <1>10, <1>11, <1>12, <1>13,
     <1>14, <1>15
     DEF AccountInv

\* ensure_user looks the account up again.
LEMMA CheckUserStep ==
  ASSUME AccountInv,
         Acc!CheckUser,
         calm' = CalmNext
  PROVE  AccountInv'
<1>1. AccountLife'
  BY DEF Acc!CheckUser, AccountLife, LifeOf, InOrder, Proceeded, UserPhase, GroupPhase,
         ShellPhase, Undoing, AccountInv, AccountType, Acc!LifeTypeOK, Acc!Status
<1>2. AccountType'
  BY DEF Acc!CheckUser, AccountType, AccountInv, Acc!LifeTypeOK, Acc!Status
<1>3. AccountShape'
  BY DEF Acc!CheckUser, AccountShape, Acc!Visible, Acc!NoUser, AccountInv, AccountLife,
         AccountType, LifeOf, UserPhase, GroupPhase, ShellPhase, Undoing, Acc!LifeTypeOK,
         Acc!Status
<1>4. UserMade'
  BY DEF Acc!CheckUser, UserMade, Claim, AccountInv, AccountLife, AccountType, LifeOf,
         UserPhase, GroupPhase, ShellPhase, Undoing, Acc!LifeTypeOK, Acc!Status
<1>5. UserSound'
  BY DEF Acc!CheckUser, UserSound, Disputed, Acc!UidInUse, Acc!Visible, AccountInv,
         AccountLife, AccountType, LifeOf, UserPhase, GroupPhase, ShellPhase, Undoing,
         Acc!LifeTypeOK, Acc!Status, AccountShape, InOrder, Proceeded, Acc!Known,
         Acc!HasShell, Acc!NoUser, Acc!Params, Acc!User, Acc!LoginShell
<1>6. OthersSound'
  BY DEF Acc!CheckUser, OthersSound, Disputed, Acc!Known, Acc!HasShell, AccountInv,
         AccountLife, AccountType, LifeOf, UserPhase, GroupPhase, ShellPhase, Undoing,
         Acc!LifeTypeOK, Acc!Status
<1>7. AccountEffect'
  BY DEF Acc!CheckUser, AccountEffect, Proceeded, Acc!Visible, AccountInv, AccountLife,
         AccountType, LifeOf, UserPhase, GroupPhase, ShellPhase, Undoing, Acc!LifeTypeOK,
         Acc!Status
<1>8. FoundInv'
  BY DEF Acc!CheckUser, FoundInv, AccountInv, AccountLife, AccountType, LifeOf, UserPhase,
         GroupPhase, ShellPhase, Undoing, Acc!LifeTypeOK, Acc!Status
<1>9. ShellsInv'
  BY DEF Acc!CheckUser, ShellsInv, Acc!ShellsKept, AccountInv, AccountLife, AccountType,
         LifeOf, UserPhase, GroupPhase, ShellPhase, Undoing, Acc!LifeTypeOK, Acc!Status
<1>10. AccountSettled'
  BY DEF Acc!CheckUser, AccountSettled, AccountEffect, Proceeded, Acc!Verdict,
         Acc!UserVerdict, Acc!GroupVerdict, Acc!ShellVerdict, Acc!Differs, Acc!UidInUse,
         Acc!Visible, Acc!Known, Acc!HasShell, AccountInv
<1>11. AccountCalm'
  BY CalmKept DEF Acc!CheckUser, AccountCalm, AccountInv
<1>12. Acc!AccountKept'
  BY DEF Acc!CheckUser, Acc!AccountKept, Claim, UserMade, Acc!NoUser, AccountInv
<1>13. Acc!FreshAccountGone'
  BY DEF Acc!CheckUser, Acc!FreshAccountGone, UserSound, FoundInv, Acc!NoUser, AccountInv,
         AccountLife, AccountType, LifeOf, UserPhase, GroupPhase, ShellPhase, Undoing,
         Acc!LifeTypeOK, Acc!Status
<1>14. Acc!ShellRestored'
  BY DEF Acc!CheckUser, Acc!ShellRestored, FoundInv, AccountInv, AccountLife, AccountType,
         LifeOf, UserPhase, GroupPhase, ShellPhase, Undoing, Acc!LifeTypeOK, Acc!Status
<1>15. Acc!ShellsKept'
  BY DEF Acc!CheckUser, Acc!ShellsKept, ShellsInv, AccountInv
<1>. QED
  BY <1>1, <1>2, <1>3, <1>4, <1>5, <1>6, <1>7, <1>8, <1>9, <1>10, <1>11, <1>12, <1>13,
     <1>14, <1>15
     DEF AccountInv

\* The inverse: userdel or dscl -delete.
LEMMA DeleteUserStep ==
  ASSUME AccountInv,
         Acc!DeleteUser,
         calm' = CalmNext
  PROVE  AccountInv'
<1>1. AccountLife'
  BY DEF Acc!DeleteUser, AccountLife, LifeOf, InOrder, Proceeded, UserPhase, GroupPhase,
         ShellPhase, Undoing, AccountInv, AccountType, Acc!LifeTypeOK, Acc!Status
<1>2. AccountType'
  BY DEF Acc!DeleteUser, AccountType, Acc!LifeTypeOK, Acc!Status, Acc!User, Acc!LoginShell,
         Acc!NoUser, AccountInv, AccountLife, LifeOf, UserPhase, GroupPhase, ShellPhase,
         Undoing
<1>3. AccountShape'
  BY DEF Acc!DeleteUser, AccountShape, Acc!Visible, Acc!NoUser, AccountInv, AccountLife,
         AccountType, LifeOf, UserPhase, GroupPhase, ShellPhase, Undoing, Acc!LifeTypeOK,
         Acc!Status
<1>4. UserMade'
  BY DEF Acc!DeleteUser, UserMade, Claim, AccountInv, AccountLife, AccountType, LifeOf,
         UserPhase, GroupPhase, ShellPhase, Undoing, Acc!LifeTypeOK, Acc!Status
<1>5. UserSound'
  BY DEF Acc!DeleteUser, UserSound, Disputed, Acc!UidInUse, Acc!Visible, AccountInv,
         AccountLife, AccountType, LifeOf, UserPhase, GroupPhase, ShellPhase, Undoing,
         Acc!LifeTypeOK, Acc!Status
<1>6. OthersSound'
  BY DEF Acc!DeleteUser, OthersSound, Disputed, Acc!Known, Acc!HasShell, AccountInv,
         AccountLife, AccountType, LifeOf, UserPhase, GroupPhase, ShellPhase, Undoing,
         Acc!LifeTypeOK, Acc!Status, AccountShape, InOrder, Proceeded, Acc!Visible,
         Acc!NoUser, Acc!Params, Acc!User, Acc!LoginShell, UserSound, UserMade,
         AccountEffect, FoundInv, Claim, Acc!UidInUse
<1>7. AccountEffect'
  BY DEF Acc!DeleteUser, AccountEffect, Proceeded, Acc!Visible, AccountInv, AccountLife,
         AccountType, LifeOf, UserPhase, GroupPhase, ShellPhase, Undoing, Acc!LifeTypeOK,
         Acc!Status, AccountShape, InOrder, Acc!Known, Acc!HasShell, Acc!NoUser, Acc!Params,
         Acc!User, Acc!LoginShell
<1>8. FoundInv'
  BY DEF Acc!DeleteUser, FoundInv, AccountInv, AccountLife, AccountType, LifeOf, UserPhase,
         GroupPhase, ShellPhase, Undoing, Acc!LifeTypeOK, Acc!Status, AccountShape, InOrder,
         Proceeded, Acc!Visible, Acc!Known, Acc!HasShell, Acc!NoUser, Acc!Params, Acc!User,
         Acc!LoginShell
<1>9. ShellsInv'
  BY DEF Acc!DeleteUser, ShellsInv, Acc!ShellsKept, AccountInv, AccountLife, AccountType,
         LifeOf, UserPhase, GroupPhase, ShellPhase, Undoing, Acc!LifeTypeOK, Acc!Status
<1>10. AccountSettled'
  BY DEF Acc!DeleteUser, AccountSettled, AccountEffect, Proceeded, Acc!Verdict,
         Acc!UserVerdict, Acc!GroupVerdict, Acc!ShellVerdict, Acc!Differs, Acc!UidInUse,
         Acc!Visible, Acc!Known, Acc!HasShell, AccountInv, AccountLife, AccountType, LifeOf,
         UserPhase, GroupPhase, ShellPhase, Undoing, Acc!LifeTypeOK, Acc!Status,
         AccountShape, InOrder, Acc!NoUser, Acc!Params, Acc!User, Acc!LoginShell
<1>11. AccountCalm'
  BY CalmKept DEF Acc!DeleteUser, AccountCalm, AccountInv
<1>12. Acc!AccountKept'
  BY DEF Acc!DeleteUser, Acc!AccountKept, Claim, UserMade, Acc!NoUser, AccountInv,
         AccountLife, AccountType, LifeOf, UserPhase, GroupPhase, ShellPhase, Undoing,
         Acc!LifeTypeOK, Acc!Status, AccountShape, InOrder, Proceeded, Acc!Visible,
         Acc!Known, Acc!HasShell, Acc!Params, Acc!User, Acc!LoginShell, UserSound,
         OthersSound, AccountEffect, FoundInv, Disputed, Acc!UidInUse
<1>13. Acc!FreshAccountGone'
  BY DEF Acc!DeleteUser, Acc!FreshAccountGone, UserSound, FoundInv, Acc!NoUser, AccountInv,
         AccountLife, AccountType, LifeOf, UserPhase, GroupPhase, ShellPhase, Undoing,
         Acc!LifeTypeOK, Acc!Status, AccountShape, InOrder, Proceeded, Acc!Visible,
         Acc!Known, Acc!HasShell, Acc!Params, Acc!User, Acc!LoginShell
<1>14. Acc!ShellRestored'
  BY DEF Acc!DeleteUser, Acc!ShellRestored, FoundInv, AccountInv, AccountLife, AccountType,
         LifeOf, UserPhase, GroupPhase, ShellPhase, Undoing, Acc!LifeTypeOK, Acc!Status,
         AccountShape, InOrder, Proceeded, Acc!Visible, Acc!Known, Acc!HasShell, Acc!NoUser,
         Acc!Params, Acc!User, Acc!LoginShell
<1>15. Acc!ShellsKept'
  BY DEF Acc!DeleteUser, Acc!ShellsKept, ShellsInv, AccountInv
<1>. QED
  BY <1>1, <1>2, <1>3, <1>4, <1>5, <1>6, <1>7, <1>8, <1>9, <1>10, <1>11, <1>12, <1>13,
     <1>14, <1>15
     DEF AccountInv

\* ensure_group_membership looks the group up.
LEMMA ProbeGroupStep ==
  ASSUME AccountInv,
         Acc!ProbeGroup,
         calm' = CalmNext
  PROVE  AccountInv'
<1>1. AccountLife'
  BY DEF Acc!ProbeGroup, AccountLife, LifeOf, InOrder, Proceeded, UserPhase, GroupPhase,
         ShellPhase, Undoing, AccountInv, AccountType, Acc!LifeTypeOK, Acc!Status
<1>2. AccountType'
  BY DEF Acc!ProbeGroup, AccountType, AccountInv, Acc!LifeTypeOK, Acc!Status
<1>3. AccountShape'
  BY DEF Acc!ProbeGroup, AccountShape, Acc!Visible, Acc!NoUser, AccountInv, AccountLife,
         AccountType, LifeOf, UserPhase, GroupPhase, ShellPhase, Undoing, Acc!LifeTypeOK,
         Acc!Status
<1>4. UserMade'
  BY DEF Acc!ProbeGroup, UserMade, Claim, AccountInv, AccountLife, AccountType, LifeOf,
         UserPhase, GroupPhase, ShellPhase, Undoing, Acc!LifeTypeOK, Acc!Status
<1>5. UserSound'
  BY DEF Acc!ProbeGroup, UserSound, Disputed, Acc!UidInUse, Acc!Visible, AccountInv,
         AccountLife, AccountType, LifeOf, UserPhase, GroupPhase, ShellPhase, Undoing,
         Acc!LifeTypeOK, Acc!Status
<1>6. OthersSound'
  BY DEF Acc!ProbeGroup, OthersSound, Disputed, Acc!Known, Acc!HasShell, AccountInv,
         AccountLife, AccountType, LifeOf, UserPhase, GroupPhase, ShellPhase, Undoing,
         Acc!LifeTypeOK, Acc!Status
<1>7. AccountEffect'
  BY DEF Acc!ProbeGroup, AccountEffect, Proceeded, Acc!Visible, AccountInv
<1>8. FoundInv'
  BY DEF Acc!ProbeGroup, FoundInv, AccountInv, AccountLife, AccountType, LifeOf, UserPhase,
         GroupPhase, ShellPhase, Undoing, Acc!LifeTypeOK, Acc!Status
<1>9. ShellsInv'
  BY DEF Acc!ProbeGroup, ShellsInv, Acc!ShellsKept, AccountInv, AccountLife, AccountType,
         LifeOf, UserPhase, GroupPhase, ShellPhase, Undoing, Acc!LifeTypeOK, Acc!Status
<1>10. AccountSettled'
  BY DEF Acc!ProbeGroup, AccountSettled, AccountEffect, Proceeded, Acc!Verdict,
         Acc!UserVerdict, Acc!GroupVerdict, Acc!ShellVerdict, Acc!Differs, Acc!UidInUse,
         Acc!Visible, Acc!Known, Acc!HasShell, AccountInv
<1>11. AccountCalm'
  BY CalmKept DEF Acc!ProbeGroup, AccountCalm, AccountInv, AccountType, Acc!Verdict,
                  Acc!UserVerdict, Acc!GroupVerdict, Acc!ShellVerdict, Acc!Differs,
                  Acc!UidInUse, Acc!Visible, Acc!Known, Acc!HasShell
<1>12. Acc!AccountKept'
  BY DEF Acc!ProbeGroup, Acc!AccountKept, Claim, UserMade, Acc!NoUser, AccountInv
<1>13. Acc!FreshAccountGone'
  BY DEF Acc!ProbeGroup, Acc!FreshAccountGone, UserSound, FoundInv, Acc!NoUser, AccountInv
<1>14. Acc!ShellRestored'
  BY DEF Acc!ProbeGroup, Acc!ShellRestored, FoundInv, AccountInv, AccountLife, AccountType,
         LifeOf, UserPhase, GroupPhase, ShellPhase, Undoing, Acc!LifeTypeOK, Acc!Status
<1>15. Acc!ShellsKept'
  BY DEF Acc!ProbeGroup, Acc!ShellsKept, ShellsInv, AccountInv
<1>. QED
  BY <1>1, <1>2, <1>3, <1>4, <1>5, <1>6, <1>7, <1>8, <1>9, <1>10, <1>11, <1>12, <1>13,
     <1>14, <1>15
     DEF AccountInv

\* groupadd or dscl -create.
LEMMA CreateGroupStep ==
  ASSUME AccountInv,
         Acc!CreateGroup,
         calm' = CalmNext
  PROVE  AccountInv'
<1>1. AccountLife'
  BY DEF Acc!CreateGroup, AccountLife, LifeOf, InOrder, Proceeded, UserPhase, GroupPhase,
         ShellPhase, Undoing, AccountInv, AccountType, Acc!LifeTypeOK, Acc!Status
<1>2. AccountType'
  BY DEF Acc!CreateGroup, AccountType, AccountInv, Acc!LifeTypeOK, Acc!Status
<1>3. AccountShape'
  BY DEF Acc!CreateGroup, AccountShape, Acc!Visible, Acc!NoUser, AccountInv, AccountLife,
         AccountType, LifeOf, UserPhase, GroupPhase, ShellPhase, Undoing, Acc!LifeTypeOK,
         Acc!Status
<1>4. UserMade'
  BY DEF Acc!CreateGroup, UserMade, Claim, AccountInv, AccountLife, AccountType, LifeOf,
         UserPhase, GroupPhase, ShellPhase, Undoing, Acc!LifeTypeOK, Acc!Status
<1>5. UserSound'
  BY DEF Acc!CreateGroup, UserSound, Disputed, Acc!UidInUse, Acc!Visible, AccountInv,
         AccountLife, AccountType, LifeOf, UserPhase, GroupPhase, ShellPhase, Undoing,
         Acc!LifeTypeOK, Acc!Status, AccountShape, InOrder, Proceeded, Acc!Known,
         Acc!HasShell, Acc!NoUser, Acc!Params, Acc!User, Acc!LoginShell
<1>6. OthersSound'
  BY DEF Acc!CreateGroup, OthersSound, Disputed, Acc!Known, Acc!HasShell, AccountInv,
         AccountLife, AccountType, LifeOf, UserPhase, GroupPhase, ShellPhase, Undoing,
         Acc!LifeTypeOK, Acc!Status
<1>7. AccountEffect'
  BY DEF Acc!CreateGroup, AccountEffect, Proceeded, Acc!Visible, AccountInv, AccountLife,
         AccountType, LifeOf, UserPhase, GroupPhase, ShellPhase, Undoing, Acc!LifeTypeOK,
         Acc!Status
<1>8. FoundInv'
  BY DEF Acc!CreateGroup, FoundInv, AccountInv, AccountLife, AccountType, LifeOf, UserPhase,
         GroupPhase, ShellPhase, Undoing, Acc!LifeTypeOK, Acc!Status
<1>9. ShellsInv'
  BY DEF Acc!CreateGroup, ShellsInv, Acc!ShellsKept, AccountInv, AccountLife, AccountType,
         LifeOf, UserPhase, GroupPhase, ShellPhase, Undoing, Acc!LifeTypeOK, Acc!Status
<1>10. AccountSettled'
  BY DEF Acc!CreateGroup, AccountSettled, AccountEffect, Proceeded, Acc!Verdict,
         Acc!UserVerdict, Acc!GroupVerdict, Acc!ShellVerdict, Acc!Differs, Acc!UidInUse,
         Acc!Visible, Acc!Known, Acc!HasShell, AccountInv, AccountLife, AccountType, LifeOf,
         UserPhase, GroupPhase, ShellPhase, Undoing, Acc!LifeTypeOK, Acc!Status
<1>11. AccountCalm'
  BY CalmKept DEF Acc!CreateGroup, AccountCalm, AccountInv, AccountType, Acc!Verdict,
                  Acc!UserVerdict, Acc!GroupVerdict, Acc!ShellVerdict, Acc!Differs,
                  Acc!UidInUse, Acc!Visible, Acc!Known, Acc!HasShell
<1>12. Acc!AccountKept'
  BY DEF Acc!CreateGroup, Acc!AccountKept, Claim, UserMade, Acc!NoUser, AccountInv
<1>13. Acc!FreshAccountGone'
  BY DEF Acc!CreateGroup, Acc!FreshAccountGone, UserSound, FoundInv, Acc!NoUser, AccountInv,
         AccountLife, AccountType, LifeOf, UserPhase, GroupPhase, ShellPhase, Undoing,
         Acc!LifeTypeOK, Acc!Status
<1>14. Acc!ShellRestored'
  BY DEF Acc!CreateGroup, Acc!ShellRestored, FoundInv, AccountInv, AccountLife, AccountType,
         LifeOf, UserPhase, GroupPhase, ShellPhase, Undoing, Acc!LifeTypeOK, Acc!Status
<1>15. Acc!ShellsKept'
  BY DEF Acc!CreateGroup, Acc!ShellsKept, ShellsInv, AccountInv
<1>. QED
  BY <1>1, <1>2, <1>3, <1>4, <1>5, <1>6, <1>7, <1>8, <1>9, <1>10, <1>11, <1>12, <1>13,
     <1>14, <1>15
     DEF AccountInv

\* The member is added.
LEMMA AddMemberStep ==
  ASSUME AccountInv,
         Acc!AddMember,
         calm' = CalmNext
  PROVE  AccountInv'
<1>1. AccountLife'
  BY DEF Acc!AddMember, AccountLife, LifeOf, InOrder, Proceeded, UserPhase, GroupPhase,
         ShellPhase, Undoing, AccountInv, AccountType, Acc!LifeTypeOK, Acc!Status
<1>2. AccountType'
  BY DEF Acc!AddMember, AccountType, AccountInv, Acc!LifeTypeOK, Acc!Status
<1>3. AccountShape'
  BY DEF Acc!AddMember, AccountShape, Acc!Visible, Acc!NoUser, AccountInv, AccountLife,
         AccountType, LifeOf, UserPhase, GroupPhase, ShellPhase, Undoing, Acc!LifeTypeOK,
         Acc!Status
<1>4. UserMade'
  BY DEF Acc!AddMember, UserMade, Claim, AccountInv, AccountLife, AccountType, LifeOf,
         UserPhase, GroupPhase, ShellPhase, Undoing, Acc!LifeTypeOK, Acc!Status
<1>5. UserSound'
  BY DEF Acc!AddMember, UserSound, Disputed, Acc!UidInUse, Acc!Visible, AccountInv,
         AccountLife, AccountType, LifeOf, UserPhase, GroupPhase, ShellPhase, Undoing,
         Acc!LifeTypeOK, Acc!Status
<1>6. OthersSound'
  BY DEF Acc!AddMember, OthersSound, Disputed, Acc!Known, Acc!HasShell, AccountInv,
         AccountLife, AccountType, LifeOf, UserPhase, GroupPhase, ShellPhase, Undoing,
         Acc!LifeTypeOK, Acc!Status
<1>7. AccountEffect'
  BY DEF Acc!AddMember, AccountEffect, Proceeded, Acc!Visible, AccountInv
<1>8. FoundInv'
  BY DEF Acc!AddMember, FoundInv, AccountInv, AccountLife, AccountType, LifeOf, UserPhase,
         GroupPhase, ShellPhase, Undoing, Acc!LifeTypeOK, Acc!Status, AccountShape, InOrder,
         Proceeded, Acc!Visible, Acc!Known, Acc!HasShell, Acc!NoUser, Acc!Params, Acc!User,
         Acc!LoginShell, UserSound, OthersSound, UserMade, AccountEffect, Disputed, Claim,
         Acc!UidInUse
<1>9. ShellsInv'
  BY DEF Acc!AddMember, ShellsInv, Acc!ShellsKept, AccountInv, AccountLife, AccountType,
         LifeOf, UserPhase, GroupPhase, ShellPhase, Undoing, Acc!LifeTypeOK, Acc!Status
<1>10. AccountSettled'
  BY DEF Acc!AddMember, AccountSettled, AccountEffect, Proceeded, Acc!Verdict,
         Acc!UserVerdict, Acc!GroupVerdict, Acc!ShellVerdict, Acc!Differs, Acc!UidInUse,
         Acc!Visible, Acc!Known, Acc!HasShell, AccountInv
<1>11. AccountCalm'
  BY CalmKept DEF Acc!AddMember, AccountCalm, AccountInv, AccountType, Acc!Verdict,
                  Acc!UserVerdict, Acc!GroupVerdict, Acc!ShellVerdict, Acc!Differs,
                  Acc!UidInUse, Acc!Visible, Acc!Known, Acc!HasShell
<1>12. Acc!AccountKept'
  BY DEF Acc!AddMember, Acc!AccountKept, Claim, UserMade, Acc!NoUser, AccountInv
<1>13. Acc!FreshAccountGone'
  BY DEF Acc!AddMember, Acc!FreshAccountGone, UserSound, FoundInv, Acc!NoUser, AccountInv,
         AccountLife, AccountType, LifeOf, UserPhase, GroupPhase, ShellPhase, Undoing,
         Acc!LifeTypeOK, Acc!Status
<1>14. Acc!ShellRestored'
  BY DEF Acc!AddMember, Acc!ShellRestored, FoundInv, AccountInv, AccountLife, AccountType,
         LifeOf, UserPhase, GroupPhase, ShellPhase, Undoing, Acc!LifeTypeOK, Acc!Status
<1>15. Acc!ShellsKept'
  BY DEF Acc!AddMember, Acc!ShellsKept, ShellsInv, AccountInv
<1>. QED
  BY <1>1, <1>2, <1>3, <1>4, <1>5, <1>6, <1>7, <1>8, <1>9, <1>10, <1>11, <1>12, <1>13,
     <1>14, <1>15
     DEF AccountInv

\* The inverse removes it.
LEMMA RemoveMemberStep ==
  ASSUME AccountInv,
         Acc!RemoveMember,
         calm' = CalmNext
  PROVE  AccountInv'
<1>1. AccountLife'
  BY DEF Acc!RemoveMember, AccountLife, LifeOf, InOrder, Proceeded, UserPhase, GroupPhase,
         ShellPhase, Undoing, AccountInv, AccountType, Acc!LifeTypeOK, Acc!Status
<1>2. AccountType'
  BY DEF Acc!RemoveMember, AccountType, AccountInv, Acc!LifeTypeOK, Acc!Status
<1>3. AccountShape'
  BY DEF Acc!RemoveMember, AccountShape, Acc!Visible, Acc!NoUser, AccountInv, AccountLife,
         AccountType, LifeOf, UserPhase, GroupPhase, ShellPhase, Undoing, Acc!LifeTypeOK,
         Acc!Status
<1>4. UserMade'
  BY DEF Acc!RemoveMember, UserMade, Claim, AccountInv, AccountLife, AccountType, LifeOf,
         UserPhase, GroupPhase, ShellPhase, Undoing, Acc!LifeTypeOK, Acc!Status
<1>5. UserSound'
  BY DEF Acc!RemoveMember, UserSound, Disputed, Acc!UidInUse, Acc!Visible, AccountInv,
         AccountLife, AccountType, LifeOf, UserPhase, GroupPhase, ShellPhase, Undoing,
         Acc!LifeTypeOK, Acc!Status, AccountShape, InOrder, Proceeded, Acc!Known,
         Acc!HasShell, Acc!NoUser, Acc!Params, Acc!User, Acc!LoginShell, OthersSound,
         UserMade, AccountEffect, FoundInv, Claim
<1>6. OthersSound'
  BY DEF Acc!RemoveMember, OthersSound, Disputed, Acc!Known, Acc!HasShell, AccountInv,
         AccountLife, AccountType, LifeOf, UserPhase, GroupPhase, ShellPhase, Undoing,
         Acc!LifeTypeOK, Acc!Status
<1>7. AccountEffect'
  BY DEF Acc!RemoveMember, AccountEffect, Proceeded, Acc!Visible, AccountInv, AccountLife,
         AccountType, LifeOf, UserPhase, GroupPhase, ShellPhase, Undoing, Acc!LifeTypeOK,
         Acc!Status
<1>8. FoundInv'
  BY DEF Acc!RemoveMember, FoundInv, AccountInv, AccountLife, AccountType, LifeOf,
         UserPhase, GroupPhase, ShellPhase, Undoing, Acc!LifeTypeOK, Acc!Status,
         AccountShape, InOrder, Proceeded, Acc!Visible, Acc!Known, Acc!HasShell, Acc!NoUser,
         Acc!Params, Acc!User, Acc!LoginShell, UserSound, OthersSound, UserMade,
         AccountEffect, Disputed, Claim, Acc!UidInUse
<1>9. ShellsInv'
  BY DEF Acc!RemoveMember, ShellsInv, Acc!ShellsKept, AccountInv, AccountLife, AccountType,
         LifeOf, UserPhase, GroupPhase, ShellPhase, Undoing, Acc!LifeTypeOK, Acc!Status
<1>10. AccountSettled'
  BY DEF Acc!RemoveMember, AccountSettled, AccountEffect, Proceeded, Acc!Verdict,
         Acc!UserVerdict, Acc!GroupVerdict, Acc!ShellVerdict, Acc!Differs, Acc!UidInUse,
         Acc!Visible, Acc!Known, Acc!HasShell, AccountInv, AccountLife, AccountType, LifeOf,
         UserPhase, GroupPhase, ShellPhase, Undoing, Acc!LifeTypeOK, Acc!Status
<1>11. AccountCalm'
  BY CalmKept DEF Acc!RemoveMember, AccountCalm, AccountInv, AccountType, Acc!Verdict,
                  Acc!UserVerdict, Acc!GroupVerdict, Acc!ShellVerdict, Acc!Differs,
                  Acc!UidInUse, Acc!Visible, Acc!Known, Acc!HasShell
<1>12. Acc!AccountKept'
  BY DEF Acc!RemoveMember, Acc!AccountKept, Claim, UserMade, Acc!NoUser, AccountInv
<1>13. Acc!FreshAccountGone'
  BY DEF Acc!RemoveMember, Acc!FreshAccountGone, UserSound, FoundInv, Acc!NoUser,
         AccountInv, AccountLife, AccountType, LifeOf, UserPhase, GroupPhase, ShellPhase,
         Undoing, Acc!LifeTypeOK, Acc!Status, AccountShape, InOrder, Proceeded, Acc!Visible,
         Acc!Known, Acc!HasShell, Acc!Params, Acc!User, Acc!LoginShell, OthersSound,
         UserMade, AccountEffect, Disputed, Claim, Acc!UidInUse
<1>14. Acc!ShellRestored'
  BY DEF Acc!RemoveMember, Acc!ShellRestored, FoundInv, AccountInv, AccountLife,
         AccountType, LifeOf, UserPhase, GroupPhase, ShellPhase, Undoing, Acc!LifeTypeOK,
         Acc!Status
<1>15. Acc!ShellsKept'
  BY DEF Acc!RemoveMember, Acc!ShellsKept, ShellsInv, AccountInv
<1>. QED
  BY <1>1, <1>2, <1>3, <1>4, <1>5, <1>6, <1>7, <1>8, <1>9, <1>10, <1>11, <1>12, <1>13,
     <1>14, <1>15
     DEF AccountInv

\* ensure_default_shell reads /etc/shells.
LEMMA ReadShellsStep ==
  ASSUME AccountInv,
         Acc!ReadShells,
         calm' = CalmNext
  PROVE  AccountInv'
<1>1. AccountLife'
  BY DEF Acc!ReadShells, AccountLife, LifeOf, InOrder, Proceeded, UserPhase, GroupPhase,
         ShellPhase, Undoing, AccountInv, AccountType, Acc!LifeTypeOK, Acc!Status
<1>2. AccountType'
  BY DEF Acc!ReadShells, AccountType, Acc!LifeTypeOK, Acc!Status, Acc!User, Acc!LoginShell,
         Acc!NoUser, AccountInv, AccountLife, LifeOf, UserPhase, GroupPhase, ShellPhase,
         Undoing
<1>3. AccountShape'
  BY DEF Acc!ReadShells, AccountShape, Acc!Visible, Acc!NoUser, AccountInv, AccountLife,
         AccountType, LifeOf, UserPhase, GroupPhase, ShellPhase, Undoing, Acc!LifeTypeOK,
         Acc!Status
<1>4. UserMade'
  BY DEF Acc!ReadShells, UserMade, Claim, AccountInv, AccountLife, AccountType, LifeOf,
         UserPhase, GroupPhase, ShellPhase, Undoing, Acc!LifeTypeOK, Acc!Status
<1>5. UserSound'
  BY DEF Acc!ReadShells, UserSound, Disputed, Acc!UidInUse, Acc!Visible, AccountInv,
         AccountLife, AccountType, LifeOf, UserPhase, GroupPhase, ShellPhase, Undoing,
         Acc!LifeTypeOK, Acc!Status
<1>6. OthersSound'
  BY DEF Acc!ReadShells, OthersSound, Disputed, Acc!Known, Acc!HasShell, AccountInv,
         AccountLife, AccountType, LifeOf, UserPhase, GroupPhase, ShellPhase, Undoing,
         Acc!LifeTypeOK, Acc!Status
<1>7. AccountEffect'
  BY DEF Acc!ReadShells, AccountEffect, Proceeded, Acc!Visible, AccountInv, AccountLife,
         AccountType, LifeOf, UserPhase, GroupPhase, ShellPhase, Undoing, Acc!LifeTypeOK,
         Acc!Status
<1>8. FoundInv'
  BY DEF Acc!ReadShells, FoundInv, AccountInv, AccountLife, AccountType, LifeOf, UserPhase,
         GroupPhase, ShellPhase, Undoing, Acc!LifeTypeOK, Acc!Status
<1>9. ShellsInv'
  BY DEF Acc!ReadShells, ShellsInv, Acc!ShellsKept, AccountInv, AccountLife, AccountType,
         LifeOf, UserPhase, GroupPhase, ShellPhase, Undoing, Acc!LifeTypeOK, Acc!Status
<1>10. AccountSettled'
  BY DEF Acc!ReadShells, AccountSettled, AccountEffect, Proceeded, Acc!Verdict,
         Acc!UserVerdict, Acc!GroupVerdict, Acc!ShellVerdict, Acc!Differs, Acc!UidInUse,
         Acc!Visible, Acc!Known, Acc!HasShell, AccountInv
<1>11. AccountCalm'
  BY CalmKept DEF Acc!ReadShells, AccountCalm, AccountInv
<1>12. Acc!AccountKept'
  BY DEF Acc!ReadShells, Acc!AccountKept, Claim, UserMade, Acc!NoUser, AccountInv
<1>13. Acc!FreshAccountGone'
  BY DEF Acc!ReadShells, Acc!FreshAccountGone, UserSound, FoundInv, Acc!NoUser, AccountInv,
         AccountLife, AccountType, LifeOf, UserPhase, GroupPhase, ShellPhase, Undoing,
         Acc!LifeTypeOK, Acc!Status
<1>14. Acc!ShellRestored'
  BY DEF Acc!ReadShells, Acc!ShellRestored, FoundInv, AccountInv
<1>15. Acc!ShellsKept'
  BY DEF Acc!ReadShells, Acc!ShellsKept, ShellsInv, AccountInv
<1>. QED
  BY <1>1, <1>2, <1>3, <1>4, <1>5, <1>6, <1>7, <1>8, <1>9, <1>10, <1>11, <1>12, <1>13,
     <1>14, <1>15
     DEF AccountInv

\* It writes the file.
LEMMA WriteShellsStep ==
  ASSUME AccountInv,
         Acc!WriteShells,
         calm' = CalmNext
  PROVE  AccountInv'
<1>1. AccountLife'
  BY DEF Acc!WriteShells, AccountLife, LifeOf, InOrder, Proceeded, UserPhase, GroupPhase,
         ShellPhase, Undoing, AccountInv, AccountType, Acc!LifeTypeOK, Acc!Status
<1>2. AccountType'
  <2>1. (Acc!LifeTypeOK)'
    BY DEF Acc!WriteShells, AccountType, AccountInv, Acc!LifeTypeOK, Acc!Status
  <2>2. (faults \in BOOLEAN /\ ordered \in BOOLEAN /\ taken \in BOOLEAN)'
    BY DEF Acc!WriteShells, AccountType, AccountInv, Acc!LifeTypeOK, Acc!Status
  <2>3. (fresh \in BOOLEAN)'
    BY DEF Acc!WriteShells, AccountType, AccountInv, Acc!LifeTypeOK, Acc!Status
  <2>4. (created \in BOOLEAN)'
    BY DEF Acc!WriteShells, AccountType, AccountInv, Acc!LifeTypeOK, Acc!Status
  <2>5. (platform \in {"linux", "darwin"})'
    BY DEF Acc!WriteShells, AccountType, AccountInv, Acc!LifeTypeOK, Acc!Status
  <2>6. (params \in Acc!Params)'
    BY DEF Acc!WriteShells, AccountType, AccountInv, Acc!LifeTypeOK, Acc!Status
  <2>7. (user \in Acc!User)'
    BY DEF Acc!WriteShells, AccountType, AccountInv, Acc!LifeTypeOK, Acc!Status
  <2>8. (group \in {"none", "empty", "member"})'
    BY DEF Acc!WriteShells, AccountType, AccountInv, Acc!LifeTypeOK, Acc!Status
  <2>9. (shells \subseteq {"old", "fish", "zsh"})'
    BY DEF Acc!WriteShells, AccountType, AccountInv
  <2>10. (buffer \subseteq {"old", "fish", "zsh"})'
    BY DEF Acc!WriteShells, AccountType, AccountInv, Acc!LifeTypeOK, Acc!Status
  <2>11. (pre \in Acc!LoginShell \cup {"none"})'
    BY DEF Acc!WriteShells, AccountType, AccountInv, Acc!LifeTypeOK, Acc!Status
  <2>12. (other \in {"no", "added", "raced"})'
    BY DEF Acc!WriteShells, AccountType, AccountInv, Acc!LifeTypeOK, Acc!Status
  <2>13. (runs \in 1 .. MaxRuns)'
    BY DEF Acc!WriteShells, AccountType, AccountInv, Acc!LifeTypeOK, Acc!Status
  <2>14. (before \in [user : Acc!User, group : {"none", "empty", "member"},
                    shell : Acc!LoginShell \cup {"none"}])'
    BY DEF Acc!WriteShells, AccountType, AccountInv, Acc!LifeTypeOK, Acc!Status
  <2>. QED
    BY <2>1, <2>2, <2>3, <2>4, <2>5, <2>6, <2>7, <2>8, <2>9, <2>10, <2>11, <2>12, <2>13,
       <2>14
       DEF AccountType
<1>3. AccountShape'
  BY DEF Acc!WriteShells, AccountShape, Acc!Visible, Acc!NoUser, AccountInv, AccountLife,
         AccountType, LifeOf, UserPhase, GroupPhase, ShellPhase, Undoing, Acc!LifeTypeOK,
         Acc!Status
<1>4. UserMade'
  BY DEF Acc!WriteShells, UserMade, Claim, AccountInv, AccountLife, AccountType, LifeOf,
         UserPhase, GroupPhase, ShellPhase, Undoing, Acc!LifeTypeOK, Acc!Status
<1>5. UserSound'
  BY DEF Acc!WriteShells, UserSound, Disputed, Acc!UidInUse, Acc!Visible, AccountInv,
         AccountLife, AccountType, LifeOf, UserPhase, GroupPhase, ShellPhase, Undoing,
         Acc!LifeTypeOK, Acc!Status
<1>6. OthersSound'
  BY DEF Acc!WriteShells, OthersSound, Disputed, Acc!Known, Acc!HasShell, AccountInv,
         AccountLife, AccountType, LifeOf, UserPhase, GroupPhase, ShellPhase, Undoing,
         Acc!LifeTypeOK, Acc!Status
<1>7. AccountEffect'
  BY DEF Acc!WriteShells, AccountEffect, Proceeded, Acc!Visible, AccountInv, AccountLife,
         AccountType, LifeOf, UserPhase, GroupPhase, ShellPhase, Undoing, Acc!LifeTypeOK,
         Acc!Status
<1>8. FoundInv'
  BY DEF Acc!WriteShells, FoundInv, AccountInv, AccountLife, AccountType, LifeOf, UserPhase,
         GroupPhase, ShellPhase, Undoing, Acc!LifeTypeOK, Acc!Status
<1>9. ShellsInv'
  BY DEF Acc!WriteShells, ShellsInv, Acc!ShellsKept, AccountInv, AccountLife, AccountType,
         LifeOf, UserPhase, GroupPhase, ShellPhase, Undoing, Acc!LifeTypeOK, Acc!Status
<1>10. AccountSettled'
  BY DEF Acc!WriteShells, AccountSettled, AccountEffect, Proceeded, Acc!Verdict,
         Acc!UserVerdict, Acc!GroupVerdict, Acc!ShellVerdict, Acc!Differs, Acc!UidInUse,
         Acc!Visible, Acc!Known, Acc!HasShell, AccountInv
<1>11. AccountCalm'
  BY CalmKept DEF Acc!WriteShells, AccountCalm, AccountInv
<1>12. Acc!AccountKept'
  BY DEF Acc!WriteShells, Acc!AccountKept, Claim, UserMade, Acc!NoUser, AccountInv
<1>13. Acc!FreshAccountGone'
  BY DEF Acc!WriteShells, Acc!FreshAccountGone, UserSound, FoundInv, Acc!NoUser, AccountInv,
         AccountLife, AccountType, LifeOf, UserPhase, GroupPhase, ShellPhase, Undoing,
         Acc!LifeTypeOK, Acc!Status
<1>14. Acc!ShellRestored'
  BY DEF Acc!WriteShells, Acc!ShellRestored, FoundInv, AccountInv
<1>15. Acc!ShellsKept'
  BY DEF Acc!WriteShells, Acc!ShellsKept, ShellsInv, AccountInv
<1>. QED
  BY <1>1, <1>2, <1>3, <1>4, <1>5, <1>6, <1>7, <1>8, <1>9, <1>10, <1>11, <1>12, <1>13,
     <1>14, <1>15
     DEF AccountInv

\* chsh.
LEMMA ChangeShellStep ==
  ASSUME AccountInv,
         Acc!ChangeShell,
         calm' = CalmNext
  PROVE  AccountInv'
<1>1. AccountLife'
  BY DEF Acc!ChangeShell, AccountLife, LifeOf, InOrder, Proceeded, UserPhase, GroupPhase,
         ShellPhase, Undoing, AccountInv, AccountType, Acc!LifeTypeOK, Acc!Status
<1>2. AccountType'
  BY DEF Acc!ChangeShell, AccountType, Acc!LifeTypeOK, Acc!Status, Acc!User, Acc!LoginShell,
         Acc!NoUser, AccountInv, AccountLife, LifeOf, UserPhase, GroupPhase, ShellPhase,
         Undoing
<1>3. AccountShape'
  BY DEF Acc!ChangeShell, AccountShape, Acc!Visible, Acc!NoUser, AccountInv, AccountLife,
         AccountType, LifeOf, UserPhase, GroupPhase, ShellPhase, Undoing, Acc!LifeTypeOK,
         Acc!Status, InOrder, Proceeded, Acc!Known, Acc!HasShell, Acc!Params, Acc!User,
         Acc!LoginShell
<1>4. UserMade'
  BY DEF Acc!ChangeShell, UserMade, Claim, AccountInv, AccountLife, AccountType, LifeOf,
         UserPhase, GroupPhase, ShellPhase, Undoing, Acc!LifeTypeOK, Acc!Status,
         AccountShape, InOrder, Proceeded, Acc!Visible, Acc!Known, Acc!HasShell, Acc!NoUser,
         Acc!Params, Acc!User, Acc!LoginShell
<1>5. UserSound'
  BY DEF Acc!ChangeShell, UserSound, Disputed, Acc!UidInUse, Acc!Visible, AccountInv,
         AccountLife, AccountType, LifeOf, UserPhase, GroupPhase, ShellPhase, Undoing,
         Acc!LifeTypeOK, Acc!Status, AccountShape, InOrder, Proceeded, Acc!Known,
         Acc!HasShell, Acc!NoUser, Acc!Params, Acc!User, Acc!LoginShell
<1>6. OthersSound'
  BY DEF Acc!ChangeShell, OthersSound, Disputed, Acc!Known, Acc!HasShell, AccountInv,
         AccountLife, AccountType, LifeOf, UserPhase, GroupPhase, ShellPhase, Undoing,
         Acc!LifeTypeOK, Acc!Status, AccountShape, InOrder, Proceeded, Acc!Visible,
         Acc!NoUser, Acc!Params, Acc!User, Acc!LoginShell
<1>7. AccountEffect'
  BY DEF Acc!ChangeShell, AccountEffect, Proceeded, Acc!Visible, AccountInv, AccountLife,
         AccountType, LifeOf, UserPhase, GroupPhase, ShellPhase, Undoing, Acc!LifeTypeOK,
         Acc!Status, AccountShape, InOrder, Acc!Known, Acc!HasShell, Acc!NoUser, Acc!Params,
         Acc!User, Acc!LoginShell
<1>8. FoundInv'
  BY DEF Acc!ChangeShell, FoundInv, AccountInv, AccountLife, AccountType, LifeOf, UserPhase,
         GroupPhase, ShellPhase, Undoing, Acc!LifeTypeOK, Acc!Status
<1>9. ShellsInv'
  BY DEF Acc!ChangeShell, ShellsInv, Acc!ShellsKept, AccountInv, AccountLife, AccountType,
         LifeOf, UserPhase, GroupPhase, ShellPhase, Undoing, Acc!LifeTypeOK, Acc!Status
<1>10. AccountSettled'
  BY DEF Acc!ChangeShell, AccountSettled, AccountEffect, Proceeded, Acc!Verdict,
         Acc!UserVerdict, Acc!GroupVerdict, Acc!ShellVerdict, Acc!Differs, Acc!UidInUse,
         Acc!Visible, Acc!Known, Acc!HasShell, AccountInv, AccountLife, AccountType, LifeOf,
         UserPhase, GroupPhase, ShellPhase, Undoing, Acc!LifeTypeOK, Acc!Status,
         AccountShape, InOrder, Acc!NoUser, Acc!Params, Acc!User, Acc!LoginShell
<1>11. AccountCalm'
  BY CalmKept DEF Acc!ChangeShell, AccountCalm, AccountInv
<1>12. Acc!AccountKept'
  BY DEF Acc!ChangeShell, Acc!AccountKept, Claim, UserMade, Acc!NoUser, AccountInv,
         AccountLife, AccountType, LifeOf, UserPhase, GroupPhase, ShellPhase, Undoing,
         Acc!LifeTypeOK, Acc!Status, AccountShape, InOrder, Proceeded, Acc!Visible,
         Acc!Known, Acc!HasShell, Acc!Params, Acc!User, Acc!LoginShell
<1>13. Acc!FreshAccountGone'
  BY DEF Acc!ChangeShell, Acc!FreshAccountGone, UserSound, FoundInv, Acc!NoUser, AccountInv,
         AccountLife, AccountType, LifeOf, UserPhase, GroupPhase, ShellPhase, Undoing,
         Acc!LifeTypeOK, Acc!Status, AccountShape, InOrder, Proceeded, Acc!Visible,
         Acc!Known, Acc!HasShell, Acc!Params, Acc!User, Acc!LoginShell
<1>14. Acc!ShellRestored'
  BY DEF Acc!ChangeShell, Acc!ShellRestored, FoundInv, AccountInv, AccountLife, AccountType,
         LifeOf, UserPhase, GroupPhase, ShellPhase, Undoing, Acc!LifeTypeOK, Acc!Status
<1>15. Acc!ShellsKept'
  BY DEF Acc!ChangeShell, Acc!ShellsKept, ShellsInv, AccountInv
<1>. QED
  BY <1>1, <1>2, <1>3, <1>4, <1>5, <1>6, <1>7, <1>8, <1>9, <1>10, <1>11, <1>12, <1>13,
     <1>14, <1>15
     DEF AccountInv

\* The inverse: chsh to the shell recorded.
LEMMA RestoreShellStep ==
  ASSUME AccountInv,
         Acc!RestoreShell,
         calm' = CalmNext
  PROVE  AccountInv'
<1>1. AccountLife'
  BY DEF Acc!RestoreShell, AccountLife, LifeOf, InOrder, Proceeded, UserPhase, GroupPhase,
         ShellPhase, Undoing, AccountInv, AccountType, Acc!LifeTypeOK, Acc!Status
<1>2. AccountType'
  BY DEF Acc!RestoreShell, AccountType, Acc!LifeTypeOK, Acc!Status, Acc!User,
         Acc!LoginShell, Acc!NoUser, AccountInv, AccountLife, LifeOf, UserPhase, GroupPhase,
         ShellPhase, Undoing
<1>3. AccountShape'
  BY DEF Acc!RestoreShell, AccountShape, Acc!Visible, Acc!NoUser, AccountInv, AccountLife,
         AccountType, LifeOf, UserPhase, GroupPhase, ShellPhase, Undoing, Acc!LifeTypeOK,
         Acc!Status, InOrder, Proceeded, Acc!Known, Acc!HasShell, Acc!Params, Acc!User,
         Acc!LoginShell
<1>4. UserMade'
  BY DEF Acc!RestoreShell, UserMade, Claim, AccountInv, AccountLife, AccountType, LifeOf,
         UserPhase, GroupPhase, ShellPhase, Undoing, Acc!LifeTypeOK, Acc!Status,
         AccountShape, InOrder, Proceeded, Acc!Visible, Acc!Known, Acc!HasShell, Acc!NoUser,
         Acc!Params, Acc!User, Acc!LoginShell
<1>5. UserSound'
  BY DEF Acc!RestoreShell, UserSound, Disputed, Acc!UidInUse, Acc!Visible, AccountInv,
         AccountLife, AccountType, LifeOf, UserPhase, GroupPhase, ShellPhase, Undoing,
         Acc!LifeTypeOK, Acc!Status, AccountShape, InOrder, Proceeded, Acc!Known,
         Acc!HasShell, Acc!NoUser, Acc!Params, Acc!User, Acc!LoginShell
<1>6. OthersSound'
  BY DEF Acc!RestoreShell, OthersSound, Disputed, Acc!Known, Acc!HasShell, AccountInv,
         AccountLife, AccountType, LifeOf, UserPhase, GroupPhase, ShellPhase, Undoing,
         Acc!LifeTypeOK, Acc!Status
<1>7. AccountEffect'
  BY DEF Acc!RestoreShell, AccountEffect, Proceeded, Acc!Visible, AccountInv, AccountLife,
         AccountType, LifeOf, UserPhase, GroupPhase, ShellPhase, Undoing, Acc!LifeTypeOK,
         Acc!Status, AccountShape, InOrder, Acc!Known, Acc!HasShell, Acc!NoUser, Acc!Params,
         Acc!User, Acc!LoginShell
<1>8. FoundInv'
  BY DEF Acc!RestoreShell, FoundInv, AccountInv, AccountLife, AccountType, LifeOf,
         UserPhase, GroupPhase, ShellPhase, Undoing, Acc!LifeTypeOK, Acc!Status
<1>9. ShellsInv'
  BY DEF Acc!RestoreShell, ShellsInv, Acc!ShellsKept, AccountInv, AccountLife, AccountType,
         LifeOf, UserPhase, GroupPhase, ShellPhase, Undoing, Acc!LifeTypeOK, Acc!Status
<1>10. AccountSettled'
  BY DEF Acc!RestoreShell, AccountSettled, AccountEffect, Proceeded, Acc!Verdict,
         Acc!UserVerdict, Acc!GroupVerdict, Acc!ShellVerdict, Acc!Differs, Acc!UidInUse,
         Acc!Visible, Acc!Known, Acc!HasShell, AccountInv, AccountLife, AccountType, LifeOf,
         UserPhase, GroupPhase, ShellPhase, Undoing, Acc!LifeTypeOK, Acc!Status,
         AccountShape, InOrder, Acc!NoUser, Acc!Params, Acc!User, Acc!LoginShell
<1>11. AccountCalm'
  BY CalmKept DEF Acc!RestoreShell, AccountCalm, AccountInv
<1>12. Acc!AccountKept'
  BY DEF Acc!RestoreShell, Acc!AccountKept, Claim, UserMade, Acc!NoUser, AccountInv,
         AccountLife, AccountType, LifeOf, UserPhase, GroupPhase, ShellPhase, Undoing,
         Acc!LifeTypeOK, Acc!Status, AccountShape, InOrder, Proceeded, Acc!Visible,
         Acc!Known, Acc!HasShell, Acc!Params, Acc!User, Acc!LoginShell
<1>13. Acc!FreshAccountGone'
  BY DEF Acc!RestoreShell, Acc!FreshAccountGone, UserSound, FoundInv, Acc!NoUser,
         AccountInv, AccountLife, AccountType, LifeOf, UserPhase, GroupPhase, ShellPhase,
         Undoing, Acc!LifeTypeOK, Acc!Status, AccountShape, InOrder, Proceeded, Acc!Visible,
         Acc!Known, Acc!HasShell, Acc!Params, Acc!User, Acc!LoginShell
<1>14. Acc!ShellRestored'
  BY DEF Acc!RestoreShell, Acc!ShellRestored, FoundInv, AccountInv, AccountLife,
         AccountType, LifeOf, UserPhase, GroupPhase, ShellPhase, Undoing, Acc!LifeTypeOK,
         Acc!Status, AccountShape, InOrder, Proceeded, Acc!Visible, Acc!Known, Acc!HasShell,
         Acc!NoUser, Acc!Params, Acc!User, Acc!LoginShell
<1>15. Acc!ShellsKept'
  BY DEF Acc!RestoreShell, Acc!ShellsKept, ShellsInv, AccountInv
<1>. QED
  BY <1>1, <1>2, <1>3, <1>4, <1>5, <1>6, <1>7, <1>8, <1>9, <1>10, <1>11, <1>12, <1>13,
     <1>14, <1>15
     DEF AccountInv

\* Another program writes /etc/shells.
LEMMA OtherShellStep ==
  ASSUME AccountInv,
         Acc!OtherShell,
         calm' = CalmNext
  PROVE  AccountInv'
<1>1. AccountLife'
  BY DEF Acc!OtherShell, AccountLife, LifeOf, InOrder, Proceeded, UserPhase, GroupPhase,
         ShellPhase, Undoing, AccountInv
<1>2. AccountType'
  BY DEF Acc!OtherShell, AccountType, AccountInv, Acc!LifeTypeOK, Acc!Status
<1>3. AccountShape'
  BY DEF Acc!OtherShell, AccountShape, Acc!Visible, Acc!NoUser, AccountInv
<1>4. UserMade'
  BY DEF Acc!OtherShell, UserMade, Claim, AccountInv
<1>5. UserSound'
  BY DEF Acc!OtherShell, UserSound, Disputed, Acc!UidInUse, Acc!Visible, AccountInv
<1>6. OthersSound'
  BY DEF Acc!OtherShell, OthersSound, Disputed, Acc!Known, Acc!HasShell, AccountInv
<1>7. AccountEffect'
  BY DEF Acc!OtherShell, AccountEffect, Proceeded, Acc!Visible, AccountInv
<1>8. FoundInv'
  BY DEF Acc!OtherShell, FoundInv, AccountInv
<1>9. ShellsInv'
  BY DEF Acc!OtherShell, ShellsInv, Acc!ShellsKept, AccountInv
<1>10. AccountSettled'
  BY DEF Acc!OtherShell, AccountSettled, AccountEffect, Proceeded, Acc!Verdict,
         Acc!UserVerdict, Acc!GroupVerdict, Acc!ShellVerdict, Acc!Differs, Acc!UidInUse,
         Acc!Visible, Acc!Known, Acc!HasShell, AccountInv
<1>11. AccountCalm'
  BY CalmKept DEF Acc!OtherShell, AccountCalm, AccountInv
<1>12. Acc!AccountKept'
  BY DEF Acc!OtherShell, Acc!AccountKept, Claim, UserMade, Acc!NoUser, AccountInv
<1>13. Acc!FreshAccountGone'
  BY DEF Acc!OtherShell, Acc!FreshAccountGone, UserSound, FoundInv, Acc!NoUser, AccountInv
<1>14. Acc!ShellRestored'
  BY DEF Acc!OtherShell, Acc!ShellRestored, FoundInv, AccountInv
<1>15. Acc!ShellsKept'
  BY DEF Acc!OtherShell, Acc!ShellsKept, ShellsInv, AccountInv
<1>. QED
  BY <1>1, <1>2, <1>3, <1>4, <1>5, <1>6, <1>7, <1>8, <1>9, <1>10, <1>11, <1>12, <1>13,
     <1>14, <1>15
     DEF AccountInv

\* assess_state of ensure_user.
LEMMA AssessUserStep ==
  ASSUME AccountInv,
         Acc!AssessState(1),
         calm' = CalmNext
  PROVE  AccountInv'
<1>1. AccountLife'
  BY DEF Acc!AssessState, Acc!Assess, Acc!Verify, Acc!Released, Acc!FaultyVerdicts,
         Acc!Verdict, Acc!UserVerdict, AccountLife, LifeOf, InOrder, Proceeded, UserPhase,
         GroupPhase, ShellPhase, Undoing, AccountInv, AccountType, Acc!LifeTypeOK,
         Acc!Status
<1>2. AccountType'
  BY DEF Acc!AssessState, Acc!Assess, Acc!Verify, Acc!Released, Acc!FaultyVerdicts,
         Acc!Verdict, Acc!UserVerdict, AccountType, AccountInv, Acc!LifeTypeOK, Acc!Status
<1>3. AccountShape'
  BY DEF Acc!AssessState, Acc!Assess, Acc!Verify, Acc!Released, Acc!FaultyVerdicts,
         Acc!Verdict, Acc!UserVerdict, AccountShape, Acc!Visible, Acc!NoUser, AccountInv,
         AccountLife, AccountType, LifeOf, UserPhase, GroupPhase, ShellPhase, Undoing,
         Acc!LifeTypeOK, Acc!Status
<1>4. UserMade'
  BY DEF Acc!AssessState, Acc!Assess, Acc!Verify, Acc!Released, Acc!FaultyVerdicts,
         Acc!Verdict, Acc!UserVerdict, UserMade, Claim, AccountInv, AccountLife,
         AccountType, LifeOf, UserPhase, GroupPhase, ShellPhase, Undoing, Acc!LifeTypeOK,
         Acc!Status, AccountShape, InOrder, Proceeded, Acc!Visible, Acc!Known, Acc!HasShell,
         Acc!NoUser, Acc!Params, Acc!User, Acc!LoginShell
<1>5. UserSound'
  <2>1. (~faults =>
          (phase[1] \notin {"assess", "done"} => ~taken /\ (params.supp => group # "none")))'
    BY UserNeeds DEF Acc!AssessState
  <2>2. (~faults =>
          (phase[1] = "transition" =>
             /\ ~Acc!UidInUse
             /\ Acc!Visible => /\ params.enforce /\ params.uid => user.uid = "wanted"
                               /\ ordered /\ params.enforce /\ params.shell => user.shell = "bash"))'
    BY UserFound DEF Acc!AssessState
  <2>3. (~faults =>
          (phase[1] = "create" => ~Acc!Visible))'
    BY DEF Acc!AssessState, Acc!Assess, Acc!Verify, Acc!Released, Acc!FaultyVerdicts,
           Acc!Verdict, Acc!UserVerdict, UserSound, Disputed, Acc!UidInUse, Acc!Visible,
           AccountInv, AccountLife, AccountType, LifeOf, UserPhase, GroupPhase, ShellPhase,
           Undoing, Acc!LifeTypeOK, Acc!Status
  <2>4. (~faults =>
          (phase[1] \in {"shell", "groups", "check"} /\ params.uid => user.uid # "none"))'
    BY DEF Acc!AssessState, Acc!Assess, Acc!Verify, Acc!Released, Acc!FaultyVerdicts,
           Acc!Verdict, Acc!UserVerdict, UserSound, Disputed, Acc!UidInUse, Acc!Visible,
           AccountInv, AccountLife, AccountType, LifeOf, UserPhase, GroupPhase, ShellPhase,
           Undoing, Acc!LifeTypeOK, Acc!Status
  <2>5. (~faults =>
          (phase[1] \in {"groups", "check"} =>
             /\ params.shell => user.shell # "none"
             /\ user.by # "none"
             /\ before.user.by = "none" => fresh))'
    BY DEF Acc!AssessState, Acc!Assess, Acc!Verify, Acc!Released, Acc!FaultyVerdicts,
           Acc!Verdict, Acc!UserVerdict, UserSound, Disputed, Acc!UidInUse, Acc!Visible,
           AccountInv, AccountLife, AccountType, LifeOf, UserPhase, GroupPhase, ShellPhase,
           Undoing, Acc!LifeTypeOK, Acc!Status
  <2>6. (~faults =>
          (phase[1] \in {"shell", "groups", "check", "verify"} /\ params.enforce /\ params.uid =>
             user.uid = "wanted"))'
    BY DEF Acc!AssessState, Acc!Assess, Acc!Verify, Acc!Released, Acc!FaultyVerdicts,
           Acc!Verdict, Acc!UserVerdict, UserSound, Disputed, Acc!UidInUse, Acc!Visible,
           AccountInv, AccountLife, AccountType, LifeOf, UserPhase, GroupPhase, ShellPhase,
           Undoing, Acc!LifeTypeOK, Acc!Status
  <2>7. (~faults =>
          (phase[1] \in {"groups", "check", "verify"} /\ ordered /\ params.enforce /\ params.shell =>
             user.shell = "bash"))'
    BY DEF Acc!AssessState, Acc!Assess, Acc!Verify, Acc!Released, Acc!FaultyVerdicts,
           Acc!Verdict, Acc!UserVerdict, UserSound, Disputed, Acc!UidInUse, Acc!Visible,
           AccountInv, AccountLife, AccountType, LifeOf, UserPhase, GroupPhase, ShellPhase,
           Undoing, Acc!LifeTypeOK, Acc!Status
  <2>8. (~faults =>
          (phase[1] \in {"check", "verify"} /\ params.supp /\ ~Disputed => group = "member"))'
    BY DEF Acc!AssessState, Acc!Assess, Acc!Verify, Acc!Released, Acc!FaultyVerdicts,
           Acc!Verdict, Acc!UserVerdict, UserSound, Disputed, Acc!UidInUse, Acc!Visible,
           AccountInv, AccountLife, AccountType, LifeOf, UserPhase, GroupPhase, ShellPhase,
           Undoing, Acc!LifeTypeOK, Acc!Status
  <2>9. (~faults =>
          (phase[1] = "verify" => Acc!Visible /\ (before.user.by = "none" => created)))'
    BY DEF Acc!AssessState, Acc!Assess, Acc!Verify, Acc!Released, Acc!FaultyVerdicts,
           Acc!Verdict, Acc!UserVerdict, UserSound, Disputed, Acc!UidInUse, Acc!Visible,
           AccountInv, AccountLife, AccountType, LifeOf, UserPhase, GroupPhase, ShellPhase,
           Undoing, Acc!LifeTypeOK, Acc!Status
  <2>10. (~faults =>
          (phase[1] = "rollback" =>
             IF result[1] = "MISMATCH"
             THEN Disputed /\ Acc!Visible /\ (before.user.by = "none" => created)
             ELSE ~Acc!Visible /\ platform = "darwin" /\ ~(params.uid /\ params.shell)))'
    BY UserUndoes DEF Acc!AssessState
  <2>11. (~faults =>
          (result[1] = "MISMATCH" => Disputed))'
    BY UserMismatch DEF Acc!AssessState
  <2>. QED
    BY <2>1, <2>2, <2>3, <2>4, <2>5, <2>6, <2>7, <2>8, <2>9, <2>10, <2>11 DEF UserSound
<1>6. OthersSound'
  BY DEF Acc!AssessState, Acc!Assess, Acc!Verify, Acc!Released, Acc!FaultyVerdicts,
         Acc!Verdict, Acc!UserVerdict, OthersSound, Disputed, Acc!Known, Acc!HasShell,
         AccountInv, AccountLife, AccountType, LifeOf, UserPhase, GroupPhase, ShellPhase,
         Undoing, Acc!LifeTypeOK, Acc!Status
<1>7. AccountEffect'
  BY DEF Acc!AssessState, Acc!Assess, Acc!Verify, Acc!Released, Acc!FaultyVerdicts,
         Acc!Verdict, Acc!UserVerdict, AccountEffect, Proceeded, Acc!Visible, AccountInv,
         AccountLife, AccountType, LifeOf, UserPhase, GroupPhase, ShellPhase, Undoing,
         Acc!LifeTypeOK, Acc!Status
<1>8. FoundInv'
  BY DEF Acc!AssessState, Acc!Assess, Acc!Verify, Acc!Released, Acc!FaultyVerdicts,
         Acc!Verdict, Acc!UserVerdict, FoundInv, AccountInv, AccountLife, AccountType,
         LifeOf, UserPhase, GroupPhase, ShellPhase, Undoing, Acc!LifeTypeOK, Acc!Status
<1>9. ShellsInv'
  BY DEF Acc!AssessState, Acc!Assess, Acc!Verify, Acc!Released, Acc!FaultyVerdicts,
         Acc!Verdict, Acc!UserVerdict, ShellsInv, Acc!ShellsKept, AccountInv, AccountLife,
         AccountType, LifeOf, UserPhase, GroupPhase, ShellPhase, Undoing, Acc!LifeTypeOK,
         Acc!Status
<1>10. AccountSettled'
  BY DEF Acc!AssessState, Acc!Assess, Acc!Verify, Acc!Released, Acc!FaultyVerdicts,
         Acc!Verdict, Acc!UserVerdict, AccountSettled, AccountEffect, Proceeded,
         Acc!GroupVerdict, Acc!ShellVerdict, Acc!Differs, Acc!UidInUse, Acc!Visible,
         Acc!Known, Acc!HasShell, AccountInv, AccountLife, AccountType, LifeOf, UserPhase,
         GroupPhase, ShellPhase, Undoing, Acc!LifeTypeOK, Acc!Status, AccountShape, InOrder,
         Acc!NoUser, Acc!Params, Acc!User, Acc!LoginShell, UserSound, OthersSound, UserMade,
         FoundInv, Disputed, Claim
<1>11. AccountCalm'
  BY AccountAssessCalm
<1>12. Acc!AccountKept'
  BY DEF Acc!AssessState, Acc!Assess, Acc!Verify, Acc!Released, Acc!FaultyVerdicts,
         Acc!Verdict, Acc!UserVerdict, Acc!AccountKept, Claim, UserMade, Acc!NoUser,
         AccountInv
<1>13. Acc!FreshAccountGone'
  BY DEF Acc!AssessState, Acc!Assess, Acc!Verify, Acc!Released, Acc!FaultyVerdicts,
         Acc!Verdict, Acc!UserVerdict, Acc!FreshAccountGone, UserSound, FoundInv,
         Acc!NoUser, AccountInv, AccountLife, AccountType, LifeOf, UserPhase, GroupPhase,
         ShellPhase, Undoing, Acc!LifeTypeOK, Acc!Status
<1>14. Acc!ShellRestored'
  BY DEF Acc!AssessState, Acc!Assess, Acc!Verify, Acc!Released, Acc!FaultyVerdicts,
         Acc!Verdict, Acc!UserVerdict, Acc!ShellRestored, FoundInv, AccountInv, AccountLife,
         AccountType, LifeOf, UserPhase, GroupPhase, ShellPhase, Undoing, Acc!LifeTypeOK,
         Acc!Status
<1>15. Acc!ShellsKept'
  BY DEF Acc!AssessState, Acc!Assess, Acc!Verify, Acc!Released, Acc!FaultyVerdicts,
         Acc!Verdict, Acc!UserVerdict, Acc!ShellsKept, ShellsInv, AccountInv
<1>. QED
  BY <1>1, <1>2, <1>3, <1>4, <1>5, <1>6, <1>7, <1>8, <1>9, <1>10, <1>11, <1>12, <1>13,
     <1>14, <1>15
     DEF AccountInv

\* assess_state of ensure_group_membership.
LEMMA AssessGroupStep ==
  ASSUME AccountInv,
         Acc!AssessState(2),
         calm' = CalmNext
  PROVE  AccountInv'
<1>1. AccountLife'
  BY DEF Acc!AssessState, Acc!Assess, Acc!Verify, Acc!Released, Acc!FaultyVerdicts,
         Acc!Verdict, Acc!GroupVerdict, AccountLife, LifeOf, InOrder, Proceeded, UserPhase,
         GroupPhase, ShellPhase, Undoing, AccountInv, AccountType, Acc!LifeTypeOK,
         Acc!Status
<1>2. AccountType'
  BY DEF Acc!AssessState, Acc!Assess, Acc!Verify, Acc!Released, Acc!FaultyVerdicts,
         Acc!Verdict, Acc!GroupVerdict, AccountType, AccountInv, Acc!LifeTypeOK, Acc!Status
<1>3. AccountShape'
  BY DEF Acc!AssessState, Acc!Assess, Acc!Verify, Acc!Released, Acc!FaultyVerdicts,
         Acc!Verdict, Acc!GroupVerdict, AccountShape, Acc!Visible, Acc!NoUser, AccountInv,
         AccountLife, AccountType, LifeOf, UserPhase, GroupPhase, ShellPhase, Undoing,
         Acc!LifeTypeOK, Acc!Status
<1>4. UserMade'
  BY DEF Acc!AssessState, Acc!Assess, Acc!Verify, Acc!Released, Acc!FaultyVerdicts,
         Acc!Verdict, Acc!GroupVerdict, UserMade, Claim, AccountInv, AccountLife,
         AccountType, LifeOf, UserPhase, GroupPhase, ShellPhase, Undoing, Acc!LifeTypeOK,
         Acc!Status
<1>5. UserSound'
  BY DEF Acc!AssessState, Acc!Assess, Acc!Verify, Acc!Released, Acc!FaultyVerdicts,
         Acc!Verdict, Acc!GroupVerdict, UserSound, Disputed, Acc!UidInUse, Acc!Visible,
         AccountInv, AccountLife, AccountType, LifeOf, UserPhase, GroupPhase, ShellPhase,
         Undoing, Acc!LifeTypeOK, Acc!Status
<1>6. OthersSound'
  BY DEF Acc!AssessState, Acc!Assess, Acc!Verify, Acc!Released, Acc!FaultyVerdicts,
         Acc!Verdict, Acc!GroupVerdict, OthersSound, Disputed, Acc!Known, Acc!HasShell,
         AccountInv, AccountLife, AccountType, LifeOf, UserPhase, GroupPhase, ShellPhase,
         Undoing, Acc!LifeTypeOK, Acc!Status
<1>7. AccountEffect'
  BY DEF Acc!AssessState, Acc!Assess, Acc!Verify, Acc!Released, Acc!FaultyVerdicts,
         Acc!Verdict, Acc!GroupVerdict, AccountEffect, Proceeded, Acc!Visible, AccountInv,
         AccountLife, AccountType, LifeOf, UserPhase, GroupPhase, ShellPhase, Undoing,
         Acc!LifeTypeOK, Acc!Status
<1>8. FoundInv'
  BY DEF Acc!AssessState, Acc!Assess, Acc!Verify, Acc!Released, Acc!FaultyVerdicts,
         Acc!Verdict, Acc!GroupVerdict, FoundInv, AccountInv, AccountLife, AccountType,
         LifeOf, UserPhase, GroupPhase, ShellPhase, Undoing, Acc!LifeTypeOK, Acc!Status
<1>9. ShellsInv'
  BY DEF Acc!AssessState, Acc!Assess, Acc!Verify, Acc!Released, Acc!FaultyVerdicts,
         Acc!Verdict, Acc!GroupVerdict, ShellsInv, Acc!ShellsKept, AccountInv, AccountLife,
         AccountType, LifeOf, UserPhase, GroupPhase, ShellPhase, Undoing, Acc!LifeTypeOK,
         Acc!Status
<1>10. AccountSettled'
  BY DEF Acc!AssessState, Acc!Assess, Acc!Verify, Acc!Released, Acc!FaultyVerdicts,
         Acc!Verdict, Acc!GroupVerdict, AccountSettled, AccountEffect, Proceeded,
         Acc!UserVerdict, Acc!ShellVerdict, Acc!Differs, Acc!UidInUse, Acc!Visible,
         Acc!Known, Acc!HasShell, AccountInv, AccountLife, AccountType, LifeOf, UserPhase,
         GroupPhase, ShellPhase, Undoing, Acc!LifeTypeOK, Acc!Status, AccountShape, InOrder,
         Acc!NoUser, Acc!Params, Acc!User, Acc!LoginShell, UserSound, OthersSound, UserMade,
         FoundInv, Disputed, Claim
<1>11. AccountCalm'
  BY AccountAssessCalm
<1>12. Acc!AccountKept'
  BY DEF Acc!AssessState, Acc!Assess, Acc!Verify, Acc!Released, Acc!FaultyVerdicts,
         Acc!Verdict, Acc!GroupVerdict, Acc!AccountKept, Claim, UserMade, Acc!NoUser,
         AccountInv
<1>13. Acc!FreshAccountGone'
  BY DEF Acc!AssessState, Acc!Assess, Acc!Verify, Acc!Released, Acc!FaultyVerdicts,
         Acc!Verdict, Acc!GroupVerdict, Acc!FreshAccountGone, UserSound, FoundInv,
         Acc!NoUser, AccountInv, AccountLife, AccountType, LifeOf, UserPhase, GroupPhase,
         ShellPhase, Undoing, Acc!LifeTypeOK, Acc!Status
<1>14. Acc!ShellRestored'
  BY DEF Acc!AssessState, Acc!Assess, Acc!Verify, Acc!Released, Acc!FaultyVerdicts,
         Acc!Verdict, Acc!GroupVerdict, Acc!ShellRestored, FoundInv, AccountInv,
         AccountLife, AccountType, LifeOf, UserPhase, GroupPhase, ShellPhase, Undoing,
         Acc!LifeTypeOK, Acc!Status
<1>15. Acc!ShellsKept'
  BY DEF Acc!AssessState, Acc!Assess, Acc!Verify, Acc!Released, Acc!FaultyVerdicts,
         Acc!Verdict, Acc!GroupVerdict, Acc!ShellsKept, ShellsInv, AccountInv
<1>. QED
  BY <1>1, <1>2, <1>3, <1>4, <1>5, <1>6, <1>7, <1>8, <1>9, <1>10, <1>11, <1>12, <1>13,
     <1>14, <1>15
     DEF AccountInv

\* assess_state of ensure_default_shell.
LEMMA AssessShellStep ==
  ASSUME AccountInv,
         Acc!AssessState(3),
         calm' = CalmNext
  PROVE  AccountInv'
<1>1. AccountLife'
  BY DEF Acc!AssessState, Acc!Assess, Acc!Verify, Acc!Released, Acc!FaultyVerdicts,
         Acc!Verdict, Acc!ShellVerdict, AccountLife, LifeOf, InOrder, Proceeded, UserPhase,
         GroupPhase, ShellPhase, Undoing, AccountInv, AccountType, Acc!LifeTypeOK,
         Acc!Status
<1>2. AccountType'
  BY DEF Acc!AssessState, Acc!Assess, Acc!Verify, Acc!Released, Acc!FaultyVerdicts,
         Acc!Verdict, Acc!ShellVerdict, AccountType, AccountInv, Acc!LifeTypeOK, Acc!Status
<1>3. AccountShape'
  BY DEF Acc!AssessState, Acc!Assess, Acc!Verify, Acc!Released, Acc!FaultyVerdicts,
         Acc!Verdict, Acc!ShellVerdict, AccountShape, Acc!Visible, Acc!NoUser, AccountInv,
         AccountLife, AccountType, LifeOf, UserPhase, GroupPhase, ShellPhase, Undoing,
         Acc!LifeTypeOK, Acc!Status
<1>4. UserMade'
  BY DEF Acc!AssessState, Acc!Assess, Acc!Verify, Acc!Released, Acc!FaultyVerdicts,
         Acc!Verdict, Acc!ShellVerdict, UserMade, Claim, AccountInv, AccountLife,
         AccountType, LifeOf, UserPhase, GroupPhase, ShellPhase, Undoing, Acc!LifeTypeOK,
         Acc!Status
<1>5. UserSound'
  BY DEF Acc!AssessState, Acc!Assess, Acc!Verify, Acc!Released, Acc!FaultyVerdicts,
         Acc!Verdict, Acc!ShellVerdict, UserSound, Disputed, Acc!UidInUse, Acc!Visible,
         AccountInv, AccountLife, AccountType, LifeOf, UserPhase, GroupPhase, ShellPhase,
         Undoing, Acc!LifeTypeOK, Acc!Status
<1>6. OthersSound'
  BY DEF Acc!AssessState, Acc!Assess, Acc!Verify, Acc!Released, Acc!FaultyVerdicts,
         Acc!Verdict, Acc!ShellVerdict, OthersSound, Disputed, Acc!Known, Acc!HasShell,
         AccountInv, AccountLife, AccountType, LifeOf, UserPhase, GroupPhase, ShellPhase,
         Undoing, Acc!LifeTypeOK, Acc!Status
<1>7. AccountEffect'
  BY DEF Acc!AssessState, Acc!Assess, Acc!Verify, Acc!Released, Acc!FaultyVerdicts,
         Acc!Verdict, Acc!ShellVerdict, AccountEffect, Proceeded, Acc!Visible, AccountInv,
         AccountLife, AccountType, LifeOf, UserPhase, GroupPhase, ShellPhase, Undoing,
         Acc!LifeTypeOK, Acc!Status
<1>8. FoundInv'
  BY DEF Acc!AssessState, Acc!Assess, Acc!Verify, Acc!Released, Acc!FaultyVerdicts,
         Acc!Verdict, Acc!ShellVerdict, FoundInv, AccountInv, AccountLife, AccountType,
         LifeOf, UserPhase, GroupPhase, ShellPhase, Undoing, Acc!LifeTypeOK, Acc!Status
<1>9. ShellsInv'
  BY DEF Acc!AssessState, Acc!Assess, Acc!Verify, Acc!Released, Acc!FaultyVerdicts,
         Acc!Verdict, Acc!ShellVerdict, ShellsInv, Acc!ShellsKept, AccountInv, AccountLife,
         AccountType, LifeOf, UserPhase, GroupPhase, ShellPhase, Undoing, Acc!LifeTypeOK,
         Acc!Status
<1>10. AccountSettled'
  BY DEF Acc!AssessState, Acc!Assess, Acc!Verify, Acc!Released, Acc!FaultyVerdicts,
         Acc!Verdict, Acc!ShellVerdict, AccountSettled, AccountEffect, Proceeded,
         Acc!UserVerdict, Acc!GroupVerdict, Acc!Differs, Acc!UidInUse, Acc!Visible,
         Acc!Known, Acc!HasShell, AccountInv, AccountLife, AccountType, LifeOf, UserPhase,
         GroupPhase, ShellPhase, Undoing, Acc!LifeTypeOK, Acc!Status, AccountShape, InOrder,
         Acc!NoUser, Acc!Params, Acc!User, Acc!LoginShell, UserSound, OthersSound, UserMade,
         FoundInv, Disputed, Claim
<1>11. AccountCalm'
  BY AccountAssessCalm
<1>12. Acc!AccountKept'
  BY DEF Acc!AssessState, Acc!Assess, Acc!Verify, Acc!Released, Acc!FaultyVerdicts,
         Acc!Verdict, Acc!ShellVerdict, Acc!AccountKept, Claim, UserMade, Acc!NoUser,
         AccountInv
<1>13. Acc!FreshAccountGone'
  BY DEF Acc!AssessState, Acc!Assess, Acc!Verify, Acc!Released, Acc!FaultyVerdicts,
         Acc!Verdict, Acc!ShellVerdict, Acc!FreshAccountGone, UserSound, FoundInv,
         Acc!NoUser, AccountInv, AccountLife, AccountType, LifeOf, UserPhase, GroupPhase,
         ShellPhase, Undoing, Acc!LifeTypeOK, Acc!Status
<1>14. Acc!ShellRestored'
  BY DEF Acc!AssessState, Acc!Assess, Acc!Verify, Acc!Released, Acc!FaultyVerdicts,
         Acc!Verdict, Acc!ShellVerdict, Acc!ShellRestored, FoundInv, AccountInv,
         AccountLife, AccountType, LifeOf, UserPhase, GroupPhase, ShellPhase, Undoing,
         Acc!LifeTypeOK, Acc!Status
<1>15. Acc!ShellsKept'
  BY DEF Acc!AssessState, Acc!Assess, Acc!Verify, Acc!Released, Acc!FaultyVerdicts,
         Acc!Verdict, Acc!ShellVerdict, Acc!ShellsKept, ShellsInv, AccountInv
<1>. QED
  BY <1>1, <1>2, <1>3, <1>4, <1>5, <1>6, <1>7, <1>8, <1>9, <1>10, <1>11, <1>12, <1>13,
     <1>14, <1>15
     DEF AccountInv

\* start() is called again.  The administrator may have made the account anew, which is
\* the one thing that can disturb what the nodes of the first run recorded.
LEMMA AccountStartStep ==
  ASSUME AccountInv, Acc!StartAgain, calm' = CalmNext
  PROVE  AccountInv'
<1>1. user' \in Acc!User
  BY DEF AccountInv, AccountType, Acc!StartAgain, Acc!User, Acc!LoginShell, Acc!AdminUser
<1>2. /\ fresh' = FALSE /\ created' = created
      /\ UNCHANGED <<faults, platform, params, ordered, taken, pre, buffer, group, shells,
                     other>>
  BY DEF Acc!StartAgain
<1>3. before' = [user |-> user', group |-> group, shell |-> user'.shell]
  BY DEF Acc!StartAgain
<1>4. phase' = [n \in Three |-> "assess"] /\ outcome' = [n \in Three |-> "NONE"]
      /\ result' = [n \in Three |-> "NONE"] /\ undo' = [n \in Three |-> "NONE"]
  BY DEF Acc!StartAgain, Acc!LifeAgain
<1>5. ordered /\ runs' \in 1 .. MaxRuns /\ runs' # 1 /\ runs' # runs
  BY BoundsAssumption DEF AccountInv, AccountType, Acc!StartAgain
<1>6. user'.by = "none" => user' = Acc!NoUser
  BY DEF AccountInv, AccountShape, Acc!StartAgain, Acc!AdminUser, Acc!NoUser, Acc!Visible,
         AccountType, Acc!User
<1>7. platform = "linux" /\ user'.by # "none" => user'.uid # "none" /\ user'.shell # "none"
  BY DEF AccountInv, AccountShape, Acc!StartAgain, Acc!AdminUser, Acc!NoUser, Acc!Visible,
         AccountType, Acc!User
<1>8. calm' => UNCHANGED user /\ ~faults /\ \A n \in Three : Proceeded(n)
  <2>1. calm' => /\ UNCHANGED user /\ ~faults /\ other = "no"
                 /\ \A n \in DOMAIN outcome : Ins!Proceeds(n)
    BY <1>5 DEF CalmNext
  <2>2. DOMAIN outcome = Three
    BY DEF AccountInv, AccountType, Acc!LifeTypeOK
  <2>3. \A n \in Three : Ins!Proceeds(n) => Proceeded(n)
    BY DEF Ins!Proceeds, Proceeded, AccountInv, AccountLife, LifeOf
  <2>. QED
    BY <2>1, <2>2, <2>3
<1>11. AccountLife'
  BY <1>4 DEF AccountLife, LifeOf, InOrder, UserPhase, GroupPhase, ShellPhase, Undoing
<1>12. AccountType'
  <2>1. before' \in [user : Acc!User, group : {"none", "empty", "member"},
                     shell : Acc!LoginShell \cup {"none"}]
    BY <1>1, <1>3 DEF AccountInv, AccountType, Acc!User
  <2>. QED
    BY <1>1, <1>2, <1>4, <1>5, <2>1 DEF AccountInv, AccountType, Acc!LifeTypeOK, Acc!Status
<1>13. AccountShape'
  BY <1>2, <1>4, <1>5, <1>6, <1>7 DEF AccountInv, AccountShape, Acc!Visible
<1>14. UserMade'
  BY <1>4, <1>5 DEF UserMade
<1>15. UserSound'
  BY <1>4 DEF UserSound
<1>16. OthersSound'
  BY <1>4 DEF OthersSound
<1>17. AccountEffect'
  BY <1>4 DEF AccountEffect, Proceeded
<1>18. FoundInv'
  BY <1>2, <1>3, <1>4, <1>5 DEF AccountInv, FoundInv, Acc!StartAgain, AccountLife
<1>19. ShellsInv'
  BY <1>4 DEF ShellsInv
<1>20. AccountSettled'
  BY <1>4 DEF AccountSettled, Proceeded
<1>21. AccountCalm'
  BY <1>2, <1>4, <1>5, <1>8 DEF AccountInv, AccountSettled, AccountCalm, Acc!Verdict,
                                Acc!UserVerdict, Acc!GroupVerdict, Acc!ShellVerdict,
                                Acc!Visible, Acc!Known, Acc!HasShell, Acc!Differs,
                                Acc!UidInUse
<1>22. Acc!AccountKept'
  BY <1>3 DEF Acc!AccountKept
<1>23. Acc!FreshAccountGone'
  BY <1>4 DEF Acc!FreshAccountGone
<1>24. Acc!ShellRestored'
  BY <1>4 DEF Acc!ShellRestored
<1>25. Acc!ShellsKept'
  BY <1>2 DEF AccountInv, Acc!ShellsKept
<1>. QED
  BY <1>11, <1>12, <1>13, <1>14, <1>15, <1>16, <1>17, <1>18, <1>19, <1>20, <1>21, <1>22,
     <1>23, <1>24, <1>25
     DEF AccountInv

\* Nothing of an account changes.
LEMMA AccountStutter ==
  ASSUME AccountInv,
         UNCHANGED <<phase, outcome, result, undo, faults, platform, params, ordered, taken, runs,
                     fresh, created, pre, buffer, user, group, shells, other, before, calm>>
  PROVE  AccountInv'
<1>1. AccountLife' /\ AccountType' /\ AccountShape'
  BY DEF AccountInv, AccountLife, AccountType, AccountShape, LifeOf, InOrder, Proceeded,
         Acc!LifeTypeOK, Acc!Visible
<1>2. UserMade' /\ UserSound' /\ OthersSound'
  BY DEF AccountInv, UserMade, UserSound, OthersSound, Claim, Disputed, Acc!Visible,
         Acc!Known, Acc!HasShell, Acc!UidInUse
<1>3. AccountEffect' /\ FoundInv' /\ ShellsInv'
  BY DEF AccountInv, AccountEffect, FoundInv, ShellsInv, Proceeded, Acc!Visible
<1>4. \A n \in Three : Acc!Verdict(n)' = Acc!Verdict(n)
  BY DEF Acc!Verdict, Acc!UserVerdict, Acc!GroupVerdict, Acc!ShellVerdict, Acc!Visible,
         Acc!Known, Acc!HasShell, Acc!Differs, Acc!UidInUse
<1>5. AccountSettled' /\ AccountCalm'
  BY <1>4 DEF AccountInv, AccountSettled, AccountCalm, Proceeded
<1>6. Acc!AccountKept' /\ Acc!FreshAccountGone' /\ Acc!ShellRestored' /\ Acc!ShellsKept'
  BY DEF AccountInv, Acc!AccountKept, Acc!FreshAccountGone, Acc!ShellRestored,
         Acc!ShellsKept
<1>. QED
  BY <1>1, <1>2, <1>3, <1>5, <1>6 DEF AccountInv

\* The accounts a program may find.
LEMMA AccountInit ==
  ASSUME Acc!Init, calm = FALSE
  PROVE  AccountInv
<1>1. /\ phase = [n \in Three |-> "assess"] /\ outcome = [n \in Three |-> "NONE"]
      /\ result = [n \in Three |-> "NONE"] /\ undo = [n \in Three |-> "NONE"]
  BY DEF Acc!Init, Acc!LifeInit
<1>2. user \in Acc!User /\ before = [user |-> user, group |-> group, shell |-> user.shell]
  BY DEF Acc!Init, Acc!User, Acc!AdminUser, Acc!NoUser, Acc!LoginShell
<1>3. AccountLife
  BY <1>1 DEF AccountLife, LifeOf, InOrder, UserPhase, GroupPhase, ShellPhase, Undoing
<1>4. AccountType
  <2>1. before \in [user : Acc!User, group : {"none", "empty", "member"},
                    shell : Acc!LoginShell \cup {"none"}]
    BY <1>2 DEF Acc!Init, Acc!User
  <2>2. taken \in BOOLEAN /\ params \in Acc!Params
    BY DEF Acc!Init, Acc!Params
  <2>3. runs \in 1 .. MaxRuns
    BY BoundsAssumption DEF Acc!Init
  <2>4. shells = {"old"} \/ shells = {"old", "zsh"}
    BY DEF Acc!Init
  <2>. QED
    BY <1>1, <1>2, <2>1, <2>2, <2>3, <2>4 DEF Acc!Init, AccountType, Acc!LifeTypeOK
<1>5. AccountShape
  <2>1. user = Acc!NoUser \/ (user.by = "admin" /\ Acc!Visible)
    BY DEF Acc!Init, Acc!AdminUser, Acc!Visible
  <2>2. taken => params.uid
    BY DEF Acc!Init
  <2>3. ~ordered => ~faults /\ runs = 1 /\ params.supp /\ params.create /\ params.register
    BY DEF Acc!Init
  <2>. QED
    BY <1>1, <2>1, <2>2, <2>3 DEF AccountShape, Acc!NoUser
<1>6. UserMade /\ UserSound /\ OthersSound /\ AccountEffect /\ ShellsInv /\ AccountSettled
  BY <1>1 DEF Acc!Init, UserMade, UserSound, OthersSound, AccountEffect, Proceeded,
              ShellsInv, AccountSettled
<1>7. FoundInv
  BY <1>1, <1>2 DEF Acc!Init, FoundInv
<1>8. AccountCalm
  BY DEF AccountCalm
<1>9. Acc!AccountKept /\ Acc!FreshAccountGone /\ Acc!ShellRestored /\ Acc!ShellsKept
  <2>1. "old" \in shells /\ other = "no"
    BY DEF Acc!Init
  <2>. QED
    BY <1>1, <1>2, <2>1 DEF Acc!AccountKept, Acc!FreshAccountGone, Acc!ShellRestored,
                            Acc!ShellsKept
<1>. QED
  BY <1>3, <1>4, <1>5, <1>6, <1>7, <1>8, <1>9 DEF AccountInv

\* Every action of Accounts preserves the invariant.
LEMMA AccountNext ==
  ASSUME AccountInv, Acc!Next, calm' = CalmNext
  PROVE  AccountInv'
<1>1. CASE \E n \in {1, 2, 3} : Acc!AssessState(n)
  BY <1>1, AssessUserStep, AssessGroupStep, AssessShellStep
<1>. QED
  BY <1>1, AccountStartStep, OtherShellStep, ProbeUserStep, UserAddStep, CreateRecordStep,
     CreateUidStep, CreateShellStep, AddSupplementaryStep, CheckUserStep, DeleteUserStep,
     ProbeGroupStep, CreateGroupStep, AddMemberStep, RemoveMemberStep, ReadShellsStep,
     WriteShellsStep, ChangeShellStep, RestoreShellStep
     DEF Acc!Next
=============================================================================
