------------------------------ MODULE Accounts ------------------------------
(***************************************************************************)
(* Three nodes that prepare one local account: EnsureUserStateChanger,      *)
(* EnsureGroupMembershipStateChanger and EnsureDefaultShellStateChanger     *)
(* (posix/), on Linux and on macOS.  One action per command or per write;   *)
(* a command that fails may have had its effect.  The host stays when the   *)
(* program calls start() again, and so does what the changers recorded.     *)
(*                                                                         *)
(* The uid stands for what a record of macOS needs besides the shell: uid,  *)
(* primary group and home.  Names that are refused and tools or shells that *)
(* are missing make assess_state INVALID, as a fault does.  Node is         *)
(* {1, 2, 3}.                                                               *)
(***************************************************************************)
EXTENDS Naturals, NodeLife

CONSTANT MaxRuns  \* bound on how often the program calls start()

\* "sh" is the shell useradd gives by default, "bash" the one ensure_user asks
\* for, "zsh" the one of ensure_default_shell.
LoginShell == {"sh", "bash", "zsh"}

\* Of ensure_user: uid, shell, enforce_attributes and supplementary_groups; then
\* create_group_if_missing and register_in_etc_shells.
Params == [uid : BOOLEAN, shell : BOOLEAN, enforce : BOOLEAN, supp : BOOLEAN,
           create : BOOLEAN, register : BOOLEAN]

\* by: who has made the account.
User == [by : {"none", "admin", "program"}, uid : {"none", "wanted", "other"},
         shell : LoginShell \cup {"none"}]

NoUser == [by |-> "none", uid |-> "none", shell |-> "none"]

VARIABLES
  faults,     \* may the calls of this host fail?
  platform,   \* env.platform()
  params,     \* self._params of the three changers
  ordered,    \* does each node depend on those before it?
  taken,      \* has another account the wanted uid?
  user,       \* the account
  group,      \* the group: "none", "empty" or "member" (the user is one)
  shells,     \* the lines of /etc/shells
  fresh,      \* created_by_us of the transition that is running
  created,    \* self._created_by_us
  pre,        \* self._pre_shell
  buffer,     \* the lines that have been read
  other,      \* another program's line: "no", "added", or "raced" if it was added
              \* while a changer was between its read and its write
  runs,
  before      \* the account, the group and the login shell when the transition
              \* that is about it began

setVars  == <<faults, platform, params, ordered, taken, runs>>
memVars  == <<fresh, created, pre, buffer>>
vars     == <<setVars, memVars, user, group, shells, other, before, lifeVars>>

Linux  == platform = "linux"
Darwin == platform = "darwin"

\* _probe_user: a record of macOS without one of the attributes is no user.
Visible == user.by # "none" /\ user.uid # "none" /\ user.shell # "none"

\* What id knows, and of which user there is a login shell.
Known    == user.by # "none" /\ user.uid # "none"
HasShell == user.by # "none" /\ user.shell # "none"

AdminUser(uid, shell) == [by |-> "admin", uid |-> uid, shell |-> shell]

\* Nodes without an order are of interest in one run without faults, and for an account
\* of which both ensure_user and ensure_group_membership want the same group.  The flags of
\* ensure_group_membership and ensure_default_shell are given where they matter.
Init ==
  /\ faults \in BOOLEAN
  /\ platform \in {"linux", "darwin"}
  /\ ordered \in BOOLEAN
  /\ params \in {p \in Params : /\ p.enforce => p.uid \/ p.shell
                                /\ ~ordered => p.supp /\ p.create /\ p.register}
  /\ ordered \/ ~faults
  /\ taken \in {FALSE, params.uid}
  /\ user \in {NoUser, AdminUser("other", "sh")} \cup
               {AdminUser("wanted", shell) : shell \in {s \in {"bash", "zsh"} : ~taken}}
  /\ group \in {"none", "empty"} \cup {g \in {"member"} : user # NoUser}
  /\ params.create \/ group = "none"
  /\ shells \in {{"old"}} \cup {{"old", "zsh"} : r \in {FALSE} \ {params.register}}
  /\ fresh = FALSE
  /\ created = FALSE
  /\ pre = "none"
  /\ buffer = {}
  /\ other = "no"
  /\ runs = 1
  /\ before = [user |-> user, group |-> group, shell |-> user.shell]
  /\ LifeInit

-----------------------------------------------------------------------------
(* assess_state.                                                            *)

\* _probe_uid_owner finds somebody, who may be a record without the rest.
UidInUse == params.uid /\ (taken \/ (user.uid = "wanted" /\ ~Visible))

\* Mutant: attributes are compared also when enforce_attributes is False.
DiffersAlways ==
  \/ params.uid /\ user.uid # "wanted"
  \/ params.shell /\ user.shell # "bash"

\* _attribute_diffs
Differs ==
  /\ params.enforce
  /\ \/ params.uid /\ user.uid # "wanted"
     \/ params.shell /\ user.shell # "bash"

UserVerdict ==
  IF \/ UidInUse
     \/ params.supp /\ group = "none"
     \/ Visible /\ Differs THEN "INVALID"
  ELSE IF Visible /\ (params.supp => group = "member") THEN "ALREADY_APPLIED"
  ELSE "READY"

GroupVerdict ==
  IF ~Known THEN "INVALID"
  ELSE IF group = "member" THEN "ALREADY_APPLIED"
  ELSE IF group = "none" /\ ~params.create THEN "INVALID"
  ELSE "READY"

ShellVerdict ==
  IF ~HasShell THEN "INVALID"
  ELSE IF user.shell = "zsh" THEN "ALREADY_APPLIED"
  ELSE IF "zsh" \notin shells /\ ~params.register THEN "INVALID"
  ELSE "READY"

Verdict(n) ==
  CASE n = 1 -> UserVerdict
    [] n = 2 -> GroupVerdict
    [] n = 3 -> ShellVerdict

\* An error of a probe is an issue; ensure_user takes a lookup that exits with
\* another code for an account that does not exist.
FaultyVerdicts(n) ==
  {"INVALID"} \cup {s \in {"READY"} : n = 1}

Released(n) ==
  \A m \in Node : ordered /\ m < n =>
    outcome[m] \in {"SUCCESS", "SKIPPED_ALREADY_APPLIED", "SKIPPED_BY_TRANSITION"}

AssessState(n) ==
  /\ Released(n)
  /\ \E state \in {Verdict(n)} \cup (IF faults THEN FaultyVerdicts(n) ELSE {}) :
       Assess(n, state) \/ Verify(n, state)
  /\ UNCHANGED <<setVars, memVars, user, group, shells, other, before>>

\* Between two runs the administrator may change the shell, or delete the account
\* and make it anew.
StartAgain ==
  /\ ordered
  /\ \A n \in Node : phase[n] = "done" \/ ~Released(n)
  /\ runs < MaxRuns
  /\ runs' = runs + 1
  /\ user' \in {user, AdminUser("other", "sh")} \cup
               {[user EXCEPT !.shell = s] : s \in {t \in {"sh"} : Visible}}
  /\ before' = [user |-> user', group |-> group, shell |-> user'.shell]
  /\ fresh' = FALSE
  /\ LifeAgain
  /\ UNCHANGED <<faults, platform, params, ordered, taken, created, pre, buffer,
                 group, shells, other>>

\* Another program appends its line to /etc/shells; one that was appended before
\* is among the old ones.
OtherShell ==
  /\ params.register
  /\ other = "no"
  /\ phase[3] # "assess"
  /\ other' = (IF phase[3] = "append" THEN "raced" ELSE "added")
  /\ shells' = shells \cup {"fish"}
  /\ UNCHANGED <<setVars, memVars, user, group, before, lifeVars>>

-----------------------------------------------------------------------------
(* ensure_user.                                                             *)

At(n, p)       == phase[n] = p
Continue(n, p) == Goto(n, p) /\ UNCHANGED <<outcome, result, undo>>
Succeeds(n)    == Returns(n, "SUCCESS")
Fails(n)       == Returns(n, "FAILURE")

\* The last two lines stand for lookups that fail; they may count as "absent".
ProbeUser ==
  /\ At(1, "transition")
  /\ before' = [before EXCEPT !.user = user]
  /\ \/ Visible /\ Continue(1, "groups")
     \/ ~Visible /\ UidInUse /\ Fails(1)
     \/ ~Visible /\ ~UidInUse /\ Continue(1, "create")
     \/ faults /\ Fails(1)
     \/ faults /\ Continue(1, "create")
  /\ fresh' = FALSE
  /\ UNCHANGED <<setVars, created, pre, buffer, user, group, shells, other>>

\* useradd makes the account whole, or refuses a name or a uid that exists.
UserAdd ==
  /\ At(1, "create") /\ Linux
  /\ \/ /\ user = NoUser /\ ~taken
        /\ user' = [by    |-> "program",
                    uid   |-> IF params.uid THEN "wanted" ELSE "other",
                    shell |-> IF params.shell THEN "bash" ELSE "sh"]
        /\ \/ fresh' = TRUE /\ Continue(1, "groups")
           \/ faults /\ UNCHANGED fresh /\ Fails(1)
     \/ (user # NoUser \/ taken \/ faults) /\ Fails(1) /\ UNCHANGED <<user, fresh>>
  /\ UNCHANGED <<setVars, created, pre, buffer, group, shells, other, before>>

\* dscl -create, once for the record and once for each attribute asked for; a
\* record that exists is left as it is.
CreateRecord ==
  /\ At(1, "create") /\ Darwin
  /\ LET record == IF user = NoUser THEN [NoUser EXCEPT !.by = "program"] ELSE user
     IN \/ user' = record /\ Continue(1, "uid")
        \/ faults /\ user' \in {user, record} /\ Fails(1)
  /\ UNCHANGED <<setVars, memVars, group, shells, other, before>>

CreateUid ==
  /\ At(1, "uid")
  /\ LET record == IF params.uid THEN [user EXCEPT !.uid = "wanted"] ELSE user
     IN \/ user' = record /\ Continue(1, "shell")
        \/ faults /\ params.uid /\ user' \in {user, record} /\ Fails(1)
  /\ UNCHANGED <<setVars, memVars, group, shells, other, before>>

CreateShell ==
  /\ At(1, "shell")
  /\ LET record == IF params.shell THEN [user EXCEPT !.shell = "bash"] ELSE user
     IN \/ user' = record /\ fresh' = TRUE /\ Continue(1, "groups")
        \/ faults /\ params.shell /\ user' \in {user, record} /\ UNCHANGED fresh /\ Fails(1)
  /\ UNCHANGED <<setVars, created, pre, buffer, group, shells, other, before>>

\* usermod -aG or dseditgroup -a for the supplementary group that is missing.
AddSupplementary ==
  /\ At(1, "groups")
  /\ LET needed == params.supp /\ group # "member"
     IN \/ ~needed /\ Continue(1, "check") /\ UNCHANGED group
        \/ needed /\ group = "empty" /\ group' = "member"
             /\ (Continue(1, "check") \/ (faults /\ Fails(1)))
        \/ params.supp /\ (group = "none" \/ faults) /\ Fails(1) /\ UNCHANGED group
  /\ UNCHANGED <<setVars, memVars, user, shells, other, before>>

\* Mutant: what is recorded does not say who has made the account.
CheckUserClaims ==
  /\ At(1, "check")
  /\ \/ Visible /\ created' = TRUE /\ Succeeds(1)
     \/ ~Visible /\ Fails(1) /\ UNCHANGED created
  /\ UNCHANGED <<setVars, fresh, pre, buffer, user, group, shells, other, before>>

\* The account is looked up again, and only now is it recorded who has made it.
CheckUser ==
  /\ At(1, "check")
  /\ \/ Visible /\ created' = fresh /\ Succeeds(1)
     \/ (~Visible \/ faults) /\ Fails(1) /\ UNCHANGED created
  /\ UNCHANGED <<setVars, fresh, pre, buffer, user, group, shells, other, before>>

\* The entries of groups go with userdel, but not with dscl -delete.
DeleteUser ==
  /\ At(1, "rollback")
  /\ \/ (~created \/ ~Visible \/ faults) /\ Undone(1, "SKIPPED") /\ UNCHANGED <<user, group>>
     \/ /\ created /\ Visible
        /\ user' = NoUser
        /\ group' = (IF Linux /\ group = "member" THEN "empty" ELSE group)
        /\ Undone(1, "SUCCESS") \/ (faults /\ Undone(1, "FAILURE"))
     \/ created /\ faults /\ Undone(1, "FAILURE") /\ UNCHANGED <<user, group>>
  /\ UNCHANGED <<setVars, memVars, shells, other, before>>

-----------------------------------------------------------------------------
(* ensure_group_membership.                                                 *)

ProbeGroup ==
  /\ At(2, "transition")
  /\ before' = [before EXCEPT !.group = group]
  /\ \/ group # "none" /\ Continue(2, "member")
     \/ group = "none" /\ params.create /\ Continue(2, "group")
     \/ (faults \/ (group = "none" /\ ~params.create)) /\ Fails(2)
  /\ UNCHANGED <<setVars, memVars, user, group, shells, other>>

\* groupadd or dseditgroup -o create
CreateGroup ==
  /\ At(2, "group")
  /\ \/ group' = "empty" /\ (Continue(2, "member") \/ (faults /\ Fails(2)))
     \/ faults /\ UNCHANGED group /\ Fails(2)
  /\ UNCHANGED <<setVars, memVars, user, shells, other, before>>

\* usermod -aG or dseditgroup -a
AddMember ==
  /\ At(2, "member")
  /\ \/ Known /\ group' = "member" /\ (Succeeds(2) \/ (faults /\ Fails(2)))
     \/ (~Known \/ faults) /\ Fails(2) /\ UNCHANGED group
  /\ UNCHANGED <<setVars, memVars, user, shells, other, before>>

\* gpasswd -d or dseditgroup -d, whatever the transition has done; gpasswd refuses
\* to remove who is no member.
RemoveMember ==
  /\ At(2, "rollback")
  /\ \/ group = "member" /\ group' = "empty"
          /\ (Undone(2, "SUCCESS") \/ (faults /\ Undone(2, "FAILURE")))
     \/ group # "member" /\ Darwin /\ Undone(2, "SUCCESS") /\ UNCHANGED group
     \/ (group # "member" \/ faults) /\ Undone(2, "FAILURE") /\ UNCHANGED group
  /\ UNCHANGED <<setVars, memVars, user, shells, other, before>>

-----------------------------------------------------------------------------
(* ensure_default_shell.                                                    *)

\* _maybe_register_in_etc_shells reads the file ...
ReadShells ==
  /\ At(3, "transition")
  /\ before' = [before EXCEPT !.shell = user.shell]
  /\ \/ /\ ~params.register \/ "zsh" \in shells
        /\ Continue(3, "chsh")
        /\ UNCHANGED buffer
     \/ /\ params.register /\ "zsh" \notin shells
        /\ buffer' = shells
        /\ Continue(3, "append")
     \/ faults /\ Fails(3) /\ UNCHANGED buffer
  /\ UNCHANGED <<setVars, fresh, created, pre, user, group, shells, other>>

\* ... and writes all of it; a write that fails may leave it empty.
WriteShells ==
  /\ At(3, "append")
  /\ \/ shells' = buffer \cup {"zsh"} /\ Continue(3, "chsh")
     \/ faults /\ shells' \in {shells, {}, buffer} /\ Fails(3)
  /\ buffer' = {}
  /\ UNCHANGED <<setVars, fresh, created, pre, user, group, other, before>>

\* Mutant: only the first shell is recorded.
ChangeShellFirst ==
  /\ At(3, "chsh")
  /\ \/ /\ HasShell
        /\ user' = [user EXCEPT !.shell = "zsh"]
        /\ \/ pre' = (IF pre = "none" THEN user.shell ELSE pre) /\ Succeeds(3)
           \/ faults /\ UNCHANGED pre /\ Fails(3)
     \/ (~HasShell \/ faults) /\ Fails(3) /\ UNCHANGED <<user, pre>>
  /\ UNCHANGED <<setVars, fresh, created, buffer, group, shells, other, before>>

\* chsh -s or dscl -change; the shell it replaces is recorded when it has
\* succeeded.
ChangeShell ==
  /\ At(3, "chsh")
  /\ \/ /\ HasShell
        /\ user' = [user EXCEPT !.shell = "zsh"]
        /\ \/ pre' = user.shell /\ Succeeds(3)
           \/ faults /\ UNCHANGED pre /\ Fails(3)
     \/ (~HasShell \/ faults) /\ Fails(3) /\ UNCHANGED <<user, pre>>
  /\ UNCHANGED <<setVars, fresh, created, buffer, group, shells, other, before>>

\* The line in /etc/shells stays.
RestoreShell ==
  /\ At(3, "rollback")
  /\ \/ (pre = "none" \/ ~HasShell \/ faults) /\ Undone(3, "FAILURE") /\ UNCHANGED user
     \/ pre # "none" /\ HasShell /\ user' = [user EXCEPT !.shell = pre]
          /\ (Undone(3, "SUCCESS") \/ (faults /\ user.shell # pre /\ Undone(3, "FAILURE")))
  /\ UNCHANGED <<setVars, memVars, group, shells, other, before>>

Next ==
  \/ \E n \in Node : AssessState(n)
  \/ StartAgain \/ OtherShell
  \/ ProbeUser \/ UserAdd \/ CreateRecord \/ CreateUid \/ CreateShell
  \/ AddSupplementary \/ CheckUser \/ DeleteUser
  \/ ProbeGroup \/ CreateGroup \/ AddMember \/ RemoveMember
  \/ ReadShells \/ WriteShells \/ ChangeShell \/ RestoreShell

Spec == Init /\ [][Next]_vars

-----------------------------------------------------------------------------
(* Properties.                                                              *)

TypeOK ==
  /\ LifeTypeOK
  /\ \A n \in Node : phase[n] \in {"assess", "transition", "create", "uid", "shell", "groups",
                                   "check", "group", "member", "append", "chsh", "verify",
                                   "rollback", "done"}
  /\ {faults, ordered, taken, fresh, created} \subseteq BOOLEAN
  /\ platform \in {"linux", "darwin"}
  /\ params \in Params
  /\ user \in User
  /\ group \in {"none", "empty", "member"}
  /\ {shells, buffer} \subseteq SUBSET {"old", "fish", "zsh"}
  /\ pre \in LoginShell \cup {"none"}
  /\ other \in {"no", "added", "raced"}
  /\ runs \in 1 .. MaxRuns

\* In an ordered graph, what the nodes report stays true while later nodes run and
\* are rolled back.  Without faults no second assessment is disappointed, in any
\* order; the exception: without an order, ensure_user demands a shell and finds the
\* one that ensure_default_shell has set, and its rollback deletes the account.
EffectConfirmed ==
  /\ ordered =>
       \A n \in Node : outcome[n] \in {"SUCCESS", "SKIPPED_ALREADY_APPLIED"} =>
         CASE n = 1 -> Visible /\ (params.supp => group = "member")
           [] n = 2 -> group = "member"
           [] n = 3 -> user.shell = "zsh"
  /\ ~faults /\ "MISMATCH" \in {result[n] : n \in Node} =>
       ~ordered /\ params.enforce /\ params.shell

\* An account that was there when ensure_user began is not deleted by a rollback.
\* The exceptions: an earlier run of the program made it, or one of that name, and
\* this run fails; and macOS, where a failed lookup makes the account count as new.
AccountKept ==
  before.user.by # "none" /\ user.by = "none" => faults /\ (runs > 1 \/ Darwin)

\* Without faults a failed ensure_user leaves no account behind that was not there,
\* except on macOS, where an attribute that is not asked for leaves a record that
\* is no user.  Without faults, an ordered graph leaves no group without its member
\* that was not there; a rollback that reports success has removed the account.
FreshAccountGone ==
  /\ ~faults /\ outcome[1] = "FAILED_TRANSITION" /\ before.user.by = "none" =>
       user.by = "none" \/ (Darwin /\ ~(params.uid /\ params.shell))
  /\ ~faults /\ ordered /\ phase[2] = "done" /\ before.group = "none" => group # "empty"
  /\ undo[1] = "SUCCESS" => user = NoUser

\* The rollback of ensure_default_shell puts back the shell this run has found,
\* unless the transition has failed and an earlier run had recorded another one.
ShellRestored ==
  ordered /\ undo[3] = "SUCCESS" =>
    user.shell = before.shell \/ (runs > 1 /\ result[3] = "FAILURE")

\* Without faults /etc/shells loses no line, except one that another program adds
\* between the read and the write.
ShellsKept ==
  ~faults => "old" \in shells /\ (other = "added" => "fish" \in shells)
=============================================================================
