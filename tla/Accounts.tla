------------------------------ MODULE Accounts ------------------------------
(***************************************************************************)
(* The accounts and groups of the machine.  A new machine has none: the    *)
(* boot tasks make them from etc/group.json and etc/passwd.json, and the   *)
(* halt tasks write these files, while accounts are still made             *)
(* (home/server/bin/decide).  sbin/sync does both on a running machine.    *)
(* Machine has the tasks that deal with the files of the members.          *)
(***************************************************************************)
EXTENDS Naturals, Sequences, FiniteSets

CONSTANTS
  Names,        \* of users, and of the private group of each
  Main, Extra,  \* two shared groups: "member", which everybody joins, and another
  Begins,       \* pairs: the first name begins the second
  Within,       \* pairs: the name of the shared group is part of the name of the user
  Bad,          \* a file that bin/json rejects
  MaxHash,      \* bound: how often a user changes the password
  MaxHalts,     \* bound: how often the machine is halted, or synced
  MaxCrashes    \* bound

Shared == {Main, Extra}

ASSUME AccountsAssumption ==
  /\ IsFiniteSet(Names) /\ Names \cap Shared = {}
  /\ Begins \subseteq Names \X Names /\ \A p \in Begins : p[1] # p[2]
  /\ Within \subseteq Shared \X Names
  /\ MaxHash \in Nat /\ MaxHalts \in Nat /\ MaxCrashes \in Nat

Memberships == SUBSET (Shared \X Names)
Accounts == UNION {[ns -> 0 .. MaxHash] : ns \in SUBSET Names}
Tables == [groups : SUBSET (Names \union Shared), member : Memberships]

NoAccounts == [u \in {} |-> 0]

ASSUME BadAssumption == Bad \notin Accounts \union Tables

VARIABLES
  todo,     \* the tasks that are left
  buffer,   \* the temporary file of savegroups and saveusers, when there is one
  users,    \* /etc/passwd and /etc/shadow: the password of each account
  groups,   \* /etc/group: the groups ...
  member,   \* ... and who belongs to which shared one
  group,    \* etc/group.json
  passwd,   \* etc/passwd.json
  repo,     \* both, as committed last
  phase, halts, crashes,
  stopped,  \* history: some boot ended at fsck
  asked,    \* history: the accounts when the halt began
  kept      \* history: the same, for the last halt that was committed

system == <<users, groups, member>>
files == <<group, passwd>>
history == <<stopped, asked, kept>>
vars == <<todo, buffer, system, files, repo, phase, halts, crashes, history>>

Tasks == {"fsck", "creategroups", "createusers", "modusers", "savegroups", "saveusers"}
Boot == <<"fsck", "creategroups", "createusers", "modusers">>
Halt == <<"savegroups", "saveusers">>
Sync == <<"creategroups", "createusers", "modusers", "savegroups", "saveusers">>

\* The name of one user begins that of another.
Clash(ns) == \E p \in Begins : {p[1], p[2]} \subseteq ns

\* etc/group.json and etc/passwd.json list every user with a group and a membership.
Init ==
  /\ \E ns \in SUBSET Names :
       /\ ~Clash(ns)
       /\ passwd = [u \in ns |-> 0]
       /\ group = [groups |-> ns \union Shared, member |-> {Main} \X ns]
  /\ repo = [group |-> group, passwd |-> passwd]
  /\ users = NoAccounts /\ groups = {} /\ member = {}
  /\ phase = "boot" /\ todo = Boot /\ buffer = <<>>
  /\ halts = 0 /\ crashes = 0 /\ stopped = FALSE
  /\ asked = [users |-> passwd, member |-> group.member] /\ kept = asked
-----------------------------------------------------------------------------
(* Members and administrators, while the machine is up and while it halts. *)

Running == phase \in {"up", "halt"}

\* decide: useradd with a group of the same name, and in the group of the members.
Accept(u) ==
  /\ Running
  /\ u \notin DOMAIN users /\ u \notin groups /\ Main \in groups
  /\ users' = [v \in DOMAIN users \union {u} |-> IF v = u THEN 0 ELSE users[v]]
  /\ groups' = groups \union {u}
  /\ member' = member \union {<<Main, u>>}
  /\ UNCHANGED <<todo, buffer, files, repo, phase, halts, crashes, history>>

ChangePassword(u) ==
  /\ Running /\ u \in DOMAIN users /\ users[u] < MaxHash
  /\ users' = [users EXCEPT ![u] = @ + 1]
  /\ UNCHANGED <<todo, buffer, groups, member, files, repo, phase, halts, crashes, history>>

Enlist(u) ==
  /\ Running /\ u \in DOMAIN users /\ Extra \in groups
  /\ member' = member \union {<<Extra, u>>}
  /\ UNCHANGED <<todo, buffer, users, groups, files, repo, phase, halts, crashes, history>>
-----------------------------------------------------------------------------
(* The tasks. *)

Doing(task) == todo # <<>> /\ Head(todo) = task
Done == todo' = Tail(todo)

\* A file that bin/json rejects ends the boot: no task follows, and init still
\* reports success.
Fsck ==
  /\ Doing("fsck")
  /\ IF Bad \in {group, passwd}
     THEN todo' = <<>> /\ phase' = "up" /\ stopped' = TRUE
     ELSE Done /\ UNCHANGED <<phase, stopped>>
  /\ UNCHANGED <<buffer, system, files, repo, halts, crashes, asked, kept>>

\* groupadd fails for a group there is.
CreateGroups ==
  /\ Doing("creategroups") /\ Done
  /\ groups' = groups \union (IF group = Bad THEN {} ELSE group.groups)
  /\ UNCHANGED <<buffer, users, member, files, repo, phase, halts, crashes, history>>

\* Variant: an account whose group is missing gets a new one.
CreateUsersWithGroup ==
  LET new == IF passwd = Bad THEN {} ELSE DOMAIN passwd \ DOMAIN users IN
  /\ Doing("createusers") /\ Done
  /\ users' = [u \in DOMAIN users \union new |-> IF u \in new THEN passwd[u] ELSE users[u]]
  /\ groups' = groups \union new
  /\ UNCHANGED <<buffer, member, files, repo, phase, halts, crashes, history>>

\* useradd fails for an account there is, and for one whose group there is not.
CreateUsers ==
  LET new == IF passwd = Bad THEN {} ELSE (DOMAIN passwd \ DOMAIN users) \cap groups IN
  /\ Doing("createusers") /\ Done
  /\ users' = [u \in DOMAIN users \union new |-> IF u \in new THEN passwd[u] ELSE users[u]]
  /\ UNCHANGED <<buffer, groups, member, files, repo, phase, halts, crashes, history>>

\* The last task of a boot.
Up == phase' = IF phase = "boot" THEN "up" ELSE phase

\* Variant: a user who was added to one group is not added to another.
ModUsersOnce ==
  /\ Doing("modusers") /\ Done /\ Up
  /\ member' = member \union
       (IF group = Bad THEN {}
        ELSE {m \in group.member : m[2] \in DOMAIN users /\ m \notin Within
                                   /\ \A n \in group.member : n[2] = m[2] => n = m})
  /\ UNCHANGED <<buffer, users, groups, files, repo, halts, crashes, history>>

\* usermod for every user of every group: grep -v drops each name that contains
\* the name of the group.
ModUsers ==
  /\ Doing("modusers") /\ Done /\ Up
  /\ member' = member \union
       (IF group = Bad THEN {}
        ELSE {m \in group.member : m[2] \in DOMAIN users /\ m \notin Within})
  /\ UNCHANGED <<buffer, users, groups, files, repo, halts, crashes, history>>

\* The list goes to a temporary file, and the file it is for is truncated ...
RenderGroups ==
  /\ Doing("savegroups") /\ buffer = <<>>
  /\ buffer' = <<[groups |-> groups, member |-> member]>>
  /\ group' = Bad
  /\ UNCHANGED <<todo, system, passwd, repo, phase, halts, crashes, history>>

\* ... and written.
SaveGroups ==
  /\ Doing("savegroups") /\ buffer # <<>> /\ Done
  /\ group' = Head(buffer) /\ buffer' = <<>>
  /\ UNCHANGED <<system, passwd, repo, phase, halts, crashes, history>>

\* The password is looked up with grep: a name that begins another one gets two
\* lines, and so a line end inside a JSON string.
RenderUsers ==
  /\ Doing("saveusers") /\ buffer = <<>>
  /\ buffer' = <<IF Clash(DOMAIN users) THEN Bad ELSE users>>
  /\ passwd' = Bad
  /\ UNCHANGED <<todo, system, group, repo, phase, halts, crashes, history>>

\* The last task of a halt.
SaveUsers ==
  /\ Doing("saveusers") /\ buffer # <<>> /\ Done
  /\ passwd' = Head(buffer) /\ buffer' = <<>>
  /\ phase' = IF phase = "halt" THEN "halted" ELSE phase
  /\ UNCHANGED <<system, group, repo, halts, crashes, history>>
-----------------------------------------------------------------------------
(* init, the agent and the world. *)

StartHalt ==
  /\ phase = "up" /\ todo = <<>> /\ halts < MaxHalts
  /\ halts' = halts + 1
  /\ phase' = "halt" /\ todo' = Halt
  /\ asked' = [users |-> users, member |-> member]
  /\ UNCHANGED <<buffer, system, files, repo, crashes, stopped, kept>>

StartSync ==
  /\ phase = "up" /\ todo = <<>> /\ halts < MaxHalts
  /\ halts' = halts + 1
  /\ todo' = Sync
  /\ UNCHANGED <<buffer, system, files, repo, phase, crashes, history>>

\* The machine stays, or a new one without accounts takes its place.
KeptOrNew ==
  \/ UNCHANGED system
  \/ users' = NoAccounts /\ groups' = {} /\ member' = {}

\* The agent commits the files and boots again.
Deploy ==
  /\ phase = "halted"
  /\ repo' = [group |-> group, passwd |-> passwd]
  /\ kept' = asked
  /\ phase' = "boot" /\ todo' = Boot
  /\ KeptOrNew
  /\ UNCHANGED <<buffer, files, halts, crashes, stopped, asked>>

\* The machine restarts with its files, or what was committed goes to a new one.
Crash ==
  /\ crashes < MaxCrashes
  /\ crashes' = crashes + 1
  /\ phase' = "boot" /\ todo' = Boot /\ buffer' = <<>>
  /\ \/ KeptOrNew /\ UNCHANGED files
     \/ /\ users' = NoAccounts /\ groups' = {} /\ member' = {}
        /\ group' = repo.group /\ passwd' = repo.passwd
  /\ UNCHANGED <<repo, halts, history>>

Task ==
  \/ Fsck \/ CreateGroups \/ CreateUsers \/ ModUsers
  \/ RenderGroups \/ SaveGroups \/ RenderUsers \/ SaveUsers

Next ==
  \/ \E u \in Names : Accept(u) \/ ChangePassword(u) \/ Enlist(u)
  \/ Task \/ StartHalt \/ StartSync \/ Deploy \/ Crash

Spec == Init /\ [][Next]_vars
-----------------------------------------------------------------------------
(* Properties *)

TypeOK ==
  /\ todo \in Seq(Tasks)
  /\ buffer # <<>> =>
       /\ buffer = <<Head(buffer)>>
       /\ IF Doing("savegroups") THEN Head(buffer) \in Tables
                                 ELSE Head(buffer) \in Accounts \union {Bad}
  /\ users \in Accounts
  /\ groups \subseteq Names \union Shared /\ member \in Memberships
  /\ group \in Tables \union {Bad} /\ passwd \in Accounts \union {Bad}
  /\ repo \in [group : Tables \union {Bad}, passwd : Accounts \union {Bad}]
  /\ phase \in {"boot", "up", "halt", "halted"}
  /\ halts \in 0 .. MaxHalts /\ crashes \in 0 .. MaxCrashes
  /\ stopped \in BOOLEAN
  /\ asked \in [users : Accounts, member : Memberships]
  /\ kept \in [users : Accounts, member : Memberships]

BootEnds == phase = "boot" /\ phase' = "up" /\ Head(todo) = "modusers"

\* After every boot that runs to its end, every account there was when the last
\* committed halt began is back, with that password or a later one, and in its groups
\* but for those modusers leaves out: whatever is made, changed and synced meanwhile,
\* and wherever the machine crashed.
AccountsSurvive ==
  [][(BootEnds /\ ~stopped) =>
       /\ \A u \in DOMAIN kept.users :
            u \in DOMAIN users' /\ users'[u] >= kept.users[u]
       /\ kept.member \ Within \subseteq member']_vars

\* "TODO Validate that every user has their own group" (sbin/fsck 43): an account that
\* is there after a boot has its own group and is a member, also one that was made
\* while the files were written, and also after a crash between the two files.
WholeAccounts ==
  [][BootEnds => \A u \in DOMAIN users' :
                   u \in groups' /\ <<Main, u>> \in member' \union Within]_vars
=============================================================================
