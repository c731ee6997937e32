-------------------------- MODULE MembershipProofs --------------------------
(***************************************************************************)
(* Proofs about how members are made and kept.                             *)
(* Accounts: type correctness, that accounts are whole after a boot and    *)
(* that they survive, for any names, files and bounds.                     *)
(* Applications: for any number of applications, sessions and kills,       *)
(* accounts match the welcome mails and the log, no application is lost    *)
(* but by the final rewrite, and none is decided twice.                    *)
(***************************************************************************)
EXTENDS Accounts, Applications, SequenceTheorems, FiniteSetTheorems, TLAPS

(***************************************************************************)
(* Accounts                                                                *)
(***************************************************************************)

BootRests == {Boot, <<"creategroups", "createusers", "modusers">>,
              <<"createusers", "modusers">>, <<"modusers">>}
HaltRests == {Halt, <<"saveusers">>}
UpRests == HaltRests \union
  {<<>>, Sync, <<"createusers", "modusers", "savegroups", "saveusers">>,
   <<"modusers", "savegroups", "saveusers">>}

\* What init does in each phase.
Control ==
  /\ phase = "boot" => todo \in BootRests
  /\ phase = "up" => todo \in UpRests
  /\ phase = "halt" => todo \in HaltRests
  /\ phase = "halted" => todo = <<>>
  /\ buffer # <<>> => Running /\ (Doing("savegroups") \/ Doing("saveusers"))

Good == group # Bad /\ passwd # Bad
Checked == phase = "boot" /\ ~Doing("fsck")

Listed(g, u) == <<Main, u>> \in g.member \union Within
Sound(g, p) == (g # Bad /\ p # Bad) => \A u \in DOMAIN p \cap g.groups : Listed(g, u)

\* What the files say of each other, and of the accounts of the machine.
Lists ==
  /\ Sound(group, passwd) /\ Sound(repo.group, repo.passwd)
  /\ Checked => Good
  /\ passwd # Bad => \A u \in DOMAIN passwd \cap groups :
                       u \in DOMAIN users \/ (group # Bad /\ u \in group.groups)
  /\ (Good /\ (phase # "boot" \/ Doing("modusers"))) =>
       DOMAIN passwd \cap group.groups \subseteq DOMAIN users
  /\ (Checked /\ ~Doing("creategroups")) => group.groups \subseteq groups

\* Every account has its group and its membership, or gets it before the boot ends.
Live ==
  \A u \in DOMAIN users :
    /\ u \in groups
    /\ \/ <<Main, u>> \in member \union Within
       \/ phase = "boot" /\ Good /\ <<Main, u>> \in group.member

Partial(g) == g.groups \subseteq groups /\ \A u \in DOMAIN users \cap g.groups : Listed(g, u)

\* What was read is not newer than what is there.
Saving ==
  /\ (Doing("savegroups") /\ buffer # <<>>) => Partial(Head(buffer))
  /\ Doing("saveusers") => Running /\ group # Bad /\ Partial(group)
  /\ (Doing("saveusers") /\ buffer # <<>> /\ Head(buffer) # Bad) =>
       DOMAIN Head(buffer) \subseteq DOMAIN users

Inv == TypeOK /\ Control /\ Lists /\ Live /\ Saving
-----------------------------------------------------------------------------
(* Which task follows which. *)

AllRests == BootRests \union UpRests

\* The tail of each sequence of tasks is the sequence written after its first task.
LEMMA PlanTails ==
  /\ Tail(Boot) = <<"creategroups", "createusers", "modusers">>
  /\ Tail(<<"creategroups", "createusers", "modusers">>) = <<"createusers", "modusers">>
  /\ Tail(<<"createusers", "modusers">>) = <<"modusers">>
  /\ Tail(<<"modusers">>) = <<>>
  /\ Tail(Sync) = <<"createusers", "modusers", "savegroups", "saveusers">>
  /\ Tail(<<"createusers", "modusers", "savegroups", "saveusers">>)
       = <<"modusers", "savegroups", "saveusers">>
  /\ Tail(<<"modusers", "savegroups", "saveusers">>) = Halt
  /\ Tail(Halt) = <<"saveusers">>
  /\ Tail(<<"saveusers">>) = <<>>
<1>1. Tail(Boot) = <<"creategroups", "createusers", "modusers">>
  BY DEF Boot
<1>2. Tail(<<"creategroups", "createusers", "modusers">>) = <<"createusers", "modusers">>
  OBVIOUS
<1>3. Tail(<<"createusers", "modusers">>) = <<"modusers">>
  OBVIOUS
<1>4. Tail(<<"modusers">>) = <<>> /\ Tail(<<"saveusers">>) = <<>>
  OBVIOUS
<1>5. Tail(Sync) = <<"createusers", "modusers", "savegroups", "saveusers">>
  BY DEF Sync
<1>6. Tail(<<"createusers", "modusers", "savegroups", "saveusers">>)
        = <<"modusers", "savegroups", "saveusers">>
  OBVIOUS
<1>7. Tail(<<"modusers", "savegroups", "saveusers">>) = Halt
  BY DEF Halt
<1>8. Tail(Halt) = <<"saveusers">>
  BY DEF Halt
<1>9. QED
  BY <1>1, <1>2, <1>3, <1>4, <1>5, <1>6, <1>7, <1>8, Zenon

LEMMA PlanSeqs == AllRests \subseteq Seq(Tasks)
<1>1. ASSUME NEW S, NEW a \in S, NEW b \in S, NEW c \in S, NEW d \in S
      PROVE  /\ <<a>> \in Seq(S) /\ <<a, b>> \in Seq(S) /\ <<a, b, c>> \in Seq(S)
             /\ <<a, b, c, d>> \in Seq(S)
  OBVIOUS
<1>2. ASSUME NEW S, NEW a \in S, NEW b \in S, NEW c \in S, NEW d \in S, NEW e \in S
      PROVE  <<a, b, c, d, e>> \in Seq(S)
  OBVIOUS
<1>3. /\ "fsck" \in Tasks /\ "creategroups" \in Tasks /\ "createusers" \in Tasks
      /\ "modusers" \in Tasks /\ "savegroups" \in Tasks /\ "saveusers" \in Tasks
  BY DEF Tasks
<1>4. <<>> \in Seq(Tasks)
  OBVIOUS
<1>5. Boot \in Seq(Tasks)
  BY <1>1, <1>3, Zenon DEF Boot
<1>6. Halt \in Seq(Tasks)
  BY <1>1, <1>3, Zenon DEF Halt
<1>7. Sync \in Seq(Tasks)
  BY <1>2, <1>3, Zenon DEF Sync
<1>8. <<"creategroups", "createusers", "modusers">> \in Seq(Tasks)
  BY <1>1, <1>3, Zenon
<1>9. <<"createusers", "modusers">> \in Seq(Tasks) /\ <<"modusers">> \in Seq(Tasks)
  BY <1>1, <1>3, Zenon
<1>10. <<"createusers", "modusers", "savegroups", "saveusers">> \in Seq(Tasks)
  BY <1>1, <1>3, Zenon
<1>11. <<"modusers", "savegroups", "saveusers">> \in Seq(Tasks) /\ <<"saveusers">> \in Seq(Tasks)
  BY <1>1, <1>3, Zenon
<1>12. QED
  BY <1>4, <1>5, <1>6, <1>7, <1>8, <1>9, <1>10, <1>11, Zenon
     DEF AllRests, BootRests, UpRests, HaltRests

LEMMA PlanHeads ==
  /\ Head(Boot) = "fsck" /\ Head(Sync) = "creategroups" /\ Head(Halt) = "savegroups"
  /\ Boot # <<>> /\ Halt # <<>> /\ Sync # <<>>
  /\ \A x : Head(<<x>>) = x /\ <<x>> # <<>>
  /\ \A x, y : Head(<<x, y>>) = x /\ <<x, y>> # <<>>
  /\ \A x, y, z : Head(<<x, y, z>>) = x /\ <<x, y, z>> # <<>>
  /\ \A x, y, z, u : Head(<<x, y, z, u>>) = x /\ <<x, y, z, u>> # <<>>
BY DEF Boot, Sync, Halt

\* The task after each task, and the set the remaining tasks are in.
LEMMA BootTasks ==
  ASSUME NEW r \in BootRests
  PROVE  /\ r # <<>> /\ r \in AllRests /\ Tail(r) \in AllRests
         /\ Head(r) \in {"fsck", "creategroups", "createusers", "modusers"}
         /\ Head(r) = "fsck" =>
              Tail(r) \in BootRests /\ Head(Tail(r)) = "creategroups"
         /\ Head(r) = "creategroups" =>
              Tail(r) \in BootRests /\ Head(Tail(r)) = "createusers"
         /\ Head(r) = "createusers" =>
              Tail(r) \in BootRests /\ Head(Tail(r)) = "modusers"
         /\ Head(r) = "modusers" => Tail(r) = <<>>
<1>1. CASE r = Boot
  <2>1. Tail(r) \in BootRests /\ r # <<>> /\ r \in AllRests /\ Tail(r) \in AllRests
    BY <1>1, PlanTails, PlanHeads DEF BootRests, AllRests
  <2>2. Head(r) = "fsck" /\ Head(Tail(r)) = "creategroups"
    <3>1. Head(Boot) = "fsck" /\ Tail(Boot) = <<"creategroups", "createusers", "modusers">>
      BY PlanTails, PlanHeads, Zenon
    <3>2. Head(<<"creategroups", "createusers", "modusers">>) = "creategroups"
      OBVIOUS
    <3>3. QED
      BY <1>1, <3>1, <3>2, Zenon
  <2>3. QED
    BY <2>1, <2>2
<1>2. CASE r = <<"creategroups", "createusers", "modusers">>
  BY <1>2, PlanTails, PlanHeads DEF BootRests, AllRests
<1>3. CASE r = <<"createusers", "modusers">>
  BY <1>3, PlanTails, PlanHeads DEF BootRests, AllRests
<1>4. CASE r = <<"modusers">>
  BY <1>4, PlanTails, PlanHeads DEF BootRests, AllRests, UpRests
<1>5. \/ r = Boot \/ r = <<"creategroups", "createusers", "modusers">>
      \/ r = <<"createusers", "modusers">> \/ r = <<"modusers">>
  BY Zenon DEF BootRests
<1>6. QED
  BY <1>1, <1>2, <1>3, <1>4, <1>5, Zenon

LEMMA UpTasks ==
  ASSUME NEW r \in UpRests, r # <<>>
  PROVE  /\ Tail(r) \in UpRests
         /\ Head(r) \in {"creategroups", "createusers", "modusers", "savegroups", "saveusers"}
         /\ Head(r) = "creategroups" => Tail(r) # <<>> /\ Head(Tail(r)) = "createusers"
         /\ Head(r) = "createusers" => Tail(r) # <<>> /\ Head(Tail(r)) = "modusers"
         /\ Head(r) = "modusers" => Tail(r) # <<>> /\ Head(Tail(r)) = "savegroups"
         /\ Head(r) = "savegroups" => Tail(r) # <<>> /\ Head(Tail(r)) = "saveusers"
         /\ Head(r) = "saveusers" => Tail(r) = <<>>
<1>1. CASE r = Halt
  BY <1>1, PlanTails, PlanHeads DEF UpRests, HaltRests
<1>2. CASE r = <<"saveusers">>
  BY <1>2, PlanTails, PlanHeads DEF UpRests, HaltRests
<1>3. CASE r = Sync
  <2>1. Tail(r) \in UpRests
    BY <1>3, PlanTails DEF UpRests
  <2>2. Head(r) = "creategroups" /\ Tail(r) # <<>> /\ Head(Tail(r)) = "createusers"
    <3>1. /\ Head(Sync) = "creategroups"
          /\ Tail(Sync) = <<"createusers", "modusers", "savegroups", "saveusers">>
      BY PlanTails, PlanHeads, Zenon
    <3>2. /\ Head(<<"createusers", "modusers", "savegroups", "saveusers">>) = "createusers"
          /\ <<"createusers", "modusers", "savegroups", "saveusers">> # <<>>
      OBVIOUS
    <3>3. QED
      BY <1>3, <3>1, <3>2, Zenon
  <2>3. QED
    BY <2>1, <2>2
<1>4. CASE r = <<"createusers", "modusers", "savegroups", "saveusers">>
  BY <1>4, PlanTails, PlanHeads DEF UpRests, HaltRests
<1>5. CASE r = <<"modusers", "savegroups", "saveusers">>
  BY <1>5, PlanTails, PlanHeads DEF UpRests, HaltRests
<1>6. \/ r = Halt \/ r = <<"saveusers">> \/ r = Sync
      \/ r = <<"createusers", "modusers", "savegroups", "saveusers">>
      \/ r = <<"modusers", "savegroups", "saveusers">>
  BY Zenon DEF UpRests, HaltRests
<1>7. QED
  BY <1>1, <1>2, <1>3, <1>4, <1>5, <1>6, Zenon

LEMMA HaltTasks ==
  ASSUME NEW r \in HaltRests
  PROVE  /\ r \in UpRests /\ r # <<>>
         /\ Head(r) \in {"savegroups", "saveusers"}
         /\ Head(r) = "savegroups" => Tail(r) \in HaltRests
         /\ Head(r) = "saveusers" => Tail(r) = <<>>
<1>1. /\ Halt \in UpRests /\ <<"saveusers">> \in UpRests
      /\ Halt \in HaltRests /\ <<"saveusers">> \in HaltRests
  BY Zenon DEF UpRests, HaltRests
<1>2. CASE r = Halt
  BY <1>1, <1>2, PlanTails, PlanHeads
<1>3. CASE r = <<"saveusers">>
  BY <1>1, <1>3, PlanTails, PlanHeads
<1>4. QED
  BY <1>2, <1>3, Zenon DEF HaltRests

LEMMA Current ==
  ASSUME Control, phase \in {"boot", "up", "halt", "halted"}, todo # <<>>
  PROVE  /\ Head(todo) \in Tasks
         /\ Doing("fsck") => phase = "boot"
         /\ (Doing("creategroups") \/ Doing("createusers") \/ Doing("modusers"))
              => phase \in {"boot", "up"}
         /\ (Doing("savegroups") \/ Doing("saveusers")) => Running
BY BootTasks, UpTasks, HaltTasks DEF Control, Doing, Running, Tasks

LEMMA Following ==
  ASSUME Control, phase \in {"boot", "up", "halt", "halted"}, todo # <<>>, todo' = Tail(todo)
  PROVE  /\ Doing("fsck") => Doing("creategroups")'
         /\ Doing("creategroups") => Doing("createusers")'
         /\ Doing("createusers") => Doing("modusers")'
         /\ Doing("modusers") => IF phase = "boot" THEN todo' = <<>> ELSE Doing("savegroups")'
         /\ Doing("savegroups") => Doing("saveusers")'
         /\ Doing("saveusers") => todo' = <<>>
         /\ (phase = "boot" /\ ~Doing("modusers")) => todo' \in BootRests
         /\ phase = "up" => todo' \in UpRests
         /\ (phase = "halt" /\ ~Doing("saveusers")) => todo' \in HaltRests
<1>1. CASE phase = "boot"
  BY <1>1, BootTasks DEF Control, Doing
<1>2. CASE phase = "up"
  BY <1>2, UpTasks DEF Control, Doing
<1>3. CASE phase = "halt"
  BY <1>3, UpTasks, HaltTasks DEF Control, Doing
<1>4. CASE phase = "halted"
  BY <1>4 DEF Control
<1>5. QED
  BY <1>1, <1>2, <1>3, <1>4
-----------------------------------------------------------------------------
(* Type correctness *)

LEMMA AccountsAre ==
  /\ \A f \in Accounts : DOMAIN f \subseteq Names /\ f \in [DOMAIN f -> 0 .. MaxHash]
  /\ \A ns \in SUBSET Names : [ns -> 0 .. MaxHash] \subseteq Accounts
  /\ NoAccounts \in Accounts /\ DOMAIN NoAccounts = {}
<1>1. \A f \in Accounts : \E ns \in SUBSET Names : f \in [ns -> 0 .. MaxHash]
  BY DEF Accounts
<1>2. \A ns \in SUBSET Names : [ns -> 0 .. MaxHash] \subseteq Accounts
  BY DEF Accounts
<1>3. NoAccounts \in [{} -> 0 .. MaxHash] /\ DOMAIN NoAccounts = {}
  BY DEF NoAccounts
<1>4. QED
  BY <1>1, <1>2, <1>3

LEMMA InitInv == Init => Inv
<1> SUFFICES ASSUME Init PROVE Inv
  OBVIOUS
<1>1. PICK ns \in SUBSET Names : /\ passwd = [u \in ns |-> 0]
                                 /\ group = [groups |-> ns \union Shared, member |-> {Main} \X ns]
  BY DEF Init
<1>2. passwd \in Accounts
  <2>1. passwd \in [ns -> 0 .. MaxHash]
    BY <1>1, AccountsAssumption
  <2>2. QED
    BY <2>1, AccountsAre
<1>3. group \in Tables
  BY <1>1 DEF Tables, Memberships, Shared
<1>4. group # Bad /\ passwd # Bad
  BY <1>2, <1>3, BadAssumption
<1>5. Boot \in BootRests /\ Boot \in Seq(Tasks) /\ Head(Boot) = "fsck" /\ Boot # <<>>
  BY PlanSeqs, PlanHeads DEF BootRests, AllRests
<1>6. TypeOK
  <2>1. repo \in [group : Tables \union {Bad}, passwd : Accounts \union {Bad}]
    BY <1>2, <1>3 DEF Init
  <2>2. asked \in [users : Accounts, member : Memberships] /\ kept = asked
    BY <1>2, <1>3 DEF Init, Tables
  <2>3. /\ users \in Accounts /\ groups \subseteq Names \union Shared /\ member \in Memberships
        /\ halts \in 0 .. MaxHalts /\ crashes \in 0 .. MaxCrashes
    BY AccountsAre, AccountsAssumption DEF Init, Memberships
  <2>4. stopped \in BOOLEAN
    BY Zenon DEF Init
  <2>5. QED
    BY <1>2, <1>3, <1>5, <2>1, <2>2, <2>3, <2>4 DEF TypeOK, Init
<1>7. Control
  BY <1>5 DEF Init, Control
<1>8. Lists
  <2>1. Sound(group, passwd)
    BY <1>1 DEF Sound, Listed
  <2>2. Sound(repo.group, repo.passwd)
    BY <2>1 DEF Init
  <2>3. QED
    BY <1>4, <1>5, <2>1, <2>2 DEF Init, Lists, Checked, Good, Doing
<1>9. Live /\ Saving
  BY <1>5, AccountsAre DEF Init, Live, Saving, Doing
<1>10. QED
  BY <1>6, <1>7, <1>8, <1>9 DEF Inv

LEMMA ControlStep == Inv /\ [Next]_vars => Control'
<1> SUFFICES ASSUME Inv, [Next]_vars PROVE Control'
  OBVIOUS
<1> USE DEF Inv
<1>0. phase \in {"boot", "up", "halt", "halted"}
  BY DEF TypeOK
<1>1. ASSUME NEW u \in Names, Accept(u) \/ ChangePassword(u) \/ Enlist(u) PROVE Control'
  BY <1>1 DEF Accept, ChangePassword, Enlist, Control, Doing, Running, files, history
<1>2. CASE Fsck
  BY <1>0, <1>2, Current, Following, UpTasks
     DEF Fsck, Done, Control, Doing, Running, UpRests, system, files
<1>3. CASE CreateGroups
  BY <1>0, <1>3, Current, Following DEF CreateGroups, Done, Control, Doing, files, history
<1>4. CASE CreateUsers
  BY <1>0, <1>4, Current, Following DEF CreateUsers, Done, Control, Doing, files, history
<1>5. CASE ModUsers
  BY <1>0, <1>5, Current, Following DEF ModUsers, Done, Up, Control, Doing, UpRests, files, history
<1>6. CASE RenderGroups
  BY <1>0, <1>6, Current DEF RenderGroups, Control, Doing, Running, system, history
<1>7. CASE SaveGroups
  BY <1>0, <1>7, Current, Following DEF SaveGroups, Done, Control, Doing, Running, system, history
<1>8. CASE RenderUsers
  BY <1>0, <1>8, Current DEF RenderUsers, Control, Doing, Running, system, history
<1>9. CASE SaveUsers
  BY <1>0, <1>9, Current, Following
     DEF SaveUsers, Done, Control, Doing, Running, UpRests, system, history
<1>10. CASE StartHalt
  BY <1>10 DEF StartHalt, Control, Doing, Running, HaltRests, system, files
<1>11. CASE StartSync
  BY <1>11 DEF StartSync, Control, Doing, Running, UpRests, system, files, history
<1>12. CASE Deploy
  BY <1>12 DEF Deploy, Control, Doing, Running, BootRests, files
<1>13. CASE Crash
  BY <1>13 DEF Crash, Control, Doing, Running, BootRests, history
<1>14. CASE UNCHANGED vars
  BY <1>14 DEF vars, Control, Doing, Running
<1>15. QED
  BY <1>1, <1>2, <1>3, <1>4, <1>5, <1>6, <1>7, <1>8, <1>9, <1>10, <1>11, <1>12, <1>13, <1>14
     DEF Next, Task

LEMMA TypeStep == Inv /\ [Next]_vars => TypeOK'
<1> SUFFICES ASSUME TypeOK, Control, [Next]_vars PROVE TypeOK'
  BY DEF Inv
<1> USE AccountsAssumption DEF TypeOK
<1>0. /\ Tail(todo) \in Seq(Tasks) \/ todo = <<>>
      /\ <<>> \in Seq(Tasks)
  OBVIOUS
<1>1. ASSUME NEW u \in Names, Accept(u) PROVE TypeOK'
  <2>1. users' \in Accounts
    <3>1. DOMAIN users \union {u} \in SUBSET Names /\ users \in [DOMAIN users -> 0 .. MaxHash]
      BY AccountsAre
    <3>2. users' \in [DOMAIN users \union {u} -> 0 .. MaxHash]
      BY <1>1, <3>1 DEF Accept
    <3>3. QED
      BY <3>1, <3>2, AccountsAre
  <2>2. groups' \subseteq Names \union Shared /\ member' \in Memberships
    BY <1>1 DEF Accept, Memberships, Shared
  <2>3. QED
    BY <1>1, <2>1, <2>2 DEF Accept, files, history, Doing
<1>2. ASSUME NEW u \in Names, ChangePassword(u) PROVE TypeOK'
  <2>1. users' \in Accounts
    <3>1. DOMAIN users \in SUBSET Names /\ users \in [DOMAIN users -> 0 .. MaxHash]
      BY AccountsAre
    <3>2. users[u] + 1 \in 0 .. MaxHash
      BY <1>2, <3>1 DEF ChangePassword
    <3>3. users' \in [DOMAIN users -> 0 .. MaxHash]
      BY <1>2, <3>1, <3>2 DEF ChangePassword
    <3>4. QED
      BY <3>1, <3>3, AccountsAre
  <2>2. QED
    BY <1>2, <2>1 DEF ChangePassword, files, history, Doing
<1>3. ASSUME NEW u \in Names, Enlist(u) PROVE TypeOK'
  <2>1. member' \in Memberships
    BY <1>3 DEF Enlist, Memberships, Shared
  <2>2. QED
    BY <1>3, <2>1 DEF Enlist, files, history, Doing
<1>4. CASE Fsck
  <2>1. buffer = <<>> /\ buffer' = <<>>
    BY <1>4 DEF Fsck, Control, Doing
  <2>2. stopped' \in BOOLEAN
    BY <1>4, Zenon DEF Fsck
  <2>3. todo' \in Seq(Tasks) /\ phase' \in {"boot", "up", "halt", "halted"}
    BY <1>0, <1>4 DEF Fsck, Done, Doing
  <2>4. QED
    BY <1>4, <2>1, <2>2, <2>3 DEF Fsck, system, files
<1>5. CASE CreateGroups
  <2>1. groups' \subseteq Names \union Shared
    BY <1>5 DEF CreateGroups, Tables
  <2>2. buffer = <<>> /\ buffer' = <<>> /\ todo' \in Seq(Tasks)
    BY <1>0, <1>5 DEF CreateGroups, Done, Control, Doing
  <2>3. QED
    BY <1>5, <2>1, <2>2 DEF CreateGroups, files, history
<1>6. CASE CreateUsers
  <2>1. users' \in Accounts
    <3> DEFINE new == IF passwd = Bad THEN {} ELSE (DOMAIN passwd \ DOMAIN users) \cap groups
    <3>1. new \in SUBSET Names /\ \A u \in new : passwd[u] \in 0 .. MaxHash
      BY AccountsAre
    <3>2. users' = [u \in DOMAIN users \union new |-> IF u \in new THEN passwd[u] ELSE users[u]]
      BY <1>6 DEF CreateUsers
    <3> HIDE DEF new
    <3>3. [u \in DOMAIN users \union new |-> IF u \in new THEN passwd[u] ELSE users[u]] \in Accounts
      <4> DEFINE all == DOMAIN users \union new
      <4>1. users \in [DOMAIN users -> 0 .. MaxHash] /\ all \in SUBSET Names
        BY <3>1, AccountsAre
      <4>2. [u \in all |-> IF u \in new THEN passwd[u] ELSE users[u]] \in [all -> 0 .. MaxHash]
        BY <3>1, <4>1
      <4>3. QED
        BY <4>1, <4>2, AccountsAre
    <3>4. QED
      BY <3>2, <3>3
  <2>2. buffer = <<>> /\ buffer' = <<>> /\ todo' \in Seq(Tasks)
    BY <1>0, <1>6 DEF CreateUsers, Done, Control, Doing
  <2>3. QED
    BY <1>6, <2>1, <2>2 DEF CreateUsers, files, history
<1>7. CASE ModUsers
  <2>1. member' \in Memberships
    BY <1>7 DEF ModUsers, Tables, Memberships
  <2>2. /\ buffer = <<>> /\ buffer' = <<>> /\ todo' \in Seq(Tasks)
        /\ phase' \in {"boot", "up", "halt", "halted"}
    BY <1>0, <1>7 DEF ModUsers, Done, Up, Control, Doing
  <2>3. QED
    BY <1>7, <2>1, <2>2 DEF ModUsers, files, history
<1>8. CASE RenderGroups
  <2> DEFINE b == [groups |-> groups, member |-> member]
  <2>1. b \in Tables
    BY DEF Tables
  <2>2. buffer' = <<b>> /\ Head(buffer') = b /\ Doing("savegroups")'
    BY <1>8 DEF RenderGroups, Doing
  <2> HIDE DEF b
  <2>3. QED
    BY <1>8, <2>1, <2>2 DEF RenderGroups, system, history
<1>9. CASE SaveGroups
  <2>1. group' \in Tables /\ buffer' = <<>> /\ todo' \in Seq(Tasks)
    BY <1>0, <1>9 DEF SaveGroups, Done, Doing
  <2>2. QED
    BY <1>9, <2>1 DEF SaveGroups, system, history
<1>10. CASE RenderUsers
  <2> DEFINE b == IF Clash(DOMAIN users) THEN Bad ELSE users
  <2>1. b \in Accounts \union {Bad}
    OBVIOUS
  <2>2. buffer' = <<b>> /\ Head(buffer') = b /\ Doing("saveusers")' /\ ~Doing("savegroups")'
    BY <1>10 DEF RenderUsers, Doing
  <2> HIDE DEF b
  <2>3. QED
    BY <1>10, <2>1, <2>2 DEF RenderUsers, system, history
<1>11. CASE SaveUsers
  <2>1. /\ passwd' \in Accounts \union {Bad} /\ buffer' = <<>> /\ todo' \in Seq(Tasks)
        /\ phase' \in {"boot", "up", "halt", "halted"}
    BY <1>0, <1>11 DEF SaveUsers, Done, Doing
  <2>2. QED
    BY <1>11, <2>1 DEF SaveUsers, system, history
<1>12. CASE StartHalt
  <2>1. /\ todo' \in Seq(Tasks) /\ buffer = <<>> /\ buffer' = <<>>
        /\ asked' \in [users : Accounts, member : Memberships]
    BY <1>12, PlanSeqs DEF StartHalt, Control, Doing, AllRests, UpRests, HaltRests, system
  <2>2. QED
    BY <1>12, <2>1 DEF StartHalt, system, files
<1>13. CASE StartSync
  <2>1. todo' \in Seq(Tasks) /\ buffer = <<>> /\ buffer' = <<>>
    BY <1>13, PlanSeqs DEF StartSync, Control, Doing, AllRests, UpRests
  <2>2. QED
    BY <1>13, <2>1 DEF StartSync, system, files, history
<1>14. ASSUME \/ UNCHANGED system
              \/ users' = NoAccounts /\ groups' = {} /\ member' = {}
       PROVE  users' \in Accounts /\ groups' \subseteq Names \union Shared /\ member' \in Memberships
  BY <1>14, AccountsAre DEF system, Memberships
<1>15. CASE Deploy
  <2>1. todo' \in Seq(Tasks) /\ buffer = <<>> /\ buffer' = <<>>
    BY <1>15, PlanSeqs DEF Deploy, Control, Doing, AllRests, BootRests, Running
  <2>2. repo' \in [group : Tables \union {Bad}, passwd : Accounts \union {Bad}]
    BY <1>15 DEF Deploy
  <2>3. QED
    BY <1>14, <1>15, <2>1, <2>2 DEF Deploy, KeptOrNew, files
<1>16. CASE Crash
  <2>1. todo' \in Seq(Tasks) /\ buffer' = <<>>
    BY <1>16, PlanSeqs DEF Crash, AllRests, BootRests
  <2>2. users' \in Accounts /\ groups' \subseteq Names \union Shared /\ member' \in Memberships
    BY <1>14, <1>16 DEF Crash, KeptOrNew
  <2>3. group' \in Tables \union {Bad} /\ passwd' \in Accounts \union {Bad}
    BY <1>16 DEF Crash, files
  <2>4. QED
    BY <1>16, <2>1, <2>2, <2>3 DEF Crash, history
<1>17. CASE UNCHANGED vars
  BY <1>17 DEF vars, system, files, history, Doing
<1>18. QED
  BY <1>1, <1>2, <1>3, <1>4, <1>5, <1>6, <1>7, <1>8, <1>9, <1>10, <1>11, <1>12, <1>13,
     <1>15, <1>16, <1>17 DEF Next, Task
-----------------------------------------------------------------------------
(* The files and the accounts of the machine *)

\* Who is there after each step: accounts are only lost with the machine.
LEMMA UsersStep ==
  ASSUME Inv, [Next]_vars
  PROVE  \/ DOMAIN users \subseteq DOMAIN users' /\ groups \subseteq groups' /\ member \subseteq member'
         \/ /\ DOMAIN users' = {} /\ groups' = {} /\ member' = {}
            /\ phase' = "boot" /\ todo' = Boot
<1>1. ASSUME NEW u \in Names, Accept(u) \/ ChangePassword(u) \/ Enlist(u)
      PROVE  DOMAIN users \subseteq DOMAIN users' /\ groups \subseteq groups' /\ member \subseteq member'
  BY <1>1 DEF Accept, ChangePassword, Enlist
<1>2. CASE CreateUsers
  BY <1>2 DEF CreateUsers
<1>3. CASE CreateGroups \/ ModUsers
  BY <1>3 DEF CreateGroups, ModUsers
<1>4. CASE Fsck \/ RenderGroups \/ SaveGroups \/ RenderUsers \/ SaveUsers \/ StartHalt \/ StartSync
  BY <1>4 DEF Fsck, RenderGroups, SaveGroups, RenderUsers, SaveUsers, StartHalt, StartSync, system
<1>5. CASE Deploy \/ Crash
  BY <1>5, AccountsAre DEF Deploy, Crash, KeptOrNew, system
<1>6. CASE UNCHANGED vars
  BY <1>6 DEF vars, system
<1>7. QED
  BY <1>1, <1>2, <1>3, <1>4, <1>5, <1>6 DEF Next, Task

LEMMA NotBad == \A x \in Accounts \union Tables : x # Bad
BY BadAssumption

\* createusers makes no account on a machine that is up.
LEMMA NothingNew ==
  ASSUME Inv, CreateUsers, phase # "boot"
  PROVE  DOMAIN users' = DOMAIN users
BY DEF Inv, CreateUsers, Lists, Good

LEMMA ListsStep == Inv /\ [Next]_vars => Lists'
<1> SUFFICES ASSUME Inv, [Next]_vars PROVE Lists'
  OBVIOUS
<1> USE DEF Inv
<1>0. phase \in {"boot", "up", "halt", "halted"}
  BY DEF TypeOK
<1>1. ASSUME NEW u \in Names, Accept(u) PROVE Lists'
  <2>1. /\ UNCHANGED <<group, passwd, repo, todo, phase>> /\ phase # "boot"
        /\ DOMAIN users' = DOMAIN users \union {u} /\ groups' = groups \union {u}
    BY <1>1 DEF Accept, files, Running
  <2>2. QED
    BY <2>1 DEF Lists, Sound, Listed, Checked, Good, Doing
<1>2. ASSUME NEW u \in Names, ChangePassword(u) \/ Enlist(u) PROVE Lists'
  <2>1. /\ UNCHANGED <<group, passwd, repo, todo, phase>> /\ phase # "boot"
        /\ DOMAIN users' = DOMAIN users /\ groups' = groups
    BY <1>2 DEF ChangePassword, Enlist, files, Running
  <2>2. QED
    BY <2>1 DEF Lists, Sound, Listed, Checked, Good, Doing
<1>3. CASE Fsck
  BY <1>0, <1>3, Current, Following
     DEF Fsck, Done, Lists, Sound, Listed, Checked, Good, Doing, system, files
<1>4. CASE CreateGroups
  BY <1>0, <1>4, Current, Following
     DEF CreateGroups, Done, Lists, Sound, Listed, Checked, Good, Doing, files
<1>5. CASE CreateUsers
  <2>1. /\ UNCHANGED <<group, passwd, repo, phase, groups>> /\ Doing("modusers")'
    BY <1>0, <1>5, Following DEF CreateUsers, Done, Doing, files
  <2>2. CASE phase = "boot"
    <3>1. Good /\ group.groups \subseteq groups
      BY <1>5, <2>2 DEF CreateUsers, Lists, Checked, Doing
    <3>2. DOMAIN users' = DOMAIN users \union ((DOMAIN passwd \ DOMAIN users) \cap groups)
      BY <1>5, <3>1 DEF CreateUsers, Good
    <3>3. QED
      BY <2>1, <3>1, <3>2 DEF Lists, Sound, Listed, Checked, Good, Doing
  <2>3. CASE phase # "boot"
    BY <1>5, <2>1, <2>3, NothingNew DEF Lists, Sound, Listed, Checked, Good, Doing
  <2>4. QED
    BY <2>2, <2>3
<1>6. CASE ModUsers
  <2>1. UNCHANGED <<group, passwd, repo, users, groups>> /\ phase' # "boot" /\ Doing("modusers")
    BY <1>6 DEF ModUsers, Up, files
  <2>2. QED
    BY <2>1 DEF Lists, Sound, Listed, Checked, Good, Doing
<1>7. CASE RenderGroups
  <2>1. /\ UNCHANGED <<passwd, repo, users, groups, phase, todo>> /\ phase # "boot" /\ group' = Bad
    BY <1>0, <1>7, Current DEF RenderGroups, system, Running, Doing
  <2>2. QED
    BY <2>1 DEF Lists, Sound, Listed, Checked, Good, Doing
<1>8. CASE SaveGroups
  <2>1. /\ UNCHANGED <<passwd, repo, users, groups, phase>> /\ phase # "boot"
        /\ group' = Head(buffer) /\ Partial(Head(buffer))
    BY <1>0, <1>8, Current DEF SaveGroups, system, Running, Doing, Saving
  <2>2. passwd # Bad => DOMAIN passwd \cap groups \subseteq DOMAIN users
    BY <2>1 DEF Lists, Good
  <2>3. QED
    BY <2>1, <2>2 DEF Lists, Sound, Listed, Checked, Good, Doing, Partial
<1>9. CASE RenderUsers
  <2>1. /\ UNCHANGED <<group, repo, users, groups, phase, todo>> /\ phase # "boot" /\ passwd' = Bad
    BY <1>0, <1>9, Current DEF RenderUsers, system, Running, Doing
  <2>2. QED
    BY <2>1 DEF Lists, Sound, Listed, Checked, Good, Doing
<1>10. CASE SaveUsers
  <2>1. /\ UNCHANGED <<group, repo, users, groups>> /\ phase' # "boot" /\ passwd' = Head(buffer)
        /\ Partial(group) /\ (passwd' # Bad => DOMAIN passwd' \subseteq DOMAIN users)
    BY <1>0, <1>10, Current DEF SaveUsers, system, Running, Doing, Saving
  <2>2. QED
    BY <2>1 DEF Lists, Sound, Listed, Checked, Good, Doing, Partial
<1>11. CASE StartHalt \/ StartSync
  <2>1. UNCHANGED <<group, passwd, repo, users, groups>> /\ phase # "boot" /\ phase' # "boot"
    BY <1>11 DEF StartHalt, StartSync, system, files
  <2>2. QED
    BY <2>1 DEF Lists, Sound, Listed, Checked, Good, Doing
<1>12. CASE Deploy
  <2>1. /\ UNCHANGED <<group, passwd>> /\ Doing("fsck")' /\ repo'.group = group /\ repo'.passwd = passwd
        /\ phase # "boot" /\ phase' = "boot"
    BY <1>12, PlanHeads DEF Deploy, Doing, files
  <2>2. groups' = {} \/ (groups' = groups /\ users' = users)
    BY <1>12 DEF Deploy, KeptOrNew, system
  <2>3. QED
    BY <2>1, <2>2 DEF Lists, Sound, Listed, Checked, Good, Doing
<1>13. CASE Crash
  <2>1. Doing("fsck")' /\ repo' = repo /\ phase' = "boot"
    BY <1>13, PlanHeads DEF Crash, Doing
  <2>2. CASE group' = repo.group /\ passwd' = repo.passwd /\ groups' = {}
    BY <2>1, <2>2 DEF Lists, Sound, Listed, Checked, Good, Doing
  <2>3. CASE UNCHANGED <<group, passwd>> /\ (groups' = {} \/ (groups' = groups /\ users' = users))
    BY <2>1, <2>3 DEF Lists, Sound, Listed, Checked, Good, Doing
  <2>4. QED
    BY <1>13, <2>2, <2>3 DEF Crash, KeptOrNew, system, files
<1>14. CASE UNCHANGED vars
  BY <1>14 DEF vars, system, files, Lists, Sound, Listed, Checked, Good, Doing
<1>15. QED
  BY <1>1, <1>2, <1>3, <1>4, <1>5, <1>6, <1>7, <1>8, <1>9, <1>10, <1>11, <1>12, <1>13, <1>14
     DEF Next, Task

LEMMA LiveStep == Inv /\ [Next]_vars => Live'
<1> SUFFICES ASSUME Inv, [Next]_vars PROVE Live'
  OBVIOUS
<1> USE DEF Inv
<1>0. phase \in {"boot", "up", "halt", "halted"}
  BY DEF TypeOK
<1>1. ASSUME NEW u \in Names, Accept(u) PROVE Live'
  BY <1>1 DEF Accept, Live, Running
<1>2. ASSUME NEW u \in Names, ChangePassword(u) \/ Enlist(u) PROVE Live'
  BY <1>2 DEF ChangePassword, Enlist, Live, Running
<1>3. CASE Fsck
  BY <1>0, <1>3, Current DEF Fsck, Live, Good, system, files
<1>4. CASE CreateGroups
  BY <1>4 DEF CreateGroups, Live, Good, files
<1>5. CASE CreateUsers
  <2>1. UNCHANGED <<group, passwd, phase, groups, member>>
    BY <1>5 DEF CreateUsers, files
  <2>2. CASE phase = "boot"
    <3>1. Good /\ group.groups \subseteq groups
      BY <1>5, <2>2 DEF CreateUsers, Lists, Checked, Doing
    <3>2. DOMAIN users' = DOMAIN users \union ((DOMAIN passwd \ DOMAIN users) \cap groups)
      BY <1>5, <3>1 DEF CreateUsers, Good
    <3>3. \A u \in (DOMAIN passwd \ DOMAIN users) \cap groups : Listed(group, u)
      BY <3>1 DEF Lists, Sound, Good
    <3>4. QED
      BY <2>1, <2>2, <3>1, <3>2, <3>3 DEF Live, Good, Listed
  <2>3. CASE phase # "boot"
    BY <1>5, <2>1, <2>3, NothingNew DEF Live, Good
  <2>4. QED
    BY <2>2, <2>3
<1>6. CASE ModUsers
  <2>1. UNCHANGED <<users, groups>> /\ member \subseteq member'
    BY <1>6 DEF ModUsers
  <2>2. ASSUME NEW u \in DOMAIN users PROVE <<Main, u>> \in member' \union Within
    <3>1. CASE <<Main, u>> \in member \union Within
      BY <2>1, <3>1
    <3>2. CASE Good /\ <<Main, u>> \in group.member
      BY <1>6, <3>2 DEF ModUsers, Good
    <3>3. QED
      BY <3>1, <3>2 DEF Live
  <2>3. QED
    BY <2>1, <2>2 DEF Live
<1>7. CASE RenderGroups \/ SaveGroups \/ RenderUsers \/ SaveUsers
  <2>1. UNCHANGED <<users, groups, member>> /\ phase # "boot"
    BY <1>0, <1>7, Current
       DEF RenderGroups, SaveGroups, RenderUsers, SaveUsers, system, Running, Doing
  <2>2. QED
    BY <2>1 DEF Live
<1>8. CASE StartHalt \/ StartSync
  BY <1>8 DEF StartHalt, StartSync, system, Live
<1>9. CASE Deploy
  BY <1>9, AccountsAre DEF Deploy, KeptOrNew, system, Live
<1>10. CASE Crash
  <2>1. CASE users' = NoAccounts
    BY <2>1, AccountsAre DEF Live
  <2>2. CASE UNCHANGED <<users, groups, member, group, passwd>> /\ phase' = "boot"
    BY <2>2 DEF Live, Good
  <2>3. QED
    BY <1>10, <2>1, <2>2 DEF Crash, KeptOrNew, system, files
<1>11. CASE UNCHANGED vars
  BY <1>11 DEF vars, system, files, Live, Good
<1>12. QED
  BY <1>1, <1>2, <1>3, <1>4, <1>5, <1>6, <1>7, <1>8, <1>9, <1>10, <1>11 DEF Next, Task

LEMMA SavingStep == Inv /\ [Next]_vars => Saving'
<1> SUFFICES ASSUME Inv, [Next]_vars PROVE Saving'
  OBVIOUS
<1> USE DEF Inv
<1>0. phase \in {"boot", "up", "halt", "halted"}
  BY DEF TypeOK
<1>1. ASSUME NEW u \in Names, Accept(u) PROVE Saving'
  <2>1. /\ UNCHANGED <<group, buffer, todo, phase>> /\ u \notin groups /\ member \subseteq member'
        /\ DOMAIN users' = DOMAIN users \union {u} /\ groups' = groups \union {u}
    BY <1>1 DEF Accept, files, Running
  <2>2. \A g : Partial(g) => Partial(g)'
    BY <2>1 DEF Partial, Listed
  <2>3. QED
    BY <2>1, <2>2 DEF Saving, Doing, Running, Partial, Listed
<1>2. ASSUME NEW u \in Names, ChangePassword(u) \/ Enlist(u) PROVE Saving'
  <2>1. /\ UNCHANGED <<group, buffer, todo, phase, groups>>
        /\ DOMAIN users' = DOMAIN users
    BY <1>2 DEF ChangePassword, Enlist, files, Running
  <2>2. QED
    BY <2>1 DEF Saving, Doing, Running, Partial, Listed
<1>3. CASE Fsck \/ CreateGroups \/ CreateUsers \/ ModUsers \/ Deploy \/ Crash \/ StartHalt \/ StartSync
  <2>1. buffer' = <<>>
    BY <1>0, <1>3
       DEF Fsck, CreateGroups, CreateUsers, ModUsers, Deploy, Crash, StartHalt, StartSync, Control,
           Doing, Running
  <2>2. ~Doing("saveusers")'
    BY <1>0, <1>3, Following, PlanHeads
       DEF Fsck, CreateGroups, CreateUsers, ModUsers, Deploy, Crash, StartHalt, StartSync, Done, Doing
  <2>3. QED
    BY <2>1, <2>2 DEF Saving
<1>4. CASE RenderGroups
  <2> DEFINE b == [groups |-> groups, member |-> member]
  <2>1. /\ buffer' = <<b>> /\ Head(buffer') = b /\ ~Doing("saveusers")'
        /\ UNCHANGED <<users, groups>> /\ phase # "boot"
    BY <1>0, <1>4, Current DEF RenderGroups, Doing, system, Running
  <2>2. b.groups = groups /\ b.member = member
    OBVIOUS
  <2> HIDE DEF b
  <2>3. QED
    BY <2>1, <2>2 DEF Saving, Partial, Listed, Live
<1>5. CASE SaveGroups
  <2>1. /\ group' = Head(buffer) /\ group' # Bad /\ Partial(group') /\ UNCHANGED <<users, groups, phase>>
        /\ buffer' = <<>> /\ Running
    BY <1>0, <1>5, Current, NotBad DEF SaveGroups, Saving, TypeOK, system, Doing
  <2>2. QED
    BY <2>1 DEF Saving, Partial, Listed, Running
<1>6. CASE RenderUsers
  <2> DEFINE b == IF Clash(DOMAIN users) THEN Bad ELSE users
  <2>1. /\ buffer' = <<b>> /\ Head(buffer') = b /\ Doing("saveusers")' /\ ~Doing("savegroups")'
        /\ UNCHANGED <<users, groups, group, phase>>
    BY <1>6 DEF RenderUsers, Doing, system
  <2>2. b # Bad => b = users
    OBVIOUS
  <2> HIDE DEF b
  <2>3. Running /\ group # Bad /\ Partial(group)
    BY <1>6 DEF RenderUsers, Saving
  <2>4. QED
    BY <2>1, <2>2, <2>3 DEF Saving, Partial, Listed, Running
<1>7. CASE SaveUsers
  <2>1. buffer' = <<>> /\ ~Doing("saveusers")'
    BY <1>0, <1>7, Following DEF SaveUsers, Done, Doing
  <2>2. QED
    BY <2>1 DEF Saving
<1>8. CASE UNCHANGED vars
  BY <1>8 DEF vars, system, files, Saving, Doing, Running, Partial, Listed
<1>9. QED
  BY <1>1, <1>2, <1>3, <1>4, <1>5, <1>6, <1>7, <1>8 DEF Next, Task

LEMMA InvStep == Inv /\ [Next]_vars => Inv'
BY ControlStep, TypeStep, ListsStep, LiveStep, SavingStep, Zenon DEF Inv

LEMMA Invariant == Spec => []Inv
<1>1. QED
  BY InitInv, InvStep, PTL DEF Spec

\* Accounts, lists, passwords and tasks keep their types; what is rendered into a
\* temporary file fits the file it is for.
THEOREM TypeCorrect == Spec => []TypeOK
<1>1. Inv => TypeOK
  BY DEF Inv
<1>2. QED
  BY <1>1, Invariant, PTL

\* "TODO Validate that every user has their own group" (sbin/fsck 43): every account
\* that is there when a boot ends has its own group and its membership, wherever the
\* machine crashed before, and although accounts are made between the two files.
THEOREM WholeAccountsHolds == Spec => WholeAccounts
<1>1. Inv /\ Inv' /\ [Next]_vars =>
        (BootEnds => \A u \in DOMAIN users' :
                       u \in groups' /\ <<Main, u>> \in member' \union Within)
  BY DEF Inv, Live, BootEnds
<1>2. QED
  BY <1>1, Invariant, PTL DEF Spec, WholeAccounts
-----------------------------------------------------------------------------
(* Survival.  The accounts of a halt are in the files once these are       *)
(* written, or nothing can be read from them; and on the machine, but for  *)
(* a new one before the boot ends.                                         *)

HasUsers(p, k) == \A u \in DOMAIN k.users : u \in DOMAIN p /\ p[u] >= k.users[u]
HasGroups(g, k) == DOMAIN k.users \subseteq g.groups /\ k.member \ Within \subseteq g.member
Has(k) == HasUsers(users, k) /\ DOMAIN k.users \subseteq groups /\ k.member \ Within \subseteq member
Rooted(m, us) == \A x \in m : x[2] \in DOMAIN us

KeptAccounts(k) ==
  /\ passwd # Bad => HasUsers(passwd, k)
  /\ group # Bad => HasGroups(group, k)
  /\ phase # "boot" => Has(k)
  /\ (Doing("savegroups") /\ buffer # <<>>) => HasGroups(Head(buffer), k)
  /\ (Doing("saveusers") /\ buffer # <<>> /\ Head(buffer) # Bad) => HasUsers(Head(buffer), k)

Roots ==
  /\ Rooted(member, users) /\ Rooted(asked.member, asked.users)
  /\ Rooted(kept.member, kept.users)

Lasting ==
  /\ KeptAccounts(kept)
  /\ repo.passwd # Bad => HasUsers(repo.passwd, kept)
  /\ repo.group # Bad => HasGroups(repo.group, kept)
  /\ \A u \in DOMAIN kept.users \cap DOMAIN users : users[u] >= kept.users[u]
  /\ (phase = "boot" /\ Doing("modusers")) => DOMAIN kept.users \subseteq DOMAIN users
  /\ phase \in {"halt", "halted"} => Has(asked)
  /\ phase = "halt" =>
       /\ (Doing("savegroups") /\ buffer # <<>>) => HasGroups(Head(buffer), asked)
       /\ Doing("saveusers") => HasGroups(group, asked)
       /\ (Doing("saveusers") /\ buffer # <<>> /\ Head(buffer) # Bad) =>
             HasUsers(Head(buffer), asked)
  /\ phase = "halted" =>
       /\ passwd # Bad => HasUsers(passwd, asked)
       /\ group # Bad /\ HasGroups(group, asked)

Survival == Roots /\ (~stopped => Lasting)

Snapshots == [users : Accounts, member : Memberships]

\* What every step that is not a new machine does to the accounts.
Grows ==
  /\ \A u \in DOMAIN users : u \in DOMAIN users' /\ users'[u] >= users[u]
  /\ groups \subseteq groups' /\ member \subseteq member'

LEMMA Numbers == \A f \in Accounts : \A u : u \in DOMAIN f => f[u] \in Nat
BY AccountsAre, AccountsAssumption

LEMMA HasGrows ==
  ASSUME TypeOK, TypeOK', Grows, NEW k \in Snapshots, Has(k)
  PROVE  HasUsers(users', k) /\ DOMAIN k.users \subseteq groups' /\ k.member \ Within \subseteq member'
<1>1. /\ \A u \in DOMAIN users : users[u] \in Nat
      /\ \A u \in DOMAIN users' : users'[u] \in Nat
      /\ \A u \in DOMAIN k.users : k.users[u] \in Nat
  BY Numbers DEF TypeOK, Snapshots
<1>2. ASSUME NEW u \in DOMAIN k.users PROVE u \in DOMAIN users' /\ users'[u] >= k.users[u]
  <2>1. u \in DOMAIN users /\ users[u] >= k.users[u] /\ u \in DOMAIN users' /\ users'[u] >= users[u]
    BY DEF Has, HasUsers, Grows
  <2>2. users[u] \in Nat /\ users'[u] \in Nat /\ k.users[u] \in Nat
    BY <1>1, <2>1
  <2>3. QED
    BY <2>1, <2>2
<1>3. QED
  BY <1>2 DEF HasUsers, Has, Grows

LEMMA InitSurvival == Init => Survival
<1> SUFFICES ASSUME Init PROVE Survival
  OBVIOUS
<1>1. PICK ns \in SUBSET Names : /\ passwd = [u \in ns |-> 0]
                                 /\ group = [groups |-> ns \union Shared, member |-> {Main} \X ns]
  BY DEF Init
<1>2. asked.users = passwd /\ asked.member = group.member /\ kept = asked
  BY DEF Init
<1>3. DOMAIN users = {} /\ member = {}
  BY AccountsAre DEF Init
<1>4. HasUsers(passwd, kept) /\ HasGroups(group, kept)
  BY <1>1, <1>2 DEF HasUsers, HasGroups
<1>5. Rooted(asked.member, asked.users)
  BY <1>1, <1>2 DEF Rooted
<1>6. phase = "boot" /\ Head(todo) = "fsck" /\ repo.passwd = passwd /\ repo.group = group
  BY PlanHeads DEF Init
<1>7. QED
  BY <1>2, <1>3, <1>4, <1>5, <1>6 DEF Survival, Roots, Lasting, Rooted, KeptAccounts, Doing

LEMMA RootsStep == Inv /\ Roots /\ [Next]_vars => Roots'
<1> SUFFICES ASSUME Inv, Roots, [Next]_vars PROVE Roots'
  OBVIOUS
<1> USE DEF Roots, Rooted
<1>1. ASSUME NEW u \in Names, Accept(u) \/ ChangePassword(u) \/ Enlist(u)
      PROVE  Rooted(member', users') /\ UNCHANGED <<asked, kept>>
  BY <1>1 DEF Accept, ChangePassword, Enlist, history
<1>2. CASE CreateUsers \/ ModUsers \/ CreateGroups
  BY <1>2 DEF CreateUsers, ModUsers, CreateGroups, history
<1>3. CASE Fsck \/ RenderGroups \/ SaveGroups \/ RenderUsers \/ SaveUsers \/ StartSync
  BY <1>3 DEF Fsck, RenderGroups, SaveGroups, RenderUsers, SaveUsers, StartSync, system, history
<1>4. CASE StartHalt
  BY <1>4 DEF StartHalt, system
<1>5. CASE Deploy \/ Crash
  BY <1>5 DEF Deploy, Crash, KeptOrNew, system, history
<1>6. CASE UNCHANGED vars
  BY <1>6 DEF vars, system, history
<1>7. QED
  BY <1>1, <1>2, <1>3, <1>4, <1>5, <1>6 DEF Next, Task

\* A step of members, while the files stay as they are.
LEMMA MembersLast ==
  ASSUME Inv, TypeOK', Lasting, Running, Grows,
         UNCHANGED <<todo, buffer, files, repo, phase, history>>
  PROVE  Lasting'
<1>1. kept \in Snapshots /\ asked \in Snapshots
  BY DEF Inv, TypeOK, Snapshots
<1>2. Has(kept)'
  BY <1>1, HasGrows DEF Lasting, KeptAccounts, Running, Inv, Has, HasUsers, history
<1>3. phase = "halt" => Has(asked)'
  BY <1>1, HasGrows DEF Lasting, Inv, Has, HasUsers, history
<1>4. \A u \in DOMAIN kept'.users \cap DOMAIN users' : users'[u] >= kept'.users[u]
  BY <1>2 DEF Has, HasUsers
<1>5. phase # "boot" /\ phase # "halted"
  BY DEF Running
<1>6. QED
  BY <1>2, <1>3, <1>4, <1>5 DEF Lasting, KeptAccounts, Doing, files, history

\* createusers and modusers bring back what was kept.
LEMMA CreateUsersLast ==
  ASSUME Inv, TypeOK', Lasting, CreateUsers
  PROVE  Lasting'
<1>1. /\ UNCHANGED <<buffer, groups, member, group, passwd, repo, phase, asked, kept>>
      /\ Doing("modusers")' /\ buffer = <<>> /\ phase \in {"boot", "up"}
  BY Current, Following DEF CreateUsers, Done, files, history, Inv, TypeOK, Control, Doing
<1>2. CASE phase = "boot"
  <2>1. Good /\ group.groups \subseteq groups
    BY <1>2 DEF Inv, CreateUsers, Lists, Checked, Doing
  <2>2. HasUsers(passwd, kept) /\ HasGroups(group, kept)
    BY <2>1 DEF Lasting, KeptAccounts, Good
  <2> DEFINE new == (DOMAIN passwd \ DOMAIN users) \cap groups
  <2>3. users' = [u \in DOMAIN users \union new |-> IF u \in new THEN passwd[u] ELSE users[u]]
    BY <2>1 DEF CreateUsers, Good
  <2>4. DOMAIN kept.users \subseteq DOMAIN users \union new
    BY <2>1, <2>2 DEF HasUsers, HasGroups
  <2>5. \A u \in DOMAIN kept.users : u \in DOMAIN users' /\ users'[u] >= kept.users[u]
    BY <2>2, <2>3, <2>4 DEF HasUsers, Lasting
  <2>6. QED
    BY <1>1, <1>2, <2>1, <2>2, <2>5 DEF Lasting, KeptAccounts, Doing
<1>3. CASE phase = "up"
  <2>1. Grows
    <3>1. \A u \in DOMAIN users : users[u] \in Nat
      BY Numbers DEF Inv, TypeOK
    <3>2. \A u \in DOMAIN users : u \in DOMAIN users' /\ users'[u] = users[u]
      BY DEF CreateUsers
    <3>3. QED
      BY <1>1, <3>1, <3>2 DEF Grows
  <2>2. kept \in Snapshots
    BY DEF Inv, TypeOK, Snapshots
  <2>3. Has(kept)'
    BY <1>1, <1>3, <2>1, <2>2, HasGrows DEF Lasting, KeptAccounts, Inv, Has, HasUsers
  <2>4. QED
    BY <1>1, <1>3, <2>3 DEF Lasting, KeptAccounts, Doing, Has, HasUsers
<1>4. QED
  BY <1>1, <1>2, <1>3

LEMMA ModUsersLast ==
  ASSUME Inv, Survival, Lasting, ModUsers
  PROVE  Lasting'
<1>1. /\ UNCHANGED <<buffer, users, groups, group, passwd, repo, asked, kept>>
      /\ ~Doing("saveusers")' /\ buffer = <<>> /\ phase \in {"boot", "up"} /\ phase' = "up"
      /\ member \subseteq member'
  BY Current, Following DEF ModUsers, Done, Up, files, history, Inv, TypeOK, Control, Doing
<1>2. CASE phase = "boot"
  <2>1. Good /\ group.groups \subseteq groups
    BY <1>2 DEF Inv, ModUsers, Lists, Checked, Doing
  <2>2. HasUsers(passwd, kept) /\ HasGroups(group, kept) /\ DOMAIN kept.users \subseteq DOMAIN users
    BY <1>2, <2>1 DEF Lasting, KeptAccounts, Good, ModUsers
  <2>3. HasUsers(users', kept)
    BY <1>1, <2>2 DEF HasUsers, Lasting
  <2>4. ASSUME NEW m \in kept.member \ Within PROVE m \in member'
    <3>1. m \in group.member /\ m[2] \in DOMAIN users
      BY <2>2 DEF HasGroups, Survival, Roots, Rooted
    <3>2. QED
      BY <2>1, <3>1 DEF ModUsers, Good
  <2>5. Has(kept)'
    BY <1>1, <2>1, <2>2, <2>3, <2>4 DEF Has, HasGroups
  <2>6. QED
    BY <1>1, <2>1, <2>2, <2>5 DEF Lasting, KeptAccounts, Doing, Has, HasUsers
<1>3. CASE phase = "up"
  <2>1. Has(kept)'
    BY <1>1, <1>3 DEF Lasting, KeptAccounts, Has
  <2>2. QED
    BY <1>1, <1>3, <2>1 DEF Lasting, KeptAccounts, Doing, Has, HasUsers
<1>4. QED
  BY <1>1, <1>2, <1>3

LEMMA SavesLast ==
  ASSUME Inv, Lasting, RenderGroups \/ SaveGroups \/ RenderUsers \/ SaveUsers
  PROVE  Lasting'
<1>0. /\ Running /\ UNCHANGED <<users, groups, member, repo, asked, kept>>
      /\ Has(kept) /\ (phase = "halt" => Has(asked))
      /\ phase \in {"up", "halt"} /\ phase # "boot"
  BY Current DEF RenderGroups, SaveGroups, RenderUsers, SaveUsers, system, history, Doing, Inv,
                 TypeOK, Running, Lasting, KeptAccounts
<1>1. CASE RenderGroups
  <2> DEFINE b == [groups |-> groups, member |-> member]
  <2>1. /\ buffer' = <<b>> /\ Head(buffer') = b /\ Doing("savegroups")' /\ ~Doing("saveusers")'
        /\ UNCHANGED <<passwd, phase>> /\ group' = Bad
    BY <1>1 DEF RenderGroups, Doing, system
  <2>2. \A k : Has(k) => HasGroups(b, k)
    BY DEF Has, HasGroups
  <2> HIDE DEF b
  <2>3. QED
    BY <1>0, <2>1, <2>2 DEF Lasting, KeptAccounts, Has
<1>2. CASE SaveGroups
  <2>1. /\ UNCHANGED <<passwd, phase>> /\ buffer' = <<>> /\ group' = Head(buffer)
        /\ HasGroups(group', kept) /\ (phase = "halt" => HasGroups(group', asked))
    BY <1>2 DEF SaveGroups, Doing, system, Lasting, KeptAccounts
  <2>2. QED
    BY <1>0, <2>1 DEF Lasting, KeptAccounts, Has
<1>3. CASE RenderUsers
  <2> DEFINE b == IF Clash(DOMAIN users) THEN Bad ELSE users
  <2>1. /\ buffer' = <<b>> /\ Head(buffer') = b /\ Doing("saveusers")' /\ ~Doing("savegroups")'
        /\ UNCHANGED <<group, phase>> /\ passwd' = Bad /\ Doing("saveusers")
    BY <1>3 DEF RenderUsers, Doing, system
  <2>2. \A k : b # Bad /\ Has(k) => HasUsers(b, k)
    BY DEF Has
  <2> HIDE DEF b
  <2>3. QED
    BY <1>0, <2>1, <2>2 DEF Lasting, KeptAccounts, Has
<1>4. CASE SaveUsers
  <2>1. /\ group' = group /\ buffer' = <<>> /\ passwd' = Head(buffer) /\ ~Doing("saveusers")'
        /\ (phase = "halt" => phase' = "halted") /\ (phase = "up" => phase' = "up")
        /\ group # Bad /\ (passwd' # Bad => HasUsers(passwd', kept))
        /\ phase = "halt" =>
             HasGroups(group, asked) /\ (passwd' # Bad => HasUsers(passwd', asked))
    BY <1>0, <1>4, Following DEF SaveUsers, Done, Doing, system, Lasting, KeptAccounts, Inv, TypeOK, Saving
  <2>2. QED
    BY <1>0, <2>1 DEF Lasting, KeptAccounts, Has
<1>5. QED
  BY <1>1, <1>2, <1>3, <1>4

LEMMA MachineLast ==
  ASSUME Inv, Lasting, Deploy \/ Crash
  PROVE  Lasting'
<1>1. phase' = "boot" /\ Doing("fsck")' /\ ~Doing("modusers")'
  BY PlanHeads DEF Deploy, Crash, Doing
<1>2. UNCHANGED <<users, groups, member>> \/ DOMAIN users' = {}
  BY AccountsAre DEF Deploy, Crash, KeptOrNew, system
<1>3. CASE Deploy
  <2>1. /\ UNCHANGED <<group, passwd>> /\ kept' = asked /\ repo'.group = group /\ repo'.passwd = passwd
        /\ phase = "halted"
    BY <1>3 DEF Deploy, files
  <2>2. \A u \in DOMAIN asked.users \cap DOMAIN users' : users'[u] >= asked.users[u]
    BY <1>2, <2>1 DEF Lasting, Has, HasUsers
  <2>3. QED
    BY <1>1, <2>1, <2>2 DEF Lasting, KeptAccounts, Doing
<1>4. CASE Crash
  <2>1. kept' = kept /\ repo' = repo
    BY <1>4 DEF Crash, history
  <2>2. \/ UNCHANGED <<group, passwd>>
        \/ group' = repo.group /\ passwd' = repo.passwd
    BY <1>4 DEF Crash, files
  <2>3. /\ passwd' # Bad => HasUsers(passwd', kept)
        /\ group' # Bad => HasGroups(group', kept)
    BY <2>2 DEF Lasting, KeptAccounts
  <2>4. \A u \in DOMAIN kept.users \cap DOMAIN users' : users'[u] >= kept.users[u]
    BY <1>2 DEF Lasting
  <2>5. QED
    BY <1>1, <2>1, <2>3, <2>4 DEF Lasting, KeptAccounts, Doing
<1>5. QED
  BY <1>3, <1>4

LEMMA SurvivalStep == Inv /\ TypeOK' /\ Survival /\ [Next]_vars => Survival'
<1> SUFFICES ASSUME Inv, TypeOK', Survival, [Next]_vars PROVE Survival'
  OBVIOUS
<1>1. Roots'
  BY RootsStep DEF Survival
<1> SUFFICES ASSUME ~stopped' PROVE Lasting'
  BY <1>1 DEF Survival
<1>2. ~stopped
  BY DEF Next, Task, Accept, ChangePassword, Enlist, Fsck, CreateGroups, CreateUsers, ModUsers,
         RenderGroups, SaveGroups, RenderUsers, SaveUsers, StartHalt, StartSync, Deploy, Crash,
         history, vars
<1>3. Lasting
  BY <1>2 DEF Survival
<1>4. ASSUME NEW u \in Names, Accept(u) \/ ChangePassword(u) \/ Enlist(u) PROVE Lasting'
  <2>1. /\ Running /\ UNCHANGED <<todo, buffer, files, repo, phase, history>>
        /\ groups \subseteq groups' /\ member \subseteq member'
    BY <1>4 DEF Accept, ChangePassword, Enlist
  <2>2. \A v \in DOMAIN users : users[v] \in Nat
    BY Numbers DEF Inv, TypeOK
  <2>3. \A v \in DOMAIN users : v \in DOMAIN users' /\ users'[v] >= users[v]
    BY <1>4, <2>2 DEF Accept, ChangePassword, Enlist
  <2>4. QED
    BY <1>3, <2>1, <2>3, MembersLast DEF Grows
<1>5. CASE Fsck
  <2>1. /\ UNCHANGED <<buffer, users, groups, member, group, passwd, repo, asked, kept>>
        /\ phase' = phase /\ phase = "boot" /\ Doing("creategroups")'
    BY <1>5, Current, Following
       DEF Fsck, Done, Doing, system, files, Inv, TypeOK
  <2>2. QED
    BY <1>3, <2>1 DEF Lasting, KeptAccounts, Doing
<1>6. CASE CreateGroups
  <2>1. /\ UNCHANGED <<buffer, users, member, group, passwd, repo, phase, asked, kept>>
        /\ Doing("createusers")' /\ phase \in {"boot", "up"} /\ groups \subseteq groups'
    BY <1>6, Current, Following DEF CreateGroups, Done, Doing, files, history, Inv, TypeOK
  <2>2. QED
    BY <1>3, <2>1 DEF Lasting, KeptAccounts, Doing, Has
<1>7. CASE CreateUsers
  BY <1>3, <1>7, CreateUsersLast
<1>8. CASE ModUsers
  BY <1>3, <1>8, ModUsersLast
<1>9. CASE RenderGroups \/ SaveGroups \/ RenderUsers \/ SaveUsers
  BY <1>3, <1>9, SavesLast
<1>10. CASE StartHalt
  <2>1. /\ UNCHANGED <<buffer, users, groups, member, group, passwd, repo, kept>>
        /\ phase = "up" /\ phase' = "halt" /\ buffer = <<>> /\ Doing("savegroups")'
        /\ asked'.users = users /\ asked'.member = member
    BY <1>10, PlanHeads DEF StartHalt, system, files, Inv, Control, Doing
  <2>2. \A u \in DOMAIN users : users[u] \in Nat /\ u \in groups
    BY Numbers DEF Inv, TypeOK, Live
  <2>3. Has(asked)'
    BY <2>1, <2>2 DEF Has, HasUsers
  <2>4. QED
    BY <1>3, <2>1, <2>3 DEF Lasting, KeptAccounts, Doing, Has
<1>11. CASE StartSync
  <2>1. /\ UNCHANGED <<buffer, users, groups, member, group, passwd, repo, phase, asked, kept>>
        /\ phase = "up" /\ buffer = <<>> /\ Doing("creategroups")'
    BY <1>11, PlanHeads DEF StartSync, system, files, history, Inv, Control, Doing
  <2>2. QED
    BY <1>3, <2>1 DEF Lasting, KeptAccounts, Doing, Has
<1>12. CASE Deploy \/ Crash
  BY <1>3, <1>12, MachineLast
<1>13. CASE UNCHANGED vars
  BY <1>3, <1>13 DEF vars, system, files, history, Lasting, KeptAccounts, Doing, Has
<1>14. QED
  BY <1>4, <1>5, <1>6, <1>7, <1>8, <1>9, <1>10, <1>11, <1>12, <1>13 DEF Next, Task

\* After every boot that runs to its end on a machine whose boots never stopped at
\* fsck, the accounts of the last committed halt are there with those passwords or
\* later ones, and in their groups but for those modusers leaves out.
THEOREM AccountsSurviveHolds == Spec => AccountsSurvive
<1>1. Inv /\ Inv' /\ Survival' /\ [Next]_vars =>
        ((BootEnds /\ ~stopped) =>
           /\ \A u \in DOMAIN kept.users :
                u \in DOMAIN users' /\ users'[u] >= kept.users[u]
           /\ kept.member \ Within \subseteq member')
  <2> SUFFICES ASSUME Inv, Survival', [Next]_vars, BootEnds, ~stopped
               PROVE  /\ \A u \in DOMAIN kept.users :
                           u \in DOMAIN users' /\ users'[u] >= kept.users[u]
                      /\ kept.member \ Within \subseteq member'
    OBVIOUS
  <2>1. ~stopped' /\ kept' = kept /\ phase' = "up"
    BY DEF BootEnds, Next, Task, Accept, ChangePassword, Enlist, Fsck, CreateGroups, CreateUsers,
           ModUsers, RenderGroups, SaveGroups, RenderUsers, SaveUsers, StartHalt, StartSync,
           Deploy, Crash, history, vars, Running, Doing
  <2>2. Has(kept)'
    BY <2>1 DEF Survival, Lasting, KeptAccounts
  <2>3. QED
    BY <2>1, <2>2 DEF Has, HasUsers
<1>2. Spec => []Survival
  <2>1. Inv /\ Inv' /\ Survival /\ [Next]_vars => Survival'
    BY SurvivalStep DEF Inv
  <2>2. QED
    BY <2>1, InitSurvival, Invariant, PTL DEF Spec
<1>3. QED
  BY <1>1, <1>2, Invariant, PTL DEF Spec, AccountsSurvive
-----------------------------------------------------------------------------
(***************************************************************************)
(* Applications                                                            *)
(***************************************************************************)
USE DEF Goto

\* Every step keeps the types.
LEMMA AppTypeStep == AppTypeOK /\ [AppNext]_appVars => AppTypeOK'
<1> USE ApplicationsAssumption
<1> SUFFICES ASSUME AppTypeOK, [AppNext]_appVars PROVE AppTypeOK'
  OBVIOUS
<1> USE DEF AppTypeOK, Judging, Steps, Kinds
<1>1. CASE Apply
  <2>1. PICK ip \in Addresses, name \in Logins :
          LET a == [id |-> Cardinality(saved) + 1, ip |-> ip, login |-> name]
          IN  data' = Append(data, a) /\ saved' = saved \union {a}
    BY <1>1 DEF Apply
  <2> DEFINE a == [id |-> Cardinality(saved) + 1, ip |-> ip, login |-> name]
  <2>2. Cardinality(saved) \in Nat
    BY FS_CardinalityType
  <2>3. a \in Application
    BY <1>1, <2>2 DEF Application, Apply
  <2>4. IsFiniteSet(saved')
    BY <2>1, FS_AddElement
  <2> HIDE DEF a
  <2>5. data' \in Seq(Application) /\ Len(data') = Len(data) + 1
    BY <2>1, <2>3 DEF a
  <2>6. /\ UNCHANGED <<pc, pos, cur, login, next, seen, reads>>
        /\ UNCHANGED <<log, accounts, contacts, sessions, kills>>
    BY <1>1 DEF Apply, session
  <2>7. ff' \in BOOLEAN
    BY <1>1, Zenon DEF Apply, session
  <2>8. saved' \subseteq Application
    BY <2>1, <2>3 DEF a
  <2>9. Len(data) \in Nat
    BY LenProperties
  <2>10. QED
    BY <2>4, <2>5, <2>6, <2>7, <2>8, <2>9
<1>2. CASE Start
  BY <1>2 DEF Start
<1>3. CASE Read
  <2>1. data[pos + 1] \in Application /\ data[pos + 1].login \in Logins
    <3>1. pos + 1 \in 1 .. Len(data)
      BY <1>3, LenProperties DEF Read
    <3>2. data[pos + 1] \in Application
      BY <3>1, ElementOfSeq
    <3>3. QED
      BY <3>2 DEF Application
  <2>2. accounts \subseteq [login : Logins, id : 1 .. MaxApplications,
                            password : 1 .. reads']
    BY <1>3 DEF Read
  <2>3. data \in Seq(Application) /\ Len(data) \in Nat /\ pos + 1 <= Len(data)
    BY <1>3 DEF Read
  <2>4. QED
    BY <1>3, <2>1, <2>2, <2>3 DEF Read, world
<1>4. CASE EndOfFile
  BY <1>4 DEF EndOfFile, world
<1>5. CASE Duplicate
  BY <1>5 DEF Duplicate, world
<1>6. CASE Choose
  BY <1>6 DEF Choose, world
<1>7. CASE Rename
  BY <1>7 DEF Rename, world
<1>8. CASE Skip
  <2>1. ff' \in BOOLEAN
    BY <1>8, Zenon DEF Skip
  <2>2. QED
    BY <1>8, <2>1 DEF Skip, NextLine, Keep, world, Application
<1>9. CASE ComposeFails
  BY <1>9 DEF ComposeFails, world
<1>10. CASE Welcome
  BY <1>10 DEF Welcome
<1>11. CASE Reject
  BY <1>11 DEF Reject, NextLine, Application
<1>12. CASE Email
  BY <1>12 DEF Email, NextLine, Keep, Application
<1>13. CASE Delete
  BY <1>13 DEF Delete, NextLine, Application
<1>14. CASE UserAdd
  <2>1. CASE Exists(login)
    BY <1>14, <2>1 DEF UserAdd
  <2>2. CASE ~Exists(login)
    BY <1>14, <2>2 DEF UserAdd, Application
  <2>3. QED
    BY <2>1, <2>2
<1>15. CASE AddContact
  BY <1>15 DEF AddContact
<1>16. CASE LogAccept
  BY <1>16 DEF LogAccept, NextLine, Application
<1>17. CASE Truncate
  BY <1>17 DEF Truncate
<1>18. CASE Write
  <2>1. ff' \in BOOLEAN
    BY <1>18, Zenon DEF Write, EndSession
  <2>2. PICK k \in 0 .. Len(data) :
          data' = next \o SubSeq(data, k + 1, Len(data))
    BY <1>18 DEF Write
  <2>3. SubSeq(data, k + 1, Len(data)) \in Seq(Application)
    BY SubSeqProperties
  <2>4. data' \in Seq(Application)
    BY <2>2, <2>3, ConcatProperties
  <2>5. Len(data') \in Nat
    BY <2>4, LenProperties
  <2>6. /\ pc' = "idle" /\ pos' = 0 /\ next' = <<>> /\ seen' = {}
        /\ UNCHANGED <<reads, log, accounts, contacts, saved, sessions, kills>>
    BY <1>18 DEF Write, EndSession
  <2>7. QED
    BY <2>1, <2>4, <2>5, <2>6
<1>19. CASE Kill
  <2>1. ff' \in BOOLEAN
    BY <1>19, Zenon DEF Kill, EndSession
  <2>2. Len(data) \in Nat
    BY LenProperties
  <2>3. /\ pc' = "idle" /\ pos' = 0 /\ next' = <<>> /\ seen' = {}
        /\ contacts' \subseteq contacts
        /\ kills' = kills + 1 /\ kills < MaxKills
        /\ UNCHANGED <<reads, data, log, accounts, saved, sessions>>
    BY <1>19 DEF Kill, EndSession
  <2>4. QED
    BY <2>1, <2>2, <2>3
<1>20. CASE UNCHANGED appVars
  BY <1>20 DEF appVars, session, world
<1>21. QED
  BY <1>1, <1>2, <1>3, <1>4, <1>5, <1>6, <1>7, <1>8, <1>9, <1>10, <1>11,
     <1>12, <1>13, <1>14, <1>15, <1>16, <1>17, <1>18, <1>19, <1>20
     DEF AppNext, Decide, Rest

\* Every state is well typed: a decision, a kept line and an account always
\* belong to a line that was read from the file (decide 176-283).
THEOREM AppTypeCorrect == AppSpec => []AppTypeOK
<1> USE ApplicationsAssumption
<1>1. AppInit => AppTypeOK
  <2> SUFFICES ASSUME AppInit PROVE AppTypeOK
    OBVIOUS
  <2>1. IsFiniteSet(saved)
    BY FS_EmptySet DEF AppInit
  <2>2. ff \in BOOLEAN
    BY Zenon DEF AppInit
  <2>3. /\ data = <<>> /\ log = <<>> /\ next = <<>> /\ accounts = {}
        /\ contacts = {} /\ pc = "idle" /\ pos = 0 /\ seen = {} /\ saved = {}
        /\ reads = 0 /\ kills = 0 /\ sessions = 0
    BY DEF AppInit
  <2>4. QED
    BY <2>1, <2>2, <2>3 DEF AppTypeOK, Judging, Steps
<1>2. QED
  BY <1>1, AppTypeStep, PTL DEF AppSpec
-----------------------------------------------------------------------------
\* Between the welcome mail and useradd: this login and this password were
\* mailed to the one who applied.
Announced ==
  pc = "useradd" => [to |-> cur.id, login |-> login, password |-> reads] \in mails

\* An account opens with what the welcome mail of its application says, in any
\* order of accepted, renamed, failed and killed attempts (decide 103-163).
THEOREM WelcomeOpensAccountHolds == AppSpec => []WelcomeOpensAccount
<1> DEFINE Joint == WelcomeOpensAccount /\ Announced
<1>1. AppInit => Joint
  BY DEF AppInit, WelcomeOpensAccount, Announced
<1>2. Joint /\ [AppNext]_appVars => Joint'
  <2> SUFFICES ASSUME Joint, [AppNext]_appVars PROVE Joint'
    OBVIOUS
  <2> USE DEF WelcomeOpensAccount, Announced
  <2>1. ASSUME UNCHANGED <<accounts, mails>>, pc' # "useradd" PROVE Joint'
    BY <2>1
  <2>2. CASE Apply
    BY <2>2 DEF Apply, session
  <2>3. CASE Welcome
    BY <2>3 DEF Welcome
  <2>4. CASE UserAdd
    <3>1. CASE Exists(login)
      BY <2>4, <3>1 DEF UserAdd
    <3>2. CASE ~Exists(login)
      BY <2>4, <3>2 DEF UserAdd
    <3>3. QED
      BY <3>1, <3>2
  <2>5. CASE Start \/ Read \/ EndOfFile \/ Duplicate \/ Choose \/ ComposeFails
    BY <2>5, <2>1 DEF Start, Read, EndOfFile, Duplicate, Choose, ComposeFails,
                      world
  <2>6. CASE Rename \/ Skip \/ Reject \/ Email \/ Delete \/ LogAccept
    BY <2>6, <2>1 DEF Rename, Skip, Reject, Email, Delete, LogAccept, NextLine,
                      world
  <2>7. CASE AddContact \/ Truncate \/ Write \/ Kill
    BY <2>7, <2>1 DEF AddContact, Truncate, Write, Kill, EndSession
  <2>8. CASE UNCHANGED appVars
    BY <2>8 DEF appVars, session, world
  <2>9. QED
    BY <2>2, <2>3, <2>4, <2>5, <2>6, <2>7, <2>8 DEF AppNext, Decide, Rest
<1>3. Joint => WelcomeOpensAccount
  OBVIOUS
<1>4. QED
  BY <1>1, <1>2, <1>3, PTL DEF AppSpec
-----------------------------------------------------------------------------
HasAccount(id) ==
  \E a \in accounts : a.id = id /\ (kills = 0 => a.login \in contacts)

\* Between useradd and the log: the account exists, and then its address.
Opened ==
  /\ pc = "contacts" => \E a \in accounts : a.id = cur.id /\ a.login = login
  /\ pc = "log" => HasAccount(cur.id)

\* The log names as accepted only who has an account, and an address in
\* contact.json unless a session was killed (decide 144-170, 231-237).
THEOREM AcceptedHaveAccountsHolds == AppSpec => []AcceptedHaveAccounts
<1> DEFINE Joint == AcceptedHaveAccounts /\ Opened
<1>1. AppInit => Joint
  <2>1. DOMAIN <<>> = {}
    OBVIOUS
  <2>2. QED
    BY <2>1 DEF AppInit, AcceptedHaveAccounts, Opened
<1>2. AppTypeOK /\ Joint /\ [AppNext]_appVars => Joint'
  <2> SUFFICES ASSUME AppTypeOK, Joint, [AppNext]_appVars PROVE Joint'
    OBVIOUS
  <2> USE DEF HasAccount
  <2>1. ASSUME NEW k \in Kinds, log' = Append(log, [id |-> cur.id, kind |-> k]),
               UNCHANGED <<accounts, contacts, kills>>, pc' = "read",
               k = "accept" => HasAccount(cur.id)
        PROVE  Joint'
    <3>1. Len(log) \in Nat /\ DOMAIN log = 1 .. Len(log)
      BY LenProperties DEF AppTypeOK
    <3>2. \A i \in DOMAIN log' :
            log'[i] = IF i \in DOMAIN log THEN log[i] ELSE [id |-> cur.id, kind |-> k]
      BY <2>1, <3>1 DEF AppTypeOK
    <3>3. QED
      BY <2>1, <3>2 DEF AcceptedHaveAccounts, Opened
  <2> USE DEF AcceptedHaveAccounts, Opened
  <2>2. ASSUME UNCHANGED <<log, accounts, contacts, kills>>,
               pc' \notin {"contacts", "log"}
        PROVE  Joint'
    BY <2>2
  <2>3. CASE Apply
    BY <2>3 DEF Apply, session
  <2>4. CASE UserAdd
    <3>1. CASE Exists(login)
      BY <2>4, <3>1 DEF UserAdd
    <3>2. CASE ~Exists(login)
      <4> DEFINE new == [login |-> login, id |-> cur.id, password |-> reads]
      <4>1. /\ accounts' = accounts \union {new}
            /\ pc' = "contacts"
            /\ UNCHANGED <<cur, login, log, contacts, kills>>
        BY <2>4, <3>2 DEF UserAdd
      <4>2. new.id = cur.id /\ new.login = login
        OBVIOUS
      <4> HIDE DEF new
      <4>3. accounts \subseteq accounts'
        BY <4>1
      <4>4. ASSUME NEW i \in DOMAIN log, log[i].kind = "accept"
            PROVE  \E a \in accounts' :
                     a.id = log[i].id /\ (kills = 0 => a.login \in contacts)
        BY <4>3, <4>4
      <4>5. QED
        BY <4>1, <4>2, <4>4
    <3>3. QED
      BY <3>1, <3>2
  <2>5. CASE AddContact
    BY <2>5 DEF AddContact
  <2>6. CASE Reject
    BY <2>6, <2>1 DEF Reject, NextLine, Kinds
  <2>7. CASE Delete
    BY <2>7, <2>1 DEF Delete, NextLine, Kinds
  <2>8. CASE LogAccept
    BY <2>8, <2>1 DEF LogAccept, NextLine, Kinds
  <2>9. CASE Kill
    <3>1. kills' # 0
      BY <2>9 DEF Kill, AppTypeOK
    <3>2. QED
      BY <2>9, <3>1 DEF Kill, EndSession
  <2>10. CASE Start \/ Read \/ EndOfFile \/ Duplicate \/ Choose \/ ComposeFails
    BY <2>10, <2>2 DEF Start, Read, EndOfFile, Duplicate, Choose, ComposeFails,
                       world
  <2>11. CASE Rename \/ Skip \/ Email \/ Welcome \/ Truncate \/ Write
    BY <2>11, <2>2 DEF Rename, Skip, Email, Welcome, Truncate, Write, NextLine,
                       EndSession, world
  <2>12. CASE UNCHANGED appVars
    BY <2>12 DEF appVars, session, world
  <2>13. QED
    BY <2>3, <2>4, <2>5, <2>6, <2>7, <2>8, <2>9, <2>10, <2>11, <2>12
       DEF AppNext, Decide, Rest
<1>3. Joint => AcceptedHaveAccounts
  OBVIOUS
<1>4. QED
  BY <1>1, <1>2, <1>3, AppTypeCorrect, PTL DEF AppSpec
-----------------------------------------------------------------------------
\* What is in a sequence stays in it when something is appended, which is then
\* in it, too.
LEMMA AppendMembers ==
  ASSUME NEW S, NEW s \in Seq(S), NEW e
  PROVE  /\ \A x \in ToSet(s) : x \in ToSet(Append(s, e))
         /\ e \in ToSet(Append(s, e))
         /\ DOMAIN Append(s, e) = 1 .. Len(s) + 1
         /\ \A i \in 1 .. Len(s) : Append(s, e)[i] = s[i]
         /\ Append(s, e)[Len(s) + 1] = e
<1>1. Len(s) \in Nat /\ DOMAIN s = 1 .. Len(s)
  BY LenProperties
<1>2. /\ DOMAIN Append(s, e) = 1 .. Len(s) + 1
      /\ \A i \in 1 .. Len(s) : Append(s, e)[i] = s[i]
      /\ Append(s, e)[Len(s) + 1] = e
  BY <1>1
<1>3. QED
  BY <1>1, <1>2 DEF ToSet

\* A decision that is logged leaves the others, and is there.
LEMMA LogDecides ==
  ASSUME AppTypeOK, NEW k, log' = Append(log, [id |-> cur.id, kind |-> k])
  PROVE  /\ \A a : Decided(a) => Decided(a)'
         /\ \A a : a.id = cur.id => Decided(a)'
<1> DEFINE e == [id |-> cur.id, kind |-> k]
<1>1. Len(log) \in Nat /\ DOMAIN log = 1 .. Len(log)
  BY LenProperties DEF AppTypeOK
<1>2. /\ DOMAIN log' = 1 .. Len(log) + 1
      /\ \A i \in 1 .. Len(log) : log'[i] = log[i]
      /\ log'[Len(log) + 1] = e
  <2> HIDE DEF e
  <2>1. log' = Append(log, e)
    BY DEF e
  <2>2. QED
    BY <2>1, AppendMembers DEF AppTypeOK
<1>3. e.id = cur.id
  OBVIOUS
<1> HIDE DEF e
<1>4. QED
  BY <1>1, <1>2, <1>3 DEF Decided

\* Every step but the rewrite and a kill leaves the lines of the file where
\* they are, and what is kept and decided.
LEMMA StepsKeep ==
  ASSUME AppTypeOK, [AppNext]_appVars, ~Truncate, ~Write, ~Kill
  PROVE  /\ Len(data) <= Len(data')
         /\ \A i \in 1 .. Len(data) : data'[i] = data[i]
         /\ \A x \in ToSet(next) : x \in ToSet(next')
         /\ \A a : Decided(a) => Decided(a)'
         /\ pc = "write" <=> pc' = "write"
<1> DEFINE Result == /\ Len(data) <= Len(data')
                     /\ \A i \in 1 .. Len(data) : data'[i] = data[i]
                     /\ \A x \in ToSet(next) : x \in ToSet(next')
                     /\ \A a : Decided(a) => Decided(a)'
                     /\ pc = "write" <=> pc' = "write"
<1>1. Len(data) \in Nat
  BY LenProperties DEF AppTypeOK
<1>2. ASSUME UNCHANGED <<data, next, log>>, pc = "write" <=> pc' = "write"
      PROVE  Result
  BY <1>1, <1>2 DEF Decided
<1>3. ASSUME Keep, UNCHANGED <<data, log>>, pc # "write", pc' # "write"
      PROVE  Result
  BY <1>1, <1>3, AppendMembers DEF Keep, AppTypeOK, Decided
<1>4. ASSUME NEW k, log' = Append(log, [id |-> cur.id, kind |-> k]),
             UNCHANGED <<data, next>>, pc # "write", pc' # "write"
      PROVE  Result
  BY <1>1, <1>4, LogDecides
<1>5. CASE Apply
  <2>1. PICK a : data' = Append(data, a)
    BY <1>5 DEF Apply
  <2>2. Len(data) <= Len(data') /\ \A i \in 1 .. Len(data) : data'[i] = data[i]
    BY <2>1, <1>1, AppendMembers, LenProperties DEF AppTypeOK
  <2>3. QED
    BY <1>5, <2>2 DEF Apply, session, Decided
<1>6. CASE Start \/ Read \/ EndOfFile \/ Duplicate \/ Choose \/ ComposeFails
  BY <1>6, <1>2 DEF Start, Read, EndOfFile, Duplicate, Choose, ComposeFails, world
<1>7. CASE Rename \/ Welcome \/ UserAdd \/ AddContact
  BY <1>7, <1>2 DEF Rename, Welcome, UserAdd, AddContact, world
<1>8. CASE Skip \/ Email
  BY <1>8, <1>3 DEF Skip, Email, NextLine, world
<1>9. CASE Reject \/ Delete \/ LogAccept
  BY <1>9, <1>4 DEF Reject, Delete, LogAccept, NextLine
<1>10. CASE UNCHANGED appVars
  BY <1>10, <1>2 DEF appVars, session, world
<1>11. QED
  BY <1>5, <1>6, <1>7, <1>8, <1>9, <1>10 DEF AppNext, Decide, Rest
-----------------------------------------------------------------------------
Settled(a) == a \in ToSet(next) \/ Decided(a)

\* Every line that was read is kept or decided, but the one being judged.
ReadLinesSettled ==
  pc # "write" =>
    \A i \in 1 .. pos : Settled(data[i]) \/ (Judging /\ data[i] = cur)

LEMMA ReadLinesSettledHolds == AppSpec => []ReadLinesSettled
<1>1. AppInit => ReadLinesSettled
  <2>1. 1 .. 0 = {}
    OBVIOUS
  <2>2. QED
    BY <2>1 DEF AppInit, ReadLinesSettled
<1>2. AppTypeOK /\ ReadLinesSettled /\ [AppNext]_appVars => ReadLinesSettled'
  <2> SUFFICES ASSUME AppTypeOK, ReadLinesSettled, [AppNext]_appVars
               PROVE  ReadLinesSettled'
    OBVIOUS
  <2>1. CASE Truncate \/ Write \/ Kill
    <3>1. pc' = "write" \/ pos' = 0
      BY <2>1 DEF Truncate, Write, Kill, EndSession
    <3>2. 1 .. 0 = {}
      OBVIOUS
    <3>3. QED
      BY <3>1, <3>2 DEF ReadLinesSettled
  <2>2. CASE ~(Truncate \/ Write \/ Kill)
    <3>1. pos <= Len(data) \/ pc = "write"
      BY DEF AppTypeOK
    <3>2. pos \in Nat /\ Len(data) \in Nat
      BY LenProperties DEF AppTypeOK
    <3>3. \A a : Settled(a) => Settled(a)'
      BY <2>2, StepsKeep DEF Settled
    <3>4. \A i \in 1 .. pos : pc # "write" => data'[i] = data[i]
      BY <2>2, <3>1, <3>2, StepsKeep
    <3>5. ASSUME pos' = pos, cur' = cur, Judging => Judging' \/ Settled(cur)'
          PROVE  ReadLinesSettled'
      BY <2>2, <3>3, <3>4, <3>5, StepsKeep DEF ReadLinesSettled
    <3>6. CASE Read
      <4>1. \A i \in 1 .. pos : Settled(data[i])
        BY <3>6 DEF Read, ReadLinesSettled, Judging
      <4>2. data'[pos + 1] = cur' /\ Judging' /\ pos' = pos + 1
        BY <3>6 DEF Read, Judging, world
      <4>3. \A i \in 1 .. pos : Settled(data[i])'
        BY <3>3, <3>4, <3>6, <4>1 DEF Read
      <4>4. QED
        BY <3>2, <4>2, <4>3 DEF ReadLinesSettled
    <3>7. CASE Apply \/ Start \/ EndOfFile \/ Duplicate \/ Choose \/ ComposeFails
      BY <3>7, <3>5 DEF Apply, Start, EndOfFile, Duplicate, Choose, ComposeFails,
                        session, Judging
    <3>8. CASE Rename \/ Welcome \/ UserAdd \/ AddContact
      BY <3>8, <3>5 DEF Rename, Welcome, UserAdd, AddContact, Judging
    <3>9. CASE Skip \/ Email
      <4>1. Settled(cur)'
        BY <3>9, AppendMembers
           DEF Skip, Email, Keep, NextLine, Settled, AppTypeOK
      <4>2. QED
        BY <3>9, <4>1, <3>5 DEF Skip, Email, NextLine
    <3>10. CASE Reject \/ Delete \/ LogAccept
      <4>1. Decided(cur)'
        BY <3>10, LogDecides DEF Reject, Delete, LogAccept, NextLine
      <4>2. QED
        BY <3>10, <4>1, <3>5 DEF Reject, Delete, LogAccept, NextLine, Settled
    <3>11. CASE UNCHANGED appVars
      BY <3>11, <3>5 DEF appVars, session, Judging
    <3>12. QED
      BY <2>2, <3>6, <3>7, <3>8, <3>9, <3>10, <3>11 DEF AppNext, Decide, Rest
  <2>3. QED
    BY <2>1, <2>2
<1>3. QED
  BY <1>1, <1>2, AppTypeCorrect, PTL DEF AppSpec

\* No step loses an application, but the rewrite those that came in since the
\* end of the file was read, or a kill within the rewrite (decide 176-283).
THEOREM LostOnlyByRewriteHolds == AppSpec => LostOnlyByRewrite
<1> DEFINE Step == \A a \in saved :
                     Kept(a) /\ ~Kept(a)' => \/ a \in AfterTheEnd
                                             \/ pc = "write" /\ kills' > kills
<1>1. AppTypeOK /\ ReadLinesSettled /\ [AppNext]_appVars => [Step]_appVars
  <2> SUFFICES ASSUME AppTypeOK, ReadLinesSettled, [AppNext]_appVars,
                      NEW a \in saved, Kept(a), ~Kept(a)'
               PROVE  a \in AfterTheEnd \/ (pc = "write" /\ kills' > kills)
    OBVIOUS
  <2>1. Len(data) \in Nat /\ DOMAIN data = 1 .. Len(data)
    BY LenProperties DEF AppTypeOK
  <2>2. CASE Truncate
    <3>1. pc = "truncate" /\ pc' = "write" /\ next' = next /\ log' = log
      BY <2>2 DEF Truncate
    <3>2. ~Settled(a)
      BY <3>1 DEF Kept, Settled, Decided
    <3>3. PICK i \in 1 .. Len(data) : data[i] = a
      BY <2>1, <3>1, <3>2 DEF Kept, Settled, ToSet
    <3>4. i \notin 1 .. pos
      BY <3>1, <3>2, <3>3 DEF ReadLinesSettled, Judging
    <3> DEFINE rest == SubSeq(data, pos + 1, Len(data))
    <3>5. /\ pos \in Nat /\ i > pos /\ pos + 1 <= Len(data)
          /\ \A j \in pos + 1 .. Len(data) : data[j] \in Application
      BY <2>1, <3>1, <3>3, <3>4, ElementOfSeq DEF AppTypeOK
    <3>6. /\ Len(rest) = Len(data) - pos
          /\ rest \in Seq(Application)
          /\ \A j \in 1 .. Len(data) - pos : rest[j] = data[pos + j]
      BY <2>1, <3>5, SubSeqProperties
    <3> HIDE DEF rest
    <3>7. DOMAIN rest = 1 .. Len(data) - pos
      BY <3>6, LenProperties
    <3>8. i - pos \in 1 .. Len(data) - pos /\ rest[i - pos] = a
      BY <2>1, <3>5, <3>3, <3>6
    <3>9. a \in ToSet(rest)
      BY <3>7, <3>8 DEF ToSet
    <3>10. QED
      BY <3>1, <3>9 DEF AfterTheEnd, rest
  <2>3. CASE Write
    <3>1. pc = "write" /\ pc' = "idle" /\ log' = log
      BY <2>3 DEF Write, EndSession
    <3>2. PICK k \in 0 .. Len(data) :
            data' = next \o SubSeq(data, k + 1, Len(data))
      BY <2>3 DEF Write
    <3>3. \A x \in ToSet(next) : x \in ToSet(data')
      <4> DEFINE rest == SubSeq(data, k + 1, Len(data))
      <4>1. rest \in Seq(Application)
        BY <2>1, SubSeqProperties, ElementOfSeq DEF AppTypeOK
      <4> HIDE DEF rest
      <4>2. /\ next \o rest \in Seq(Application)
            /\ Len(next \o rest) = Len(next) + Len(rest)
            /\ \A i \in 1 .. Len(next) : (next \o rest)[i] = next[i]
            /\ Len(next) \in Nat /\ Len(rest) \in Nat
            /\ DOMAIN next = 1 .. Len(next)
        BY <4>1, ConcatProperties, LenProperties DEF AppTypeOK
      <4>3. DOMAIN (next \o rest) = 1 .. Len(next) + Len(rest)
        BY <4>2, LenProperties
      <4>4. QED
        BY <3>2, <4>2, <4>3 DEF ToSet, rest
    <3>4. a \in ToSet(data)
      BY <3>1, <3>3 DEF Kept, Decided
    <3>5. QED
      BY <3>1, <3>4 DEF AfterTheEnd
  <2>4. CASE Kill
    <3>1. UNCHANGED <<data, log>> /\ kills' = kills + 1
      BY <2>4 DEF Kill
    <3>2. pc = "write"
      BY <3>1 DEF Kept, Decided
    <3>3. QED
      BY <3>1, <3>2 DEF AppTypeOK
  <2>5. CASE ~(Truncate \/ Write \/ Kill)
    <3>1. \A x \in ToSet(data) : x \in ToSet(data')
      <4>1. DOMAIN data' = 1 .. Len(data') /\ Len(data') \in Nat
        BY AppTypeStep, LenProperties DEF AppTypeOK
      <4>2. QED
        BY <2>1, <2>5, <4>1, StepsKeep DEF ToSet
    <3>2. Kept(a)'
      BY <2>5, <3>1, StepsKeep DEF Kept
    <3>3. QED
      BY <3>2
  <2>6. QED
    BY <2>2, <2>3, <2>4, <2>5
<1>2. QED
  BY <1>1, AppTypeCorrect, ReadLinesSettledHolds, PTL DEF AppSpec, LostOnlyByRewrite
-----------------------------------------------------------------------------
Ids(s) == {s[i].id : i \in DOMAIN s}
Distinct(s) == \A i, j \in DOMAIN s : s[i].id = s[j].id => i = j

Known == {a.id : a \in saved}

\* Every line and every decision is about somebody who applied; a new
\* application gets an id that none of them has.
KnownIds ==
  /\ Ids(data) \subseteq Known /\ Ids(next) \subseteq Known
  /\ Ids(log) \subseteq Known
  /\ Judging => cur.id \in Known
  /\ \A n \in Known : n <= Cardinality(saved)

LEMMA AppendIds ==
  ASSUME NEW S, NEW s \in Seq(S), NEW e
  PROVE  /\ Ids(Append(s, e)) = Ids(s) \union {e.id}
         /\ Distinct(s) /\ e.id \notin Ids(s) => Distinct(Append(s, e))
<1>1. Len(s) \in Nat /\ DOMAIN s = 1 .. Len(s)
  BY LenProperties
<1>2. /\ DOMAIN Append(s, e) = 1 .. Len(s) + 1
      /\ \A i \in 1 .. Len(s) : Append(s, e)[i] = s[i]
      /\ Append(s, e)[Len(s) + 1] = e
  BY AppendMembers
<1>3. Ids(Append(s, e)) = Ids(s) \union {e.id}
  BY <1>1, <1>2 DEF Ids
<1>4. ASSUME Distinct(s), e.id \notin Ids(s) PROVE Distinct(Append(s, e))
  BY <1>1, <1>2, <1>4 DEF Ids, Distinct
<1>5. QED
  BY <1>3, <1>4

LEMMA ConcatIds ==
  ASSUME NEW S, NEW s \in Seq(S), NEW t \in Seq(S)
  PROVE  /\ Ids(s \o t) = Ids(s) \union Ids(t)
         /\ Distinct(s) /\ Distinct(t) /\ Ids(s) \cap Ids(t) = {}
              => Distinct(s \o t)
<1> DEFINE u == s \o t
<1>1. /\ Len(s) \in Nat /\ DOMAIN s = 1 .. Len(s)
      /\ Len(t) \in Nat /\ DOMAIN t = 1 .. Len(t)
  BY LenProperties
<1>2. DOMAIN u = 1 .. Len(s) + Len(t)
  BY ConcatProperties, LenProperties
<1>3. \A i \in 1 .. Len(s) + Len(t) : u[i] = IF i <= Len(s) THEN s[i]
                                                         ELSE t[i - Len(s)]
  BY ConcatProperties
<1>4. /\ \A i \in 1 .. Len(s) : i \in DOMAIN u /\ u[i] = s[i]
      /\ \A i \in 1 .. Len(t) : i + Len(s) \in DOMAIN u /\ u[i + Len(s)] = t[i]
  BY <1>1, <1>2, <1>3
<1>5. \A i \in DOMAIN u :
        \/ i \in DOMAIN s /\ u[i] = s[i]
        \/ i - Len(s) \in DOMAIN t /\ u[i] = t[i - Len(s)]
  BY <1>1, <1>2, <1>3
<1> HIDE DEF u
<1>6. Ids(u) \subseteq Ids(s) \union Ids(t)
  BY <1>5 DEF Ids
<1>7. Ids(s) \subseteq Ids(u) /\ Ids(t) \subseteq Ids(u)
  BY <1>1, <1>4 DEF Ids
<1>8. ASSUME Distinct(s), Distinct(t), Ids(s) \cap Ids(t) = {}
      PROVE  Distinct(u)
  <2> SUFFICES ASSUME NEW i \in DOMAIN u, NEW j \in DOMAIN u, u[i].id = u[j].id
               PROVE  i = j
    BY DEF Distinct
  <2>1. CASE i \in DOMAIN s /\ u[i] = s[i] /\ j \in DOMAIN s /\ u[j] = s[j]
    BY <1>8, <2>1 DEF Distinct
  <2>2. CASE /\ i - Len(s) \in DOMAIN t /\ u[i] = t[i - Len(s)]
             /\ j - Len(s) \in DOMAIN t /\ u[j] = t[j - Len(s)]
    <3>1. i - Len(s) = j - Len(s)
      BY <1>8, <2>2 DEF Distinct
    <3>2. QED
      BY <1>1, <1>2, <3>1
  <2>3. CASE i \in DOMAIN s /\ u[i] = s[i] /\ j - Len(s) \in DOMAIN t /\ u[j] = t[j - Len(s)]
    BY <1>8, <2>3 DEF Ids
  <2>4. CASE j \in DOMAIN s /\ u[j] = s[j] /\ i - Len(s) \in DOMAIN t /\ u[i] = t[i - Len(s)]
    BY <1>8, <2>4 DEF Ids
  <2>5. QED
    BY <1>5, <2>1, <2>2, <2>3, <2>4
<1>9. QED
  BY <1>6, <1>7, <1>8 DEF u

LEMMA RestIds ==
  ASSUME NEW S, NEW s \in Seq(S), NEW k \in 0 .. Len(s)
  PROVE  /\ SubSeq(s, k + 1, Len(s)) \in Seq(S)
         /\ Ids(SubSeq(s, k + 1, Len(s))) \subseteq Ids(s)
         /\ Distinct(s) => Distinct(SubSeq(s, k + 1, Len(s)))
<1> DEFINE u == SubSeq(s, k + 1, Len(s))
<1>1. /\ Len(s) \in Nat /\ DOMAIN s = 1 .. Len(s)
      /\ k \in Nat /\ k <= Len(s)
  BY LenProperties
<1>2. \A i \in k + 1 .. Len(s) : s[i] \in S
  BY <1>1, ElementOfSeq
<1>3. /\ u \in Seq(S)
      /\ Len(u) = Len(s) - k
      /\ \A i \in 1 .. Len(s) - k : u[i] = s[k + i]
  <2>1. /\ u \in Seq(S)
        /\ Len(u) = IF k + 1 <= Len(s) THEN Len(s) - (k + 1) + 1 ELSE 0
        /\ \A i \in 1 .. Len(s) - (k + 1) + 1 : u[i] = s[(k + 1) + i - 1]
    BY <1>1, <1>2, SubSeqProperties
  <2> HIDE DEF u
  <2>2. Len(s) - (k + 1) + 1 = Len(s) - k
    BY <1>1
  <2>3. k + 1 <= Len(s) \/ Len(s) - k = 0
    <3>1. \A n, m \in Nat : m <= n => m + 1 <= n \/ n - m = 0
      OBVIOUS
    <3>2. QED
      BY <1>1, <3>1
  <2>4. \A i \in 1 .. Len(s) - k : (k + 1) + i - 1 = k + i
    BY <1>1
  <2>5. QED
    BY <2>1, <2>2, <2>3, <2>4
<1> HIDE DEF u
<1>4. DOMAIN u = 1 .. Len(s) - k
  BY <1>3, LenProperties
<1>5. \A i \in DOMAIN u : k + i \in DOMAIN s /\ u[i] = s[k + i]
  BY <1>1, <1>3, <1>4
<1>6. Ids(u) \subseteq Ids(s)
  BY <1>5 DEF Ids
<1>7. ASSUME Distinct(s) PROVE Distinct(u)
  <2> SUFFICES ASSUME NEW i \in DOMAIN u, NEW j \in DOMAIN u, u[i].id = u[j].id
               PROVE  i = j
    BY DEF Distinct
  <2>1. k + i = k + j
    BY <1>5, <1>7 DEF Distinct
  <2>2. QED
    BY <1>1, <1>4, <2>1
<1>8. QED
  BY <1>3, <1>6, <1>7 DEF u

\* A new application is counted, and its id is the new count.
LEMMA ApplyCounts ==
  ASSUME AppTypeOK, KnownIds, Apply
  PROVE  \E a : /\ data' = Append(data, a) /\ saved' = saved \union {a}
                /\ a.id = Cardinality(saved) + 1
                /\ a.id \notin Known
                /\ Cardinality(saved') = Cardinality(saved) + 1
<1>1. PICK ip \in Addresses, name \in Logins :
        LET a == [id |-> Cardinality(saved) + 1, ip |-> ip, login |-> name]
        IN  data' = Append(data, a) /\ saved' = saved \union {a}
  BY DEF Apply
<1> DEFINE a == [id |-> Cardinality(saved) + 1, ip |-> ip, login |-> name]
<1>2. a.id = Cardinality(saved) + 1
  OBVIOUS
<1>3. data' = Append(data, a) /\ saved' = saved \union {a}
  BY <1>1
<1> HIDE DEF a
<1>4. Cardinality(saved) \in Nat /\ IsFiniteSet(saved)
  BY FS_CardinalityType DEF AppTypeOK
<1>5. a.id \notin Known
  BY <1>2, <1>4 DEF KnownIds
<1>6. a \notin saved
  BY <1>5 DEF Known
<1>7. Cardinality(saved') = Cardinality(saved) + 1
  BY <1>3, <1>4, <1>6, FS_AddElement
<1>8. QED
  BY <1>2, <1>3, <1>5, <1>7

LEMMA KnownIdsHolds == AppSpec => []KnownIds
<1>1. AppInit => KnownIds
  <2>1. Ids(<<>>) = {}
    BY DEF Ids
  <2>2. QED
    BY <2>1 DEF AppInit, KnownIds, Known, Judging
<1>2. AppTypeOK /\ KnownIds /\ [AppNext]_appVars => KnownIds'
  <2> SUFFICES ASSUME AppTypeOK, KnownIds, [AppNext]_appVars PROVE KnownIds'
    OBVIOUS
  <2>1. ASSUME UNCHANGED <<data, next, log, saved, cur>>, Judging' => Judging
        PROVE  KnownIds'
    BY <2>1 DEF KnownIds, Known, Ids
  <2>2. CASE Apply
    <3>1. PICK a : /\ data' = Append(data, a) /\ saved' = saved \union {a}
                   /\ a.id = Cardinality(saved) + 1
                   /\ Cardinality(saved') = Cardinality(saved) + 1
      BY <2>2, ApplyCounts
    <3>2. Known' = Known \union {a.id}
      BY <3>1 DEF Known
    <3>3. Ids(data)' = Ids(data) \union {a.id}
      <4>1. Ids(Append(data, a)) = Ids(data) \union {a.id}
        BY AppendIds DEF AppTypeOK
      <4>2. QED
        BY <3>1, <4>1 DEF Ids
    <3>4. UNCHANGED <<next, log, cur, pc>>
      BY <2>2 DEF Apply, session
    <3>5. Cardinality(saved) \in Nat
      BY FS_CardinalityType DEF AppTypeOK
    <3>6. \A n \in Known' : n <= Cardinality(saved')
      <4>1. \A n \in Known : n \in Nat
        BY DEF Known, AppTypeOK, Application
      <4>2. QED
        BY <3>1, <3>2, <3>5, <4>1 DEF KnownIds
    <3>7. QED
      BY <3>2, <3>3, <3>4, <3>6 DEF KnownIds, Judging, Ids
  <2>3. CASE Read
    <3>1. pos + 1 \in DOMAIN data
      BY <2>3, LenProperties DEF Read, AppTypeOK
    <3>2. cur'.id \in Ids(data)
      BY <2>3, <3>1 DEF Read, Ids
    <3>3. UNCHANGED <<data, next, log, saved>>
      BY <2>3 DEF Read, world
    <3>4. QED
      BY <3>2, <3>3 DEF KnownIds, Known, Ids
  <2>4. CASE Skip \/ Email
    <3>1. Judging /\ ~Judging'
      BY <2>4 DEF Skip, Email, NextLine, Judging
    <3>2. next' = Append(next, cur) /\ UNCHANGED <<data, log, saved>>
      BY <2>4 DEF Skip, Email, Keep, world
    <3>3. Ids(next)' = Ids(next) \union {cur.id}
      <4>1. Ids(Append(next, cur)) = Ids(next) \union {cur.id}
        BY AppendIds DEF AppTypeOK
      <4>2. QED
        BY <3>2, <4>1 DEF Ids
    <3>4. QED
      BY <3>1, <3>2, <3>3 DEF KnownIds, Known, Ids
  <2>5. CASE Reject \/ Delete \/ LogAccept
    <3>1. Judging /\ ~Judging'
      BY <2>5 DEF Reject, Delete, LogAccept, NextLine, Judging
    <3>2. PICK k : log' = Append(log, [id |-> cur.id, kind |-> k])
      BY <2>5 DEF Reject, Delete, LogAccept
    <3>3. UNCHANGED <<data, next, saved>>
      BY <2>5 DEF Reject, Delete, LogAccept
    <3>4. Ids(log)' = Ids(log) \union {cur.id}
      <4> DEFINE e == [id |-> cur.id, kind |-> k]
      <4>1. e.id = cur.id
        OBVIOUS
      <4> HIDE DEF e
      <4>2. log' = Append(log, e)
        BY <3>2 DEF e
      <4>3. Ids(Append(log, e)) = Ids(log) \union {e.id}
        BY AppendIds DEF AppTypeOK
      <4>4. QED
        BY <4>1, <4>2, <4>3 DEF Ids
    <3>5. QED
      BY <3>1, <3>3, <3>4 DEF KnownIds, Known, Ids
  <2>6. CASE Write
    <3>1. PICK k \in 0 .. Len(data) :
            data' = next \o SubSeq(data, k + 1, Len(data))
      BY <2>6 DEF Write
    <3>2. Ids(data)' \subseteq Ids(next) \union Ids(data)
      <4> DEFINE rest == SubSeq(data, k + 1, Len(data))
      <4>1. rest \in Seq(Application) /\ Ids(rest) \subseteq Ids(data)
        BY RestIds DEF AppTypeOK
      <4> HIDE DEF rest
      <4>2. Ids(next \o rest) = Ids(next) \union Ids(rest)
        BY <4>1, ConcatIds DEF AppTypeOK
      <4>3. data' = next \o rest
        BY <3>1 DEF rest
      <4>4. Ids(data)' = Ids(next \o rest)
        BY <4>3 DEF Ids
      <4>5. QED
        BY <4>1, <4>2, <4>4
    <3>3. next' = <<>> /\ pc' = "idle" /\ UNCHANGED <<log, saved>>
      BY <2>6 DEF Write, EndSession
    <3>4. Ids(<<>>) = {}
      BY DEF Ids
    <3>5. QED
      BY <3>2, <3>3, <3>4 DEF KnownIds, Known, Judging, Ids
  <2>7. CASE Truncate \/ Kill
    <3>1. Ids(<<>>) = {}
      BY DEF Ids
    <3>2. /\ data' \in {data, <<>>} /\ next' \in {next, <<>>}
          /\ ~Judging' /\ UNCHANGED <<log, saved>>
      BY <2>7 DEF Truncate, Kill, EndSession, Judging
    <3>3. Ids(data)' \subseteq Ids(data) /\ Ids(next)' \subseteq Ids(next)
      BY <3>1, <3>2 DEF Ids
    <3>4. QED
      BY <3>2, <3>3 DEF KnownIds, Known, Ids
  <2>8. CASE Start \/ EndOfFile \/ Duplicate \/ Choose \/ ComposeFails
    BY <2>8, <2>1 DEF Start, EndOfFile, Duplicate, Choose, ComposeFails, world,
                      Judging
  <2>9. CASE Rename \/ Welcome \/ UserAdd \/ AddContact
    BY <2>9, <2>1 DEF Rename, Welcome, UserAdd, AddContact, world, Judging
  <2>10. CASE UNCHANGED appVars
    BY <2>10, <2>1 DEF appVars, session, world, Judging
  <2>11. QED
    BY <2>2, <2>3, <2>4, <2>5, <2>6, <2>7, <2>8, <2>9, <2>10
       DEF AppNext, Decide, Rest
<1>3. QED
  BY <1>1, <1>2, AppTypeCorrect, PTL DEF AppSpec
-----------------------------------------------------------------------------
\* The ids of the lines the session did not read, or will not.
Unread == {data[i].id : i \in {j \in DOMAIN data : pc = "write" \/ j > pos}}

\* What is unread, kept, decided and in the hands of the reviewer are four
\* disjoint sets of applications, each with one line for every application.
Apart ==
  /\ Distinct(data) /\ Distinct(next) /\ Distinct(log)
  /\ Unread \cap (Ids(next) \union Ids(log)) = {}
  /\ Ids(next) \cap Ids(log) = {}
  /\ Judging => cur.id \notin Unread \union Ids(next) \union Ids(log)
  /\ pc = "idle" => pos = 0

\* Without a kill, every step keeps them apart.
LEMMA ApartStep ==
  ASSUME AppTypeOK, KnownIds, Apart, [AppNext]_appVars, ~Kill
  PROVE  Apart'
<1>1. /\ Len(data) \in Nat /\ DOMAIN data = 1 .. Len(data) /\ pos \in Nat
      /\ pc # "write" => pos <= Len(data)
  BY LenProperties DEF AppTypeOK
<1>2. ASSUME UNCHANGED <<data, next, log, cur, pos>>, Judging' => Judging,
             pc # "write", pc' # "write", pc' = "idle" => pc = "idle"
      PROVE  Apart'
  <2>1. Unread' = Unread
    BY <1>2 DEF Unread
  <2>2. QED
    BY <1>2, <2>1 DEF Apart, Ids, Distinct
<1>3. CASE Apply
  <2>1. PICK a : data' = Append(data, a) /\ a.id \notin Known
    BY <1>3, ApplyCounts
  <2>2. UNCHANGED <<next, log, cur, pc, pos>>
    BY <1>3 DEF Apply, session
  <2>3. /\ DOMAIN data' = 1 .. Len(data) + 1
        /\ \A i \in 1 .. Len(data) : data'[i] = data[i]
        /\ data'[Len(data) + 1] = a
    BY <2>1, AppendMembers DEF AppTypeOK
  <2>4. Unread' \subseteq Unread \union {a.id}
    BY <1>1, <2>2, <2>3 DEF Unread
  <2>5. Distinct(Append(data, a))
    BY <2>1, AppendIds DEF AppTypeOK, Apart, KnownIds
  <2>6. Distinct(data)' /\ Distinct(next)' /\ Distinct(log)'
        /\ Ids(next)' = Ids(next) /\ Ids(log)' = Ids(log)
    BY <2>1, <2>2, <2>5 DEF Distinct, Ids, Apart
  <2>7. a.id \notin Ids(next) \union Ids(log) /\ (Judging => a.id # cur.id)
    BY <2>1 DEF KnownIds
  <2>8. QED
    BY <2>2, <2>4, <2>6, <2>7 DEF Apart, Judging
<1>4. CASE Read
  <2>1. /\ UNCHANGED <<data, next, log>> /\ pos' = pos + 1 /\ pos < Len(data)
        /\ cur' = data[pos + 1] /\ pc = "read" /\ pc' = "prompt"
    BY <1>4 DEF Read, world
  <2>2. pos + 1 \in DOMAIN data
    BY <1>1, <2>1
  <2>3. cur'.id \in Unread
    BY <1>1, <2>1, <2>2 DEF Unread
  <2>4. Unread' \subseteq Unread
    BY <1>1, <2>1 DEF Unread
  <2>5. cur'.id \notin Unread'
    BY <1>1, <2>1, <2>2 DEF Unread, Apart, Distinct
  <2>6. Ids(next)' = Ids(next) /\ Ids(log)' = Ids(log)
    BY <2>1 DEF Ids
  <2>7. Distinct(data)' /\ Distinct(next)' /\ Distinct(log)'
    BY <2>1 DEF Distinct, Apart
  <2>8. QED
    BY <2>1, <2>3, <2>4, <2>5, <2>6, <2>7 DEF Apart
<1>5. CASE Skip \/ Email
  <2>1. /\ Judging /\ ~Judging' /\ pc # "write" /\ pc' = "read"
        /\ next' = Append(next, cur) /\ UNCHANGED <<data, log, pos>>
    BY <1>5 DEF Skip, Email, Keep, NextLine, world, Judging
  <2>2. Ids(next)' = Ids(next) \union {cur.id} /\ Distinct(next)'
    <3>1. Ids(Append(next, cur)) = Ids(next) \union {cur.id}
          /\ Distinct(Append(next, cur))
      BY <2>1, AppendIds DEF AppTypeOK, Apart
    <3>2. QED
      BY <2>1, <3>1 DEF Ids, Distinct
  <2>3. Unread' = Unread /\ Ids(log)' = Ids(log) /\ Distinct(data)' /\ Distinct(log)'
    BY <2>1 DEF Unread, Ids, Distinct, Apart
  <2>4. QED
    BY <2>1, <2>2, <2>3 DEF Apart
<1>6. CASE Reject \/ Delete \/ LogAccept
  <2>1. /\ Judging /\ ~Judging' /\ pc # "write" /\ pc' = "read"
        /\ UNCHANGED <<data, next, pos>>
    BY <1>6 DEF Reject, Delete, LogAccept, NextLine, Judging
  <2>2. PICK e : log' = Append(log, e) /\ e.id = cur.id
    BY <1>6 DEF Reject, Delete, LogAccept
  <2>3. Ids(log)' = Ids(log) \union {cur.id} /\ Distinct(log)'
    <3>1. Ids(Append(log, e)) = Ids(log) \union {e.id} /\ Distinct(Append(log, e))
      BY <2>1, <2>2, AppendIds DEF AppTypeOK, Apart
    <3>2. QED
      BY <2>2, <3>1 DEF Ids, Distinct
  <2>4. Unread' = Unread /\ Ids(next)' = Ids(next)
        /\ Distinct(data)' /\ Distinct(next)'
    BY <2>1 DEF Unread, Ids, Distinct, Apart
  <2>5. QED
    BY <2>1, <2>3, <2>4 DEF Apart
<1>7. Ids(<<>>) = {} /\ Distinct(<<>>)
  BY DEF Ids, Distinct
<1>8. CASE Truncate
  <2>1. /\ data' = <<>> /\ UNCHANGED <<next, log>>
        /\ pc' = "write" /\ ~Judging'
    BY <1>8 DEF Truncate, Judging
  <2>2. Unread' = {} /\ Distinct(data)'
    BY <2>1, <1>7 DEF Unread, Distinct
  <2>3. QED
    BY <2>1, <2>2 DEF Apart, Ids, Distinct
<1>9. CASE Write
  <2>1. /\ next' = <<>> /\ log' = log /\ pc = "write" /\ pc' = "idle"
        /\ pos' = 0 /\ ~Judging'
    BY <1>9 DEF Write, EndSession, Judging
  <2>2. PICK k \in 0 .. Len(data) :
          data' = next \o SubSeq(data, k + 1, Len(data))
    BY <1>9 DEF Write
  <2> DEFINE rest == SubSeq(data, k + 1, Len(data))
  <2>3. rest \in Seq(Application) /\ Ids(rest) \subseteq Ids(data) /\ Distinct(rest)
    BY RestIds DEF AppTypeOK, Apart
  <2> HIDE DEF rest
  <2>4. Ids(data) = Unread
    BY <2>1 DEF Unread, Ids
  <2>5. Ids(next \o rest) = Ids(next) \union Ids(rest) /\ Distinct(next \o rest)
    BY <2>3, <2>4, ConcatIds DEF AppTypeOK, Apart
  <2>6. data' = next \o rest
    BY <2>2 DEF rest
  <2>7. Ids(data)' \subseteq Ids(next) \union Unread /\ Distinct(data)'
    <3>1. Ids(data)' = Ids(next \o rest)
      BY <2>6 DEF Ids
    <3>2. Distinct(next \o rest) => Distinct(data)'
      BY <2>6 DEF Distinct
    <3>3. QED
      BY <2>3, <2>4, <2>5, <3>1, <3>2
  <2>8. Unread' \subseteq Ids(data)'
    BY DEF Unread, Ids
  <2>9. Ids(next)' = {} /\ Distinct(next)' /\ Ids(log)' = Ids(log) /\ Distinct(log)'
    BY <1>7, <2>1 DEF Ids, Distinct, Apart
  <2>10. QED
    BY <2>1, <2>7, <2>8, <2>9 DEF Apart
<1>10. CASE Start \/ EndOfFile \/ Duplicate \/ Choose \/ ComposeFails
  BY <1>10, <1>2 DEF Start, EndOfFile, Duplicate, Choose, ComposeFails, world,
                     Judging
<1>11. CASE Rename \/ Welcome \/ UserAdd \/ AddContact
  BY <1>11, <1>2 DEF Rename, Welcome, UserAdd, AddContact, world, Judging
<1>12. CASE UNCHANGED appVars
  <2>1. UNCHANGED <<data, next, log, cur, pos, pc>>
    BY <1>12 DEF appVars, session, world
  <2>2. QED
    BY <2>1 DEF Apart, Unread, Ids, Distinct, Judging
<1>13. QED
  BY <1>3, <1>4, <1>5, <1>6, <1>8, <1>9, <1>10, <1>11, <1>12
     DEF AppNext, Decide, Rest

\* As long as no session is killed, every application is decided at most once
\* and is not shown again, whoever applies meanwhile (decide 176-283).
THEOREM DecidedOnceHolds == AppSpec => []DecidedOnce
<1> DEFINE Joint == kills = 0 => Apart
<1>1. AppInit => Joint
  <2>1. Ids(<<>>) = {} /\ Distinct(<<>>) /\ DOMAIN <<>> = {}
    BY DEF Ids, Distinct
  <2>2. QED
    BY <2>1 DEF AppInit, Apart, Unread, Judging
<1>2. AppTypeOK /\ KnownIds /\ Joint /\ [AppNext]_appVars => Joint'
  <2> SUFFICES ASSUME AppTypeOK, KnownIds, Joint, [AppNext]_appVars, kills' = 0 PROVE Apart'
    OBVIOUS
  <2>1. ~Kill
    BY DEF Kill, AppTypeOK
  <2>2. kills = 0
    BY <2>1 DEF AppNext, Decide, Rest, appVars, session, world, Apply, Start, Read,
       EndOfFile, Duplicate, Choose, Rename, Skip, ComposeFails, Welcome, Reject,
       Email, Delete, UserAdd, AddContact, LogAccept, Truncate, Write
  <2>3. QED
    BY <2>1, <2>2, ApartStep
<1>3. AppTypeOK /\ Joint => DecidedOnce
  <2> SUFFICES ASSUME AppTypeOK, Apart PROVE DecidedOnce
    BY DEF DecidedOnce
  <2>1. ASSUME pc = "idle", NEW a \in ToSet(data) PROVE ~Decided(a)
    <3>1. PICK i \in DOMAIN data : data[i] = a
      BY <2>1 DEF ToSet
    <3>2. i > 0
      BY LenProperties DEF AppTypeOK
    <3>3. a.id \in Unread
      BY <2>1, <3>1, <3>2 DEF Apart, Unread
    <3>4. a.id \notin Ids(log)
      BY <3>3 DEF Apart
    <3>5. QED
      BY <3>4 DEF Decided, Ids
  <2>2. QED
    BY <2>1 DEF DecidedOnce, Apart, Distinct
<1>4. QED
  BY <1>1, <1>2, <1>3, AppTypeCorrect, KnownIdsHolds, PTL DEF AppSpec
=============================================================================
