----------------------------- MODULE MCMachine -----------------------------
(***************************************************************************)
(* Small instances of Machine: a file at home, one elsewhere and one that  *)
(* encryptfs passes over, and the tasks of etc/init.json in the order      *)
(* sbin/init runs them.                                                    *)
(***************************************************************************)
EXTENDS Machine

Order == INSTANCE InitOrder

CONSTANTS diary, page, key

MCFiles == {diary, page, key}
MCHomes == {diary, key}
MCDiary == {diary}
MCKey == {key}
MCNone == {}
MCBootOrder == Order!RunOrder("boot")
MCHaltOrder == Order!RunOrder("halt")
MCBoth == BOOLEAN
MCInPlace == {FALSE}
MCFresh == {TRUE}
MCFaultyDecrypt == {"gpg -d", "setfacl"}
MCFaultyEncrypt == {"gpg -e"}
-----------------------------------------------------------------------------
\* "priority": 9 for startcron and 10 for rc (etc/init.json 77 and 84): a task
\* waits for those with a lower number.
RunsInPriorityOrder ==
  \A s, t \in Order!Tasks :
    /\ s.context = "boot" /\ t.context = "boot" /\ phase = "boot"
    /\ Order!Priority(s) < Order!Priority(t)
    /\ \E i \in DOMAIN todo : todo[i] = s.id
    => \E i \in DOMAIN todo : todo[i] = t.id
=============================================================================
