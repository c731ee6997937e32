------------------------------ MODULE InitOrder ------------------------------
(***************************************************************************)
(* The tasks of etc/init.json and the order in which sbin/init runs them:  *)
(* lines "priority:process" go through "sort -u", which compares them as   *)
(* text.                                                                   *)
(***************************************************************************)
EXTENDS Naturals, Sequences, FiniteSets, SequencesExt

Task(id, digits, context) == [id |-> id, digits |-> digits, context |-> context]

Tasks == {
  Task("fsck", <<0>>, "boot"), Task("launch", <<1>>, "boot"),
  Task("lockfs", <<2>>, "boot"), Task("creategroups", <<3>>, "boot"),
  Task("createusers", <<4>>, "boot"), Task("modusers", <<5>>, "boot"),
  Task("loadmeta", <<6>>, "boot"), Task("decryptfs", <<7>>, "boot"),
  Task("securefs", <<8>>, "boot"), Task("startcron", <<9>>, "boot"),
  Task("rc", <<1, 0>>, "boot"),
  Task("savemeta", <<0>>, "halt"), Task("savegroups", <<1>>, "halt"),
  Task("saveusers", <<2>>, "halt"), Task("encryptfs", <<3>>, "halt"),
  Task("releasefs", <<4>>, "halt")}

\* The text "sort" sees: the digits and a colon, which sorts after them.
Colon == 10
Key(task) == Append(task.digits, Colon)

ComesFirst(a, b) ==
  \E i \in DOMAIN Key(a) \intersect DOMAIN Key(b) :
    /\ SubSeq(Key(a), 1, i - 1) = SubSeq(Key(b), 1, i - 1)
    /\ Key(a)[i] < Key(b)[i]

\* What init runs for one context, in this order.
RunOrder(context) ==
  LET tasks == {t \in Tasks : t.context = context}
      earlier(t) == {u \in tasks : ComesFirst(u, t)}
  IN  [i \in 1 .. Cardinality(tasks) |->
         (CHOOSE t \in tasks : Cardinality(earlier(t)) = i - 1).id]

\* The priority of a task as a number.
Priority(task) == FoldLeft(LAMBDA n, digit : 10 * n + digit, 0, task.digits)
=============================================================================
