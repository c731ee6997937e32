---------------------------- MODULE Applications ----------------------------
(***************************************************************************)
(* Applications for membership.  home/guest/apply appends a line to a file *)
(* for everybody who applies; home/server/bin/decide walks through that    *)
(* file with a reviewer, line by line, mails, creates accounts, and at the *)
(* end replaces the file by the lines that are still undecided.  People go *)
(* on applying while the reviewer thinks, and the session may be killed at *)
(* any step.  One session runs at a time.                                  *)
(***************************************************************************)
EXTENDS Naturals, Sequences, FiniteSets, SequencesExt

CONSTANTS
  Addresses,         \* the IP addresses people apply from
  Logins,            \* the user names they ask for
  MaxApplications,   \* bound: how many people apply
  MaxSessions,       \* bound: how many sessions are started
  MaxKills           \* bound: how many sessions are killed

ASSUME ApplicationsAssumption ==
  /\ MaxApplications \in Nat /\ MaxSessions \in Nat /\ MaxKills \in Nat

VARIABLES
  data,       \* ~guest/apply/data, as a sequence of applications
  log,        \* ~/log/decide, as a sequence of decisions
  accounts,   \* the accounts that useradd created
  contacts,   \* the logins etc/contact.json has an address for
  pc,         \* what the session does next
  pos,        \* how many lines it has read
  cur,        \* LINE
  login,      \* USERLOGIN
  next,       \* NEXT
  seen,       \* SEEN
  ff,         \* FF: the reviewer quit, the rest is kept
  saved,      \* history: the applications that were answered "saved!"
  mails,      \* history: the mails that welcomed somebody
  reads,      \* history: how many lines were read; identifies a password
  sessions, kills

session == <<pc, pos, cur, login, next, seen, ff, reads>>
world == <<data, log, accounts, contacts, saved, mails, sessions, kills>>
appVars == <<session, world>>

Application == [id : 1 .. MaxApplications, ip : Addresses, login : Logins]
NoOne == [id |-> 0]
Kinds == {"accept", "reject", "delete"}
Steps == {"idle", "read", "prompt", "accept", "reject", "email", "useradd",
          "contacts", "log", "delete", "truncate", "write"}

Goto(from, to) == pc = from /\ pc' = to

\* What the process knows goes with it.
EndSession ==
  /\ pc' = "idle" /\ pos' = 0 /\ cur' = NoOne /\ login' = ""
  /\ next' = <<>> /\ seen' = {} /\ ff' = FALSE

AppInit ==
  /\ data = <<>> /\ log = <<>> /\ accounts = {} /\ contacts = {}
  /\ pc = "idle" /\ pos = 0 /\ cur = NoOne /\ login = ""
  /\ next = <<>> /\ seen = {} /\ ff = FALSE
  /\ saved = {} /\ mails = {} /\ reads = 0
  /\ sessions = 0 /\ kills = 0
-----------------------------------------------------------------------------
\* apply: one line is appended, whatever decide does.
Apply ==
  /\ Cardinality(saved) < MaxApplications
  /\ \E ip \in Addresses, name \in Logins :
       LET a == [id |-> Cardinality(saved) + 1, ip |-> ip, login |-> name]
       IN  /\ data' = Append(data, a)
           /\ saved' = saved \union {a}
  /\ UNCHANGED <<session, log, accounts, contacts, mails, sessions, kills>>

Start ==
  /\ sessions < MaxSessions
  /\ sessions' = sessions + 1
  /\ Goto("idle", "read")
  /\ UNCHANGED <<pos, cur, login, next, seen, ff, reads, data, log, accounts,
                 contacts, saved, mails, kills>>

\* "read -u 3": the next line of the file as it is now, or the end of it.  A
\* password is made for every line.
Read ==
  /\ pos < Len(data)
  /\ Goto("read", "prompt")
  /\ pos' = pos + 1
  /\ cur' = data[pos + 1]
  /\ login' = data[pos + 1].login
  /\ reads' = reads + 1
  /\ UNCHANGED <<next, seen, ff, world>>

EndOfFile ==
  /\ pos = Len(data)
  /\ Goto("read", "truncate")
  /\ UNCHANGED <<pos, cur, login, next, seen, ff, reads, world>>

\* The end of an iteration: the address counts as seen.
NextLine(from) ==
  /\ Goto(from, "read")
  /\ seen' = seen \union {cur.ip}
  /\ UNCHANGED <<pos, cur, login, reads>>

\* A line that is kept for the next session.
Keep == next' = Append(next, cur)

\* An address that was seen makes the line a duplicate: it is deleted if the
\* reviewer confirms, and judged like any other if not.
Duplicate ==
  /\ pc = "prompt" /\ ~ff /\ cur.ip \in seen
  /\ Goto("prompt", "delete") \/ Goto("prompt", "prompt")
  /\ seen' = seen \ {cur.ip}
  /\ UNCHANGED <<pos, cur, login, next, ff, reads, world>>

\* (a)ccept, (r)eject, (d)elete, (e)mail, confirmed.
Choose ==
  /\ pc = "prompt" /\ ~ff /\ cur.ip \notin seen
  /\ \E to \in {"accept", "reject", "delete", "email"} : Goto("prompt", to)
  /\ UNCHANGED <<pos, cur, login, next, seen, ff, reads, world>>

\* (u)sername: another login, and the choice again.
Rename ==
  /\ pc = "prompt" /\ ~ff /\ cur.ip \notin seen
  /\ \E name \in Logins \ {login} : login' = name
  /\ UNCHANGED <<pc, pos, cur, next, seen, ff, reads, world>>

\* Variant: a skipped line is not kept.
SkipForgets ==
  /\ pc = "prompt" /\ (ff \/ cur.ip \notin seen)
  /\ NextLine("prompt")
  /\ ff' \in {ff, TRUE}
  /\ UNCHANGED <<next, world>>

\* (s)kip, (q)uit, or a line after the reviewer quit.
Skip ==
  /\ pc = "prompt" /\ (ff \/ cur.ip \notin seen)
  /\ NextLine("prompt")
  /\ Keep
  /\ ff' \in {ff, TRUE}
  /\ UNCHANGED world
-----------------------------------------------------------------------------
\* Variant: "continue" in the function does not reach the loop of its caller.
ComposeFailsUnheeded ==
  /\ \/ Goto("accept", "useradd")
     \/ \E from \in {"reject", "email"} : Goto(from, "prompt")
  /\ UNCHANGED <<pos, cur, login, next, seen, ff, reads, world>>

\* compose_email_or_retry gives up: the reviewer is asked again.
ComposeFails ==
  /\ \E from \in {"accept", "reject", "email"} : Goto(from, "prompt")
  /\ UNCHANGED <<pos, cur, login, next, seen, ff, reads, world>>

\* The welcome mail leaves, with the login and the password of the line.
Welcome ==
  /\ Goto("accept", "useradd")
  /\ mails' = mails \union {[to |-> cur.id, login |-> login, password |-> reads]}
  /\ UNCHANGED <<pos, cur, login, next, seen, ff, reads, data, log, accounts,
                 contacts, saved, sessions, kills>>

\* Variant: a rejected line is kept.
RejectKeeps ==
  /\ NextLine("reject")
  /\ Keep
  /\ log' = Append(log, [id |-> cur.id, kind |-> "reject"])
  /\ UNCHANGED <<ff, data, accounts, contacts, saved, mails, sessions, kills>>

\* A rejection is logged at once, and the line is dropped.
Reject ==
  /\ NextLine("reject")
  /\ log' = Append(log, [id |-> cur.id, kind |-> "reject"])
  /\ UNCHANGED <<next, ff, data, accounts, contacts, saved, mails, sessions, kills>>

\* A mail in between keeps the line.
Email ==
  /\ NextLine("email")
  /\ Keep
  /\ UNCHANGED <<ff, data, log, accounts, contacts, saved, mails, sessions, kills>>

Delete ==
  /\ NextLine("delete")
  /\ log' = Append(log, [id |-> cur.id, kind |-> "delete"])
  /\ UNCHANGED <<next, ff, data, accounts, contacts, saved, mails, sessions, kills>>

Exists(name) == \E a \in accounts : a.login = name

\* Variant: "continue" in the function does not reach the loop of its caller.
UserAddUnheeded ==
  /\ Goto("useradd", "contacts")
  /\ accounts' = IF Exists(login) THEN accounts ELSE accounts \union
                    {[login |-> login, id |-> cur.id, password |-> reads]}
  /\ UNCHANGED <<pos, cur, login, next, seen, ff, reads, data, log, contacts,
                 saved, mails, sessions, kills>>

\* useradd, after the mail: a login that exists makes it fail, and the reviewer
\* is asked again.
UserAdd ==
  /\ IF Exists(login)
     THEN Goto("useradd", "prompt") /\ UNCHANGED accounts
     ELSE /\ Goto("useradd", "contacts")
          /\ accounts' = accounts \union
               {[login |-> login, id |-> cur.id, password |-> reads]}
  /\ UNCHANGED <<pos, cur, login, next, seen, ff, reads, data, log, contacts,
                 saved, mails, sessions, kills>>

AddContact ==
  /\ Goto("contacts", "log")
  /\ contacts' = contacts \union {login}
  /\ UNCHANGED <<pos, cur, login, next, seen, ff, reads, data, log, accounts,
                 saved, mails, sessions, kills>>

LogAccept ==
  /\ NextLine("log")
  /\ log' = Append(log, [id |-> cur.id, kind |-> "accept"])
  /\ UNCHANGED <<next, ff, data, accounts, contacts, saved, mails, sessions, kills>>
-----------------------------------------------------------------------------
\* "> $DATA", which empties the file, and the lines that stay.
Truncate ==
  /\ Goto("truncate", "write")
  /\ data' = <<>>
  /\ UNCHANGED <<pos, cur, login, next, seen, ff, reads, log, accounts, contacts,
                 saved, mails, sessions, kills>>

\* The lines are written from the start of the file: over the first lines that
\* were appended since it was emptied, of which the last may be cut in two.
Write ==
  /\ pc = "write"
  /\ EndSession
  /\ \E k \in 0 .. Len(data) :
       /\ k = 0 => data = <<>>
       /\ data' = next \o SubSeq(data, k + 1, Len(data))
  /\ UNCHANGED <<reads, log, accounts, contacts, saved, mails, sessions, kills>>

\* A session that dies while it rewrites contact.json leaves it empty.
Kill ==
  /\ kills < MaxKills
  /\ kills' = kills + 1
  /\ pc # "idle"
  /\ EndSession
  /\ contacts' \in {contacts} \union (IF pc = "contacts" THEN {{}} ELSE {})
  /\ UNCHANGED <<reads, data, log, accounts, saved, mails, sessions>>

Decide ==
  \/ Start \/ Read \/ EndOfFile \/ Duplicate \/ Choose \/ Rename \/ Skip
  \/ ComposeFails \/ Welcome \/ Reject \/ Email \/ Delete \/ UserAdd \/ AddContact
  \/ LogAccept \/ Truncate \/ Write

\* Nobody applies and nobody decides.
Rest == pc = "idle" /\ UNCHANGED appVars

AppNext == Apply \/ Decide \/ Kill \/ Rest

AppSpec == AppInit /\ [][AppNext]_appVars
-----------------------------------------------------------------------------
\* A line is in the hands of the reviewer.
Judging == pc \notin {"idle", "read", "truncate", "write"}

AppTypeOK ==
  /\ data \in Seq(Application) /\ next \in Seq(Application)
  /\ log \in Seq([id : 1 .. MaxApplications, kind : Kinds])
  /\ accounts \subseteq [login : Logins, id : 1 .. MaxApplications,
                        password : 1 .. reads]
  /\ contacts \subseteq Logins
  /\ pc \in Steps
  /\ pos \in Nat /\ (pc # "write" => pos <= Len(data))
  /\ Judging => cur \in Application /\ login \in Logins /\ reads > 0
  /\ seen \subseteq Addresses
  /\ ff \in BOOLEAN
  /\ saved \subseteq Application /\ IsFiniteSet(saved)
  /\ reads \in Nat /\ kills \in 0 .. MaxKills /\ sessions \in 0 .. MaxSessions

Decided(a) == \E i \in DOMAIN log : log[i].id = a.id

\* Where an application can be found.
Kept(a) ==
  \/ a \in ToSet(data) \/ Decided(a)
  \/ pc = "write" /\ a \in ToSet(next)

\* What was appended since the session came to the end of the file.
AfterTheEnd ==
  CASE pc = "truncate" -> ToSet(SubSeq(data, pos + 1, Len(data)))
    [] pc = "write"    -> ToSet(data)
    [] OTHER           -> {}

\* No step loses an application, but the rewrite those that came in since the
\* end of the file was read, or a session that is killed within the rewrite
\* (apply 98, decide 230-283).
LostOnlyByRewrite ==
  [][\A a \in saved :
       Kept(a) /\ ~Kept(a)' => \/ a \in AfterTheEnd
                               \/ pc = "write" /\ kills' > kills]_appVars

\* "Your request has been saved!" (apply 47): it is kept from then on.
SavedIsKept == \A a \in saved : Kept(a)

\* As long as no session is killed, an application is decided once, and is not
\* shown to the reviewer again (decide 230-283).
DecidedOnce ==
  kills = 0 =>
    /\ \A i, j \in DOMAIN log : log[i].id = log[j].id => i = j
    /\ pc = "idle" => \A a \in ToSet(data) : ~Decided(a)

\* The password of an account was mailed to the one who applied, together with
\* its login, whatever failed, was renamed or was killed on the way (decide
\* 103-163 and 232-235).
WelcomeOpensAccount ==
  \A a \in accounts :
    [to |-> a.id, login |-> a.login, password |-> a.password] \in mails

\* Who was accepted according to the log has an account; one of them can be
\* reached at a login of etc/contact.json unless a session was killed.
AcceptedHaveAccounts ==
  \A i \in DOMAIN log :
    log[i].kind = "accept" =>
      \E a \in accounts :
        a.id = log[i].id /\ (kills = 0 => a.login \in contacts)
=============================================================================
