------------------------------ MODULE Announce ------------------------------
(***************************************************************************)
(* The announce tool: the CGI program var/www/announce/index.cgi and the   *)
(* cron job dispatch, over lib.js.  Every invocation is a process that     *)
(* reads database.json, only then tries the lock (and goes on without it), *)
(* changes its copy, rewrites the file and removes the lock.  Mail leaves  *)
(* while dispatch works on its copy.  A process that goes back to "idle"   *)
(* has ended; its slot stands for the next invocation.                     *)
(***************************************************************************)
EXTENDS Reputation, Sequences, FiniteSets, FiniteSetsExt, SequencesExt

CONSTANTS
  Users,       \* the accounts of etc/passwd.json
  Authors,     \* the users who post announcements, subscribe and vote
  Topics,      \* the topics a user can subscribe to; "general" is one
  Procs,       \* slots of concurrently running processes
  StartGood,   \* the good votes every author starts with
  Torn,        \* content of a file that was truncated and not yet rewritten
  Kinds,       \* bound: the requests that are made
  MaxWeb,      \* bound: how many web requests are made
  MaxMail,     \* bound: no dispatch starts after that many mails were tried
  MaxLost,     \* bound: how many mails fail
  MaxClock,    \* bound: how often a cool-down passes
  MaxKills,    \* bound: how many processes are killed
  MaxFaults    \* bound: how many writes of database.json fail

ASSUME AnnounceAssumption ==
  /\ Authors \subseteq Users
  /\ IsFiniteSet(Users)
  /\ "general" \in Topics
  /\ StartGood \in 0 .. MaxVotes
  /\ MaxWeb \in Nat /\ MaxMail \in Nat /\ MaxLost \in Nat
  /\ MaxClock \in Nat /\ MaxKills \in Nat /\ MaxFaults \in Nat

VARIABLES
  file,       \* content of database.json
  lockFile,   \* whether announce.lock exists
  pc,         \* next step of each process
  job,        \* what each process was started for
  db,         \* the copy each process parsed and changes
  dirty,      \* scope.dirty of each process
  held,       \* the lock table of each process names announce.lock
  cursor,     \* the index forEach has reached in a dispatch
  clock,      \* time, in units of the cool-down
  sent,       \* history: the mails that were tried, in order
  votes,      \* history: how often each token was answered "saved!"
  promised,   \* history: how many announcements were answered "queued!"
  web, kills, faults

vars == <<file, lockFile, pc, job, db, dirty, held, cursor, clock, sent, votes,
          promised, web, kills, faults>>

TTL == 3        \* lib.ttl
CoolDown == 1   \* lib.coolDown, in units of clock

Steps == {"idle", "lock", "handle", "dispatch", "truncate", "write", "unlock",
          "exit"}

\* The two links of the k-th mail.
Token == [mail : 1 .. Len(sent), user : Users, good : BOOLEAN]
TokensOf(k, u) == [mail : {k}, user : {u}, good : BOOLEAN]

NoTask == [kind |-> "none"]
-----------------------------------------------------------------------------
\* lib.js, the model: functions of a copy of the database.

ScoreOf(d, u) == Score[d.good[u], d.bad[u]]

\* What JavaScript makes of an array in a condition, be it empty.
Truthy(array) == TRUE

\* targetUsers: "in" tests the indices of the list of topics, never its names,
\* and the intersection is an array.
TargetUsers(d, topics) ==
  {u \in Users : d.topics[u] = {} \/ Truthy(topics \cap d.topics[u])}

\* Variant: those who got the mail are not left out.
SamplesAgain(d, task) ==
  LET candidates == TargetUsers(d, d.announcements[task.id].topics)
  IN  kSubset(SampleSize(Cardinality(candidates), task.score), candidates)

\* chooseByScore: a random sample of those who did not get the mail yet.
Samples(d, task) ==
  LET candidates == TargetUsers(d, d.announcements[task.id].topics) \ task.users
      size == SampleSize(Cardinality(candidates), task.score)
  IN  kSubset(size, candidates)

\* Variant: the time since the last announcement is not looked at.
NeverCoolingDown(d, u) == FALSE

\* lastAnnounce and the cool-down of handleAnnounce.
CoolingDown(d, u) ==
  \E i \in DOMAIN d.announcements :
    d.announcements[i].user = u /\ clock - d.announcements[i].at < CoolDown

\* Variant: the task is queued without its author among the recipients.
WithAnnouncementToAll(d, u, topics) ==
  LET id == Len(d.announcements) + 1
  IN  [d EXCEPT
        !.announcements = Append(@, [user |-> u, topics |-> topics, at |-> clock]),
        !.spool = Append(@, [id |-> id, ttl |-> TTL, score |-> ScoreOf(d, u),
                             users |-> {}])]

\* setAnnounce and queueAnnounce; the id is the length of the list.
WithAnnouncement(d, u, topics) ==
  LET id == Len(d.announcements) + 1
  IN  [d EXCEPT
        !.announcements = Append(@, [user |-> u, topics |-> topics, at |-> clock]),
        !.spool = Append(@, [id |-> id, ttl |-> TTL, score |-> ScoreOf(d, u),
                             users |-> {u}])]

\* Variant: the token is read and not popped.
WithVoteKept(d, token) ==
  IF token.good THEN [d EXCEPT !.good[token.user] = @ + 1]
                ELSE [d EXCEPT !.bad[token.user] = @ + 1]

\* popToken and handleVote.
WithVote(d, token) ==
  LET popped == [d EXCEPT !.tokens = @ \ {token}]
  IN  IF token.good THEN [popped EXCEPT !.good[token.user] = @ + 1]
                    ELSE [popped EXCEPT !.bad[token.user] = @ + 1]

\* Variant: the mails of a broadcast are not added to the total.
WithBroadcastUncounted(d, i, rcpt) ==
  LET author == d.announcements[d.spool[i].id].user
      new == (Len(sent) + 1) .. (Len(sent) + Cardinality(rcpt))
  IN  [d EXCEPT !.tokens = @ \union UNION {TokensOf(k, author) : k \in new},
                !.spool[i].users = @ \union rcpt]

\* A broadcast of the task at index i to rcpt: two tokens for every mail, the
\* total of the author, and the recipients of the task.
WithBroadcast(d, i, rcpt) ==
  LET author == d.announcements[d.spool[i].id].user
      new == (Len(sent) + 1) .. (Len(sent) + Cardinality(rcpt))
  IN  [d EXCEPT !.tokens = @ \union UNION {TokensOf(k, author) : k \in new},
                !.total[author] = @ + Cardinality(rcpt),
                !.spool[i].users = @ \union rcpt]
-----------------------------------------------------------------------------
Empty == [good |-> [u \in Users |-> IF u \in Authors THEN StartGood ELSE 0],
          bad |-> [u \in Users |-> 0],
          total |-> [u \in Users |-> 0],
          topics |-> [u \in Users |-> {"general"}],
          tokens |-> {}, announcements |-> <<>>, spool |-> <<>>]

Init ==
  /\ file = Empty
  /\ lockFile = FALSE
  /\ pc = [p \in Procs |-> "idle"]
  /\ job = [p \in Procs |-> NoTask]
  /\ db = [p \in Procs |-> Empty]
  /\ dirty = [p \in Procs |-> FALSE]
  /\ held = [p \in Procs |-> FALSE]
  /\ cursor = [p \in Procs |-> 1]
  /\ clock = 0
  /\ sent = <<>>
  /\ votes = <<>>
  /\ promised = 0
  /\ web = 0 /\ kills = 0 /\ faults = 0

Goto(p, from, to) == pc[p] = from /\ pc' = [pc EXCEPT ![p] = to]

\* The requests the page answers.  A vote carries any token of a mail that left.
Requests ==
  {[kind |-> "view"], [kind |-> "unknown"]}
    \union [kind : {"announce"}, user : Authors, topics : SUBSET Topics \ {{}}]
    \union [kind : {"save_topics"}, user : Authors, topics : SUBSET Topics]
    \union [kind : {"vote"}, token : {t \in Token : /\ t.user = sent[t.mail].user
                                                  /\ sent[t.mail].left}]

\* main of index.cgi up to the lock: require(lib.dbPath).  A torn file throws,
\* and the process ends without an answer.
BeginWeb(p) ==
  /\ web < MaxWeb
  /\ web' = web + 1
  /\ pc[p] = "idle"
  /\ IF file = Torn THEN UNCHANGED <<pc, job, db>>
     ELSE \E q \in Requests :
            /\ q.kind \in Kinds
            /\ Goto(p, "idle", "lock")
            /\ job' = [job EXCEPT ![p] = q]
            /\ db' = [db EXCEPT ![p] = file]
  /\ dirty' = [dirty EXCEPT ![p] = FALSE]
  /\ UNCHANGED <<file, lockFile, held, cursor, clock, sent, votes, promised,
                 kills, faults>>

\* main of dispatch: the queue is processed before the lock is tried.
BeginDispatch(p) ==
  /\ "dispatch" \in Kinds
  /\ Len(sent) < MaxMail
  /\ file # Torn
  /\ Goto(p, "idle", "dispatch")
  /\ job' = [job EXCEPT ![p] = [kind |-> "dispatch"]]
  /\ db' = [db EXCEPT ![p] = file]
  /\ dirty' = [dirty EXCEPT ![p] = TRUE]
  /\ cursor' = [cursor EXCEPT ![p] = 1]
  /\ UNCHANGED <<file, lockFile, held, clock, sent, votes, promised, web, kills,
                 faults>>

\* lockDatabase: whether lockSync threw is not looked at.
Lock(p) ==
  /\ pc[p] = "lock"
  /\ pc' = [pc EXCEPT ![p] = IF job[p].kind = "dispatch" THEN "truncate"
                                                         ELSE "handle"]
  /\ lockFile' = TRUE
  /\ held' = [held EXCEPT ![p] = ~lockFile]
  /\ UNCHANGED <<file, job, db, dirty, cursor, clock, sent, votes, promised, web,
                 kills, faults>>

\* What finish does next: write if dirty, then unlock.
Finish(p, isDirty) ==
  /\ Goto(p, "handle", IF isDirty THEN "truncate" ELSE "unlock")
  /\ dirty' = [dirty EXCEPT ![p] = isDirty]

\* A page is shown and nothing changed.
HandleView(p) ==
  /\ job[p].kind = "view"
  /\ Finish(p, FALSE)
  /\ UNCHANGED <<file, lockFile, job, db, held, cursor, clock, sent, votes,
                 promised, web, kills, faults>>

\* A task the switch of handlePost does not know: no callback, no answer.
HandleUnknown(p) ==
  /\ job[p].kind = "unknown"
  /\ Goto(p, "handle", "exit")
  /\ UNCHANGED <<file, lockFile, job, db, dirty, held, cursor, clock, sent,
                 votes, promised, web, kills, faults>>

\* handleToken: the token is popped, and the vote counts if it was there.  The
\* database is rewritten in both cases.
HandleVote(p) ==
  /\ job[p].kind = "vote"
  /\ LET t == job[p].token
     IN  IF t \in db[p].tokens
         THEN /\ db' = [db EXCEPT ![p] = WithVote(@, t)]
              /\ votes' = Append(votes, t)
         ELSE UNCHANGED <<db, votes>>
  /\ Finish(p, TRUE)
  /\ UNCHANGED <<file, lockFile, job, held, cursor, clock, sent, promised, web,
                 kills, faults>>

\* handleAnnounce, for a well-formed message.
HandleAnnounce(p) ==
  /\ job[p].kind = "announce"
  /\ IF CoolingDown(db[p], job[p].user)
     THEN Finish(p, FALSE) /\ UNCHANGED <<db, promised>>
     ELSE /\ Finish(p, TRUE)
          /\ db' = [db EXCEPT
                     ![p] = WithAnnouncement(@, job[p].user, job[p].topics)]
          /\ promised' = promised + 1
  /\ UNCHANGED <<file, lockFile, job, held, cursor, clock, sent, votes, web,
                 kills, faults>>

\* handleSaveTopics; an empty list is invalid, changes the copy and is not saved.
HandleSaveTopics(p) ==
  /\ job[p].kind = "save_topics"
  /\ db' = [db EXCEPT ![p].topics[job[p].user] = job[p].topics]
  /\ Finish(p, job[p].topics # {})
  /\ UNCHANGED <<file, lockFile, job, held, cursor, clock, sent, votes, promised,
                 web, kills, faults>>

\* Variant: an expired task is passed over and stays.
KeepExpired(p) ==
  /\ pc[p] = "dispatch"
  /\ cursor[p] <= Len(db[p].spool)
  /\ db[p].spool[cursor[p]].ttl = 0
  /\ cursor' = [cursor EXCEPT ![p] = @ + 1]
  /\ UNCHANGED <<file, lockFile, pc, job, db, dirty, held, clock, sent, votes,
                 promised, web, kills, faults>>

\* processQueue, one element of forEach: an expired task is spliced out, and
\* the task that takes its place is not visited any more.
SkipExpired(p) ==
  /\ pc[p] = "dispatch"
  /\ cursor[p] <= Len(db[p].spool)
  /\ db[p].spool[cursor[p]].ttl = 0
  /\ db' = [db EXCEPT ![p].spool = RemoveAt(@, cursor[p])]
  /\ cursor' = [cursor EXCEPT ![p] = @ + 1]
  /\ UNCHANGED <<file, lockFile, pc, job, dirty, held, clock, sent, votes,
                 promised, web, kills, faults>>

\* A mail that bin/contact is called for, with what is needed to judge it later;
\* it leaves unless that fails.
Mail(d, task, to, failed) ==
  LET announce == d.announcements[task.id]
  IN  [id |-> task.id, user |-> announce.user, to |-> to,
       left |-> to \notin failed, ttl |-> task.ttl,
       rise |-> ScoreOf(d, announce.user) - task.score,
       wanted |-> d.topics[to] \cap announce.topics # {}]

Lost == Cardinality({k \in DOMAIN sent : ~sent[k].left})

\* The callback of handleDispatch for a live task: a broadcast the first time
\* or when the score has not dropped; then the task ages.  A recipient whose
\* mail fails is treated like the others.
MailTask(p) ==
  LET d == db[p]
      i == cursor[p]
      task == d.spool[i]
      author == d.announcements[task.id].user
      now == ScoreOf(d, author)
      Aged(e) == [e EXCEPT !.spool[i].ttl = @ - 1, !.spool[i].score = now]
  IN  /\ pc[p] = "dispatch"
      /\ i <= Len(d.spool)
      /\ task.ttl > 0
      /\ cursor' = [cursor EXCEPT ![p] = i + 1]
      /\ \E rcpt \in Samples(d, task) : \E failed \in SUBSET rcpt :
           /\ Lost + Cardinality(failed) <= MaxLost
           /\ IF task.ttl = TTL \/ now >= task.score
              THEN /\ db' = [db EXCEPT ![p] = Aged(WithBroadcast(d, i, rcpt))]
                   /\ sent' = sent \o [k \in 1 .. Cardinality(rcpt) |->
                                        Mail(d, task, SetToSeq(rcpt)[k], failed)]
              ELSE /\ db' = [db EXCEPT ![p] = Aged(d)]
                   /\ UNCHANGED sent
      /\ UNCHANGED <<file, lockFile, pc, job, dirty, held, clock, votes, promised,
                     web, kills, faults>>

EndQueue(p) ==
  /\ cursor[p] > Len(db[p].spool)
  /\ Goto(p, "dispatch", "lock")
  /\ UNCHANGED <<file, lockFile, job, db, dirty, held, cursor, clock, sent, votes,
                 promised, web, kills, faults>>

\* unlockDatabase, first half of writeFileSync.
Truncate(p) ==
  /\ Goto(p, "truncate", "write")
  /\ file' = Torn
  /\ UNCHANGED <<lockFile, job, db, dirty, held, cursor, clock, sent, votes,
                 promised, web, kills, faults>>

Write(p) ==
  /\ Goto(p, "write", "unlock")
  /\ file' = db[p]
  /\ UNCHANGED <<lockFile, job, db, dirty, held, cursor, clock, sent, votes,
                 promised, web, kills, faults>>

\* A failed write returns before the unlock; the exit listener is left.
WriteFails(p) ==
  /\ faults < MaxFaults
  /\ faults' = faults + 1
  /\ Goto(p, "write", "exit")
  /\ UNCHANGED <<file, lockFile, job, db, dirty, held, cursor, clock, sent, votes,
                 promised, web, kills>>

\* unlockSync removes the lock file, whoever made it, and the process ends.
Unlock(p) ==
  /\ Goto(p, "unlock", "idle")
  /\ lockFile' = FALSE
  /\ held' = [held EXCEPT ![p] = FALSE]
  /\ job' = [job EXCEPT ![p] = NoTask]
  /\ db' = [db EXCEPT ![p] = Empty]
  /\ UNCHANGED <<file, dirty, cursor, clock, sent, votes, promised, web, kills,
                 faults>>

Exit(p) ==
  /\ Goto(p, "exit", "idle")
  /\ lockFile' = (lockFile /\ ~held[p])
  /\ held' = [held EXCEPT ![p] = FALSE]
  /\ job' = [job EXCEPT ![p] = NoTask]
  /\ db' = [db EXCEPT ![p] = Empty]
  /\ UNCHANGED <<file, dirty, cursor, clock, sent, votes, promised, web, kills,
                 faults>>

\* SIGKILL: the lock file stays.
Kill(p) ==
  /\ kills < MaxKills
  /\ kills' = kills + 1
  /\ pc[p] # "idle"
  /\ pc' = [pc EXCEPT ![p] = "idle"]
  /\ held' = [held EXCEPT ![p] = FALSE]
  /\ job' = [job EXCEPT ![p] = NoTask]
  /\ db' = [db EXCEPT ![p] = Empty]
  /\ UNCHANGED <<file, lockFile, dirty, cursor, clock, sent, votes, promised, web,
                 faults>>

\* A cool-down passes.
Tick ==
  /\ clock < MaxClock
  /\ clock' = clock + 1
  /\ UNCHANGED <<file, lockFile, pc, job, db, dirty, held, cursor, sent, votes,
                 promised, web, kills, faults>>

\* Nobody asks for anything.
Rest == (\A p \in Procs : pc[p] = "idle") /\ UNCHANGED vars

Dispatch(p) == BeginDispatch(p) \/ SkipExpired(p) \/ MailTask(p) \/ EndQueue(p)

Run(p) ==
  \/ Lock(p) \/ Truncate(p) \/ Write(p) \/ WriteFails(p) \/ Unlock(p) \/ Exit(p)
  \/ HandleView(p) \/ HandleUnknown(p) \/ HandleVote(p) \/ HandleAnnounce(p)
  \/ HandleSaveTopics(p)

Next == (\E p \in Procs : BeginWeb(p) \/ Dispatch(p) \/ Run(p) \/ Kill(p))
          \/ Tick \/ Rest

Spec == Init /\ [][Next]_vars

\* Cron starts dispatch again and again, and a process runs until it ends.
FairSpec == Spec /\ \A p \in Procs : WF_vars(Dispatch(p)) /\ WF_vars(Run(p))
-----------------------------------------------------------------------------
Reputations == [Users -> 0 .. MaxVotes]
Tokens == [mail : Nat, user : Users, good : BOOLEAN]
Announcements == [user : Users, topics : SUBSET Topics, at : Nat]
Tasks == [id : Nat \ {0}, ttl : 0 .. TTL, score : 0 .. Unit, users : SUBSET Users]

\* The shape of database.json.
IsDatabase(d) ==
  /\ d.good \in Reputations
  /\ d.bad \in Reputations
  /\ d.total \in [Users -> Nat]
  /\ d.topics \in [Users -> SUBSET Topics]
  /\ \A t \in d.tokens : t \in Tokens
  /\ \A i \in DOMAIN d.announcements : d.announcements[i] \in Announcements
  /\ \A i \in DOMAIN d.spool : d.spool[i] \in Tasks

TypeOK ==
  /\ file = Torn \/ IsDatabase(file)
  /\ lockFile \in BOOLEAN
  /\ pc \in [Procs -> Steps]
  /\ \A p \in Procs : IsDatabase(db[p])
  /\ dirty \in [Procs -> BOOLEAN]
  /\ held \in [Procs -> BOOLEAN]
  /\ cursor \in [Procs -> Nat \ {0}]
  /\ clock \in 0 .. MaxClock
  /\ promised \in Nat
-----------------------------------------------------------------------------
\* Properties of one database.  A process derives what it writes from one file
\* it read, so they survive any race; what a race breaks comes further down.

\* Every mail gave its author two tokens, and each is either still valid or was
\* turned into one vote (dispatch 30-31, lib.js 218-236, index.cgi 105-118).
VotesConserved ==
  file # Torn =>
    \A u \in Users :
      file.good[u] + file.bad[u] + Cardinality({t \in file.tokens : t.user = u})
        = Empty.good[u] + 2 * file.total[u]

\* A queued task belongs to an announcement, no two tasks to the same one, its
\* author counts as reached, and the others it reached are in the author's
\* total (lib.js 169-195, dispatch 19-56).
SpoolMatchesAnnouncements ==
  file # Torn =>
    \A i \in DOMAIN file.spool :
      LET task == file.spool[i]
      IN  /\ task.id \in DOMAIN file.announcements
          /\ LET author == file.announcements[task.id].user
             IN  /\ author \in task.users
                 /\ Cardinality(task.users) - 1 <= file.total[author]
          /\ \A j \in DOMAIN file.spool : file.spool[j].id = task.id => i = j

\* Two announcements of one user are a cool-down apart (index.cgi 68-74).
CoolDownIsKept ==
  file # Torn =>
    \A i, j \in DOMAIN file.announcements :
      i < j /\ file.announcements[i].user = file.announcements[j].user =>
        file.announcements[j].at - file.announcements[i].at >= CoolDown
-----------------------------------------------------------------------------
\* Properties of the file and the world.  They hold when processes do not
\* overlap and none is killed; two overlapping ones break them.

Quiet == file # Torn /\ \A p \in Procs : pc[p] = "idle"

\* "This link is no longer valid." (index.cgi 109): a token votes once.
TokenVotesOnce ==
  \A i, j \in DOMAIN votes : votes[i] = votes[j] => i = j

\* "Message queued!" (index.cgi 80): what was queued is in the database.
QueuedIsKept == Quiet => Len(file.announcements) = promised

\* Nobody is mailed the same announcement twice, and one whose mail failed is
\* not tried again (dispatch 20, 39 and 47).
NoDuplicateMail ==
  \A j, k \in DOMAIN sent :
    sent[j].id = sent[k].id /\ sent[j].to = sent[k].to => j = k

\* The total of a profile counts the mails that were tried for it, the failed
\* ones included (dispatch 39 and 44): it is not the number of mails that left.
TotalsCountTries ==
  Quiet => \A u \in Users :
             file.total[u] = Cardinality({k \in DOMAIN sent : sent[k].user = u})

\* Every task leaves the queue, though the one behind an expired task is passed
\* over (lib.js 202-208).
QueueDrains ==
  (file # Torn /\ file.spool # <<>>) ~> (file # Torn /\ file.spool = <<>>)
-----------------------------------------------------------------------------
\* Statements of the repository that the code does not keep.

\* "Only broadcast if first time or user's score has increased" (dispatch 23).
BroadcastNeedsRise == \A k \in DOMAIN sent : sent[k].ttl = TTL \/ sent[k].rise > 0

\* "If you want to unsubscribe from all announcements, you can remove the
\* "general" tag from your list of subscriptions" (database.json 11): who has
\* no topic in common with an announcement is not among its recipients.
UnsubscribedGetNoMail == \A k \in DOMAIN sent : sent[k].left => sent[k].wanted
=============================================================================
