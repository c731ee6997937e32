-------------------------- MODULE MentorshipProofs --------------------------
(***************************************************************************)
(* Proofs about Mentorship, for any number of users, processes and web     *)
(* requests, whatever fails.                                               *)
(*                                                                         *)
(* Whatever overlaps: every moderator is a leader, by the invariant Inv,   *)
(* which says that the profiles held by a web request, and those still to  *)
(* be saved, are sound too; and nobody leads more than the limit and one   *)
(* more for each other process, by RoomInv, which counts whoever is a      *)
(* mentee, or is about to be one.                                          *)
(*                                                                         *)
(* While web requests do not overlap: mentees have a leader, and answers   *)
(* agree with statuses, by AloneInv and SerialInv, which says what the one *)
(* process at work has loaded and what its saves will make of it; leaders  *)
(* are given a leader only by a request, by HeedInv, which says the same   *)
(* of those saves.                                                         *)
(***************************************************************************)
EXTENDS Mentorship, SequenceTheorems, FiniteSetTheorems, TLAPS

\* A profile of no moderator, or of a leader.
Sound == {p \in Profiles : "is_moderator" \in p.flags => "is_leader" \in p.flags}

Jobs(P) ==
  [at : Steps, actor : Users \union {NoUser}, user : Users \union {NoUser},
   kind : Kinds, request : Nat, answer : Responses, writes : Seq(P),
   mentees : SUBSET Users, seen : [Users -> P], freed : Users \union {NoUser}]

\* What a step relies on, when the requests are those of q.
Ready(j, q) ==
  /\ j.at # "idle" => j.user \in Users
  /\ j.at \in {"answer", "join"} => j.actor \in Users /\ j.request \in 1 .. Len(q)
  /\ j.at = "answer" => (q[j.request].kind # "PAIR" => j.writes # <<>>)
  /\ j.at \in {"join", "store", "demote"} => j.writes # <<>>
  /\ j.at = "pair" => j.freed \in Users

Inv == TypedWith(Sound) /\ \A s \in Sessions : Ready(job[s], leadership)

LEMMA BlankSound == Blank \in Sound
BY DEF Blank, Sound, Profiles, Statuses, Flags

LEMMA IdleJob == Idle \in Jobs(Sound) /\ \A q : Ready(Idle, q)
<1>1. <<>> \in Seq(Sound)
  OBVIOUS
<1>2. [u \in Users |-> Blank] \in [Users -> Sound]
  BY BlankSound
<1>3. Idle \in Jobs(Sound)
  BY <1>1, <1>2 DEF Idle, Jobs, Steps, Kinds, Responses
<1>4. QED
  BY <1>3 DEF Ready, Idle

LEMMA SavingJob ==
  ASSUME NEW u \in Users, NEW w \in Seq(Sound), w # <<>>
  PROVE  Saving(u, w) \in Jobs(Sound) /\ \A q : Ready(Saving(u, w), q)
<1>1. [v \in Users |-> Blank] \in [Users -> Sound]
  BY BlankSound
<1>2. Saving(u, w) \in Jobs(Sound)
  BY <1>1 DEF Saving, Idle, Jobs, Steps, Kinds, Responses
<1>3. QED
  BY <1>2 DEF Ready, Saving, Idle

LEMMA OneWrite ==
  ASSUME NEW p \in Sound
  PROVE  <<p>> \in Seq(Sound) /\ <<p>> # <<>>
OBVIOUS

LEMMA TwoWrites ==
  ASSUME NEW p \in Sound, NEW r \in Sound
  PROVE  <<p, r>> \in Seq(Sound) /\ <<p, r>> # <<>>
OBVIOUS

\* What the code makes of a sound profile is sound.
LEMMA SoundChanges ==
  ASSUME NEW p \in Sound, NEW l \in Users \union {NoUser}, NEW x \in Statuses
  PROVE  /\ Promoted(p) \in Sound /\ IsLeader(Promoted(p))
         /\ Demoted(p) \in Sound
         /\ [p EXCEPT !.leader = l] \in Sound
         /\ [p EXCEPT !.status = x] \in Sound
         /\ [p EXCEPT !.status = x, !.leader = l] \in Sound
<1> USE DEF Sound, Profiles
<1>1. Promoted(p) \in Sound /\ IsLeader(Promoted(p))
  BY DEF Promoted, Flags, IsLeader
<1>2. Demoted(p) \in Sound
  BY DEF Demoted
<1>3. /\ [p EXCEPT !.leader = l] \in Sound
      /\ [p EXCEPT !.status = x] \in Sound
      /\ [p EXCEPT !.status = x, !.leader = l] \in Sound
  OBVIOUS
<1>4. QED
  BY <1>1, <1>2, <1>3

\* The first save and those that follow it.
LEMMA WritesLeft ==
  ASSUME NEW w \in Seq(Sound), w # <<>>
  PROVE  /\ w[1] \in Sound /\ Tail(w) \in Seq(Sound)
         /\ Len(w) # 1 => Tail(w) # <<>>
<1>1. Len(w) \in Nat /\ Len(w) # 0
  BY LenProperties, EmptySeq
<1>2. w[1] \in Sound
  BY <1>1, ElementOfSeq
<1>3. Tail(w) \in Seq(Sound) /\ Len(Tail(w)) = Len(w) - 1
  BY HeadTailProperties
<1>4. Len(w) # 1 => Tail(w) # <<>>
  <2>1. Tail(w) = <<>> => Len(Tail(w)) = 0
    BY <1>3, EmptySeq
  <2>2. QED
    BY <1>1, <1>3, <2>1
<1>5. QED
  BY <1>2, <1>3, <1>4

\* A web request begins.
LEMMA BeginKeeps ==
  ASSUME Inv, NEW s \in Sessions, NEW j \in Jobs(Sound), Ready(j, leadership),
         Begin(s, j), profile' \in [Users -> Sound]
  PROVE  Inv'
<1> USE DEF Inv, TypedWith, Begin
<1>1. job' \in [Sessions -> Jobs(Sound)]
  BY DEF Jobs
<1>2. starts' \in 0 .. MaxStarts
  BY MentorshipAssumption
<1>3. overlapped' \in BOOLEAN
  BY Zenon
<1>4. leadership' \in Seq(Requests) /\ cutOff' \subseteq Nat
  OBVIOUS
<1>5. \A t \in Sessions : Ready(job'[t], leadership')
  <2>1. \A t \in Sessions : job'[t] = IF t = s THEN j ELSE job[t]
    OBVIOUS
  <2>2. leadership' = leadership
    OBVIOUS
  <2>3. QED
    BY <2>1, <2>2, Zenon
<1>6. QED
  BY <1>1, <1>2, <1>3, <1>4, <1>5 DEF Jobs

\* A web request goes on, or ends.
LEMMA ContinueKeeps ==
  ASSUME Inv, NEW s \in Sessions, NEW j \in Jobs(Sound), Ready(j, leadership'),
         job' = [job EXCEPT ![s] = j], profile' \in [Users -> Sound],
         leadership' \in Seq(Requests), Len(leadership) <= Len(leadership'),
         \A i \in 1 .. Len(leadership) : leadership'[i].kind = leadership[i].kind,
         starts' = starts, overlapped' = overlapped, cutOff' \subseteq Nat
  PROVE  Inv'
<1> USE DEF Inv, TypedWith
<1>1. job' \in [Sessions -> Jobs(Sound)]
  BY DEF Jobs
<1>2. \A t \in Sessions : Ready(job'[t], leadership')
  <2> SUFFICES ASSUME NEW t \in Sessions PROVE Ready(job'[t], leadership')
    OBVIOUS
  <2>1. CASE t = s
    BY <2>1
  <2>2. CASE t # s
    <3>1. job'[t] = job[t] /\ Ready(job[t], leadership)
      BY <2>2
    <3>2. Len(leadership) \in Nat /\ Len(leadership') \in Nat
      BY LenProperties
    <3>3. QED
      BY <3>1, <3>2 DEF Ready
  <2>3. QED
    BY <2>1, <2>2
<1>3. QED
  BY <1>1, <1>2 DEF Jobs

\* Idle with other fields.
LEMMA SavesJob ==
  ASSUME NEW at \in Steps, NEW u \in Users, NEW w \in Seq(Sound)
  PROVE  [Idle EXCEPT !.at = at, !.user = u, !.writes = w] \in Jobs(Sound)
<1>1. [v \in Users |-> Blank] \in [Users -> Sound]
  BY BlankSound
<1>2. QED
  BY <1>1 DEF Idle, Jobs, Kinds, Responses

LEMMA RequestJob ==
  ASSUME NEW at \in Steps, NEW a \in Users, NEW u \in Users,
         NEW i \in Nat, NEW x \in Responses, NEW w \in Seq(Sound)
  PROVE  [Idle EXCEPT !.at = at, !.actor = a, !.user = u, !.request = i,
                     !.answer = x, !.writes = w] \in Jobs(Sound)
<1>1. [v \in Users |-> Blank] \in [Users -> Sound]
  BY BlankSound
<1>2. QED
  BY <1>1 DEF Idle, Jobs, Kinds

\* The same, when no request is filed or answered.
LEMMA GoesOn ==
  ASSUME Inv, NEW s \in Sessions, NEW j \in Jobs(Sound), Ready(j, leadership),
         job' = [job EXCEPT ![s] = j], profile' \in [Users -> Sound],
         leadership' = leadership, starts' = starts, overlapped' = overlapped,
         cutOff' \subseteq Nat
  PROVE  Inv'
<1>1. leadership \in Seq(Requests) /\ Len(leadership) \in Nat
  BY LenProperties DEF Inv, TypedWith
<1>2. /\ leadership' \in Seq(Requests) /\ Len(leadership) <= Len(leadership')
      /\ \A i \in 1 .. Len(leadership) : leadership'[i].kind = leadership[i].kind
      /\ Ready(j, leadership')
  BY <1>1
<1>3. QED
  BY <1>2, ContinueKeeps

LEMMA InsertJob ==
  ASSUME NEW u \in Users, NEW k \in Kinds
  PROVE  LET j == [Idle EXCEPT !.at = "insert", !.user = u, !.kind = k]
         IN  j \in Jobs(Sound) /\ \A q : Ready(j, q)
<1> DEFINE j == [Idle EXCEPT !.at = "insert", !.user = u, !.kind = k]
<1>1. [v \in Users |-> Blank] \in [Users -> Sound] /\ <<>> \in Seq(Sound)
  BY BlankSound
<1>2. j \in Jobs(Sound)
  BY <1>1 DEF Idle, Jobs, Steps, Responses
<1>3. \A q : Ready(j, q)
  BY DEF Ready, Idle
<1>4. QED
  BY <1>2, <1>3

LEMMA AnswerJob ==
  ASSUME NEW q \in Seq(Requests), NEW i \in 1 .. Len(q), NEW a \in Users,
         NEW x \in Responses, NEW w \in Seq(Sound), q[i].kind # "PAIR" => w # <<>>
  PROVE  LET j == [Idle EXCEPT !.at = "answer", !.actor = a, !.user = q[i].owner,
                               !.request = i, !.answer = x, !.writes = w]
         IN  j \in Jobs(Sound) /\ Ready(j, q)
<1> DEFINE j == [Idle EXCEPT !.at = "answer", !.actor = a, !.user = q[i].owner,
                             !.request = i, !.answer = x, !.writes = w]
<1>1. q[i] \in Requests /\ Len(q) \in Nat
  BY ElementOfSeq, LenProperties
<1>2. q[i].owner \in Users /\ i \in Nat /\ "answer" \in Steps
  BY <1>1 DEF Requests, Steps
<1>3. j \in Jobs(Sound)
  BY <1>2, RequestJob
<1>4. Ready(j, q)
  BY <1>2 DEF Ready, Idle, Requests
<1>5. QED
  BY <1>3, <1>4

LEMMA ResigningJob ==
  ASSUME Inv, NEW u \in Users, NEW c \in BOOLEAN, IsLeader(profile[u])
  PROVE  Resigning(u, c) \in Jobs(Sound) /\ \A q : Ready(Resigning(u, c), q)
<1> DEFINE p == profile[u]
           d == IF CanModerate(p) THEN Demoted(p) ELSE p
           r == [d EXCEPT !.flags = @ \ {"is_leader"}]
           w1 == IF CanModerate(p) THEN <<d>> ELSE <<>>
           w2 == IF c THEN <<r>> ELSE <<>>
           a == IF CanModerate(p) THEN "demote" ELSE "mentees"
<1>1. p \in Sound
  BY DEF Inv, TypedWith
<1>2. d \in Sound
  BY <1>1, SoundChanges DEF Statuses
<1>3. "is_moderator" \notin d.flags
  BY <1>1 DEF Demoted, CanModerate, Flags, Sound, Profiles, IsLeader
<1>4. r \in Sound
  BY <1>2, <1>3 DEF Sound, Profiles
<1>5. w1 \in Seq(Sound) /\ w2 \in Seq(Sound)
  BY <1>2, <1>4
<1>6. w1 \o w2 \in Seq(Sound)
  BY <1>5, ConcatProperties
<1>7. CanModerate(p) => w1 \o w2 # <<>>
  <2> HIDE DEF w2
  <2>1. CanModerate(p) => Len(w1 \o w2) > 0
    BY <1>2, <1>5, ConcatProperties, LenProperties
  <2>2. QED
    BY <2>1
<1>8. a \in Steps /\ (a = "demote" => CanModerate(p)) /\ a \notin {"idle", "answer", "join", "store", "pair"}
  BY DEF Steps
<1>9. Resigning(u, c) = [Idle EXCEPT !.at = a, !.user = u, !.writes = w1 \o w2]
  BY DEF Resigning
<1> HIDE DEF w1, w2, a
<1>10. Resigning(u, c) \in Jobs(Sound)
  <2>1. [Idle EXCEPT !.at = a, !.user = u, !.writes = w1 \o w2] \in Jobs(Sound)
    BY <1>6, <1>8, SavesJob
  <2>2. QED
    BY <2>1, <1>9, Zenon
<1>11. \A q : Ready(Resigning(u, c), q)
  BY <1>7, <1>8, <1>9 DEF Ready, Idle
<1>12. QED
  BY <1>10, <1>11

LEMMA NextMenteeJob ==
  ASSUME NEW j \in Jobs(Sound), j.user \in Users
  PROVE  NextMentee(j) \in Jobs(Sound) /\ \A q : Ready(NextMentee(j), q)
<1>1. CASE j.mentees # {}
  <2>1. NextMentee(j) = [j EXCEPT !.at = "free", !.freed = NoUser]
    BY <1>1 DEF NextMentee
  <2>2. NextMentee(j) \in Jobs(Sound)
    BY <2>1 DEF Jobs, Steps
  <2>3. QED
    BY <2>1, <2>2 DEF Ready, Jobs
<1>2. CASE j.mentees = {} /\ j.writes # <<>>
  BY <1>2, SavingJob DEF NextMentee, Jobs
<1>3. CASE j.mentees = {} /\ j.writes = <<>>
  BY <1>3, IdleJob DEF NextMentee
<1>4. QED
  BY <1>1, <1>2, <1>3

\* A request is added, or nothing.
LEMMA FiledType ==
  ASSUME Inv, NEW u \in Users, NEW k \in Kinds,
         leadership' = leadership \/ leadership' = Append(leadership, Filed(u, k))
  PROVE  /\ leadership' \in Seq(Requests)
         /\ Len(leadership) <= Len(leadership')
         /\ \A i \in 1 .. Len(leadership) : leadership'[i].kind = leadership[i].kind
<1>1. leadership \in Seq(Requests) /\ Len(leadership) \in Nat
  BY LenProperties DEF Inv, TypedWith
<1>2. Filed(u, k) \in Requests
  BY DEF Filed, Requests, Responses
<1>3. QED
  BY <1>1, <1>2, AppendProperties

LEMMA InitInv == Init => Inv
<1> SUFFICES ASSUME Init PROVE Inv
  OBVIOUS
<1> USE MentorshipAssumption DEF Init
<1>1. profile \in [Users -> Sound]
  BY DEF Sound, Profiles, Statuses, Flags
<1>2. leadership \in Seq(Requests) /\ starts \in 0 .. MaxStarts /\ cutOff \subseteq Nat
  OBVIOUS
<1>3. overlapped \in BOOLEAN
  BY Zenon
<1>4. job \in [Sessions -> Jobs(Sound)] /\ \A t \in Sessions : Ready(job[t], leadership)
  BY IdleJob
<1>5. QED
  BY <1>1, <1>2, <1>3, <1>4 DEF Inv, TypedWith, Jobs

\* The steps that begin a web request.
LEMMA AskStep ==
  ASSUME Inv, NEW s \in Sessions, NEW u \in Users, Ask(s, u)
  PROVE  Inv'
<1> USE DEF Start
<1>0. profile \in [Users -> Sound]
  BY DEF Inv, TypedWith
<1>1. CASE Apply(s, u)
  <2>1. profile' \in [Users -> Sound]
    BY <1>0, <1>1 DEF Apply, Sound, Profiles, Statuses
  <2>2. QED
    BY <1>1, <2>1, InsertJob, BeginKeeps DEF Apply, Kinds
<1>2. CASE Resign(s, u)
  BY <1>0, <1>2, ResigningJob, BeginKeeps DEF Resign
<1>3. CASE Settings(s, u)
  <2>1. <<profile[u]>> \in Seq(Sound) /\ <<profile[u]>> # <<>>
    BY <1>0, OneWrite
  <2>2. QED
    BY <1>0, <1>3, <2>1, SavingJob, BeginKeeps DEF Settings
<1>4. ASSUME NEW k \in {"LEAD", "PAIR"}, Request(s, u, k) PROVE Inv'
  BY <1>0, <1>4, InsertJob, BeginKeeps DEF Request, Kinds
<1>5. QED
  BY <1>1, <1>2, <1>3, <1>4 DEF Ask

LEMMA RespondStep ==
  ASSUME Inv, NEW s \in Sessions, NEW a \in Users, NEW i \in DOMAIN leadership,
         NEW x \in Responses, Respond(s, a, i, x)
  PROVE  Inv'
<1> DEFINE r == leadership[i]
           y == IF StillValid(r) THEN x ELSE "CANCELED"
           w == IF r.kind = "PAIR" THEN <<>> ELSE <<profile[r.owner]>>
<1>1. profile \in [Users -> Sound] /\ leadership \in Seq(Requests) /\ i \in 1 .. Len(leadership)
  BY DEF Inv, TypedWith
<1>2. r \in Requests
  BY <1>1, ElementOfSeq
<1>3. w \in Seq(Sound) /\ (r.kind # "PAIR" => w # <<>>)
  BY <1>1, <1>2 DEF Requests
<1>4. y \in Responses
  BY DEF Responses
<1> DEFINE j == [Idle EXCEPT !.at = "answer", !.actor = a, !.user = r.owner,
                             !.request = i, !.answer = y, !.writes = w]
<1>5. Begin(s, j) /\ profile' = profile
  BY DEF Respond, Start
<1> HIDE DEF y, w
<1>6. j \in Jobs(Sound) /\ Ready(j, leadership)
  BY <1>1, <1>3, <1>4, AnswerJob
<1>7. QED
  BY <1>1, <1>5, <1>6, BeginKeeps

LEMMA DecideStep ==
  ASSUME Inv, NEW s \in Sessions, NEW a \in Users, Decide(s, a)
  PROVE  Inv'
<1> USE DEF Start
<1>0. profile \in [Users -> Sound]
  BY DEF Inv, TypedWith
<1>1. ASSUME NEW i \in DOMAIN leadership, NEW x \in Responses, Respond(s, a, i, x)
      PROVE Inv'
  BY <1>1, RespondStep
<1>2. ASSUME NEW u \in Users, Ban(s, a, u) PROVE Inv'
  BY <1>0, <1>2, ResigningJob, BeginKeeps DEF Ban
<1>3. ASSUME NEW u \in Users, Guide(s, a, u) PROVE Inv'
  <2>1. Promoted(profile[u]) \in Sound
    BY <1>0, SoundChanges DEF Statuses
  <2>2. <<Promoted(profile[u])>> \in Seq(Sound) /\ <<Promoted(profile[u])>> # <<>>
    BY <2>1, OneWrite
  <2>3. CASE IsLeader(profile[u])
    BY <1>0, <1>3, <2>3, ResigningJob, BeginKeeps DEF Guide
  <2>4. CASE ~IsLeader(profile[u])
    BY <1>0, <1>3, <2>2, <2>4, SavingJob, BeginKeeps DEF Guide
  <2>5. QED
    BY <2>3, <2>4
<1>4. ASSUME NEW u \in Users, Moderator(s, a, u) PROVE Inv'
  <2> DEFINE p == profile[u]
             l == IF IsLeader(p) THEN p ELSE Promoted(p)
             m == [l EXCEPT !.flags = @ \union {"is_moderator"}]
  <2>1. p \in Sound /\ Demoted(p) \in Sound /\ l \in Sound /\ IsLeader(l)
    BY <1>0, SoundChanges DEF Statuses
  <2>2. m \in Sound
    BY <2>1 DEF Sound, Profiles, IsLeader, Flags
  <2>3. /\ <<Demoted(p)>> \in Seq(Sound) /\ <<Demoted(p)>> # <<>>
        /\ <<m>> \in Seq(Sound) /\ <<m>> # <<>>
        /\ <<l, m>> \in Seq(Sound) /\ <<l, m>> # <<>>
    BY <2>1, <2>2, OneWrite, TwoWrites
  <2>4. \/ Begin(s, Saving(u, <<Demoted(p)>>))
        \/ Begin(s, Saving(u, <<m>>))
        \/ Begin(s, Saving(u, <<l, m>>))
    BY <1>4 DEF Moderator
  <2>5. profile' = profile
    BY <1>4 DEF Moderator
  <2> HIDE DEF l, m
  <2>6. QED
    BY <1>0, <2>3, <2>4, <2>5, SavingJob, BeginKeeps
<1>5. ASSUME NEW u \in Users, Abandon(s, a, u) PROVE Inv'
  <2> DEFINE p == [profile[u] EXCEPT !.leader = NoUser]
  <2>1. p \in Sound
    BY <1>0, SoundChanges DEF Statuses
  <2>2. <<p>> \in Seq(Sound) /\ <<p>> # <<>>
    BY <2>1, OneWrite
  <2>3. Begin(s, Saving(u, <<p>>)) /\ profile' = profile
    BY <1>5 DEF Abandon
  <2> HIDE DEF p
  <2>4. QED
    BY <1>0, <2>2, <2>3, SavingJob, BeginKeeps
<1>6. ASSUME NEW u \in Users, NEW l \in Users, Transfer(s, a, u, l) PROVE Inv'
  <2> DEFINE p == [profile[u] EXCEPT !.leader = l]
  <2>1. p \in Sound
    BY <1>0, SoundChanges DEF Statuses
  <2>2. <<p>> \in Seq(Sound) /\ <<p>> # <<>>
    BY <2>1, OneWrite
  <2>3. Begin(s, Saving(u, <<p>>)) /\ profile' = profile
    BY <1>6 DEF Transfer
  <2> HIDE DEF p
  <2>4. QED
    BY <1>0, <2>2, <2>3, SavingJob, BeginKeeps
<1>7. QED
  BY <1>1, <1>2, <1>3, <1>4, <1>5, <1>6 DEF Decide

\* What the form saves is sound.
LEMMA EffectType ==
  ASSUME NEW p \in Sound, NEW k, NEW x, NEW a \in Users
  PROVE  Effect(k, x, p, a) \in Seq(Sound)
<1>1. /\ [p EXCEPT !.status = "DENIED"] \in Sound
      /\ Promoted(p) \in Sound
      /\ [p EXCEPT !.leader = a] \in Sound
  BY SoundChanges DEF Statuses
<1>2. /\ <<[p EXCEPT !.status = "DENIED"]>> \in Seq(Sound)
      /\ <<Promoted(p)>> \in Seq(Sound)
      /\ <<[p EXCEPT !.leader = a]>> \in Seq(Sound)
      /\ <<>> \in Seq(Sound)
  BY <1>1, OneWrite
<1>3. \/ Effect(k, x, p, a) = <<[p EXCEPT !.status = "DENIED"]>>
      \/ Effect(k, x, p, a) = <<Promoted(p)>>
      \/ Effect(k, x, p, a) = <<[p EXCEPT !.leader = a]>>
      \/ Effect(k, x, p, a) = <<>>
  BY DEF Effect
<1>4. QED
  BY <1>2, <1>3

LEMMA AnswerStep ==
  ASSUME Inv, NEW s \in Sessions, Answer(s)
  PROVE  Inv'
<1> DEFINE j == job[s]
           k == leadership[j.request].kind
           p == IF k = "PAIR" THEN profile[j.user] ELSE j.writes[1]
           saves == Effect(k, j.answer, p, j.actor)
<1>1. /\ profile \in [Users -> Sound] /\ leadership \in Seq(Requests)
      /\ j \in Jobs(Sound) /\ Ready(j, leadership) /\ j.at = "answer" /\ cutOff \subseteq Nat
  BY DEF Inv, TypedWith, Jobs, Answer
<1>2. /\ j.user \in Users /\ j.actor \in Users /\ j.request \in 1 .. Len(leadership)
      /\ j.writes \in Seq(Sound) /\ j.answer \in Responses
      /\ (k # "PAIR" => j.writes # <<>>)
  BY <1>1 DEF Ready, Jobs
<1>3. p \in Sound
  <2>1. k # "PAIR" => j.writes[1] \in Sound
    BY <1>2, HeadTailProperties, LenProperties, ElementOfSeq
  <2>2. QED
    BY <1>1, <1>2, <2>1
<1>4. saves \in Seq(Sound)
  BY <1>2, <1>3, EffectType
<1>5. /\ leadership' \in Seq(Requests)
      /\ Len(leadership') = Len(leadership)
      /\ \A i \in 1 .. Len(leadership) : leadership'[i].kind = leadership[i].kind
  <2> DEFINE i == j.request
             r == [leadership[i] EXCEPT !.response = j.answer, !.by = j.actor]
  <2>1. leadership[i] \in Requests
    BY <1>1, <1>2, ElementOfSeq
  <2>2. r \in Requests /\ r.kind = leadership[i].kind
    BY <1>2, <2>1 DEF Requests
  <2>3. leadership' = [leadership EXCEPT ![i] = r]
    BY DEF Answer
  <2> HIDE DEF r
  <2>4. QED
    BY <1>1, <1>2, <2>2, <2>3, ExceptSeq
<1>6. /\ profile' = profile /\ starts' = starts /\ overlapped' = overlapped /\ cutOff' = cutOff
      /\ \/ k # "PAIR" /\ job' = [job EXCEPT ![s] = [j EXCEPT !.at = "join"]]
         \/ saves # <<>> /\ job' = [job EXCEPT ![s] = [j EXCEPT !.at = "store", !.writes = saves]]
         \/ job' = [job EXCEPT ![s] = Idle]
  BY DEF Answer, Continue
<1> HIDE DEF saves, p
<1>61. /\ Len(leadership) \in Nat /\ Len(leadership) <= Len(leadership')
       /\ profile' \in [Users -> Sound] /\ cutOff' \subseteq Nat
       /\ starts' = starts /\ overlapped' = overlapped
  BY <1>1, <1>5, <1>6, LenProperties
<1>7. CASE k # "PAIR" /\ job' = [job EXCEPT ![s] = [j EXCEPT !.at = "join"]]
  <2> DEFINE n == [j EXCEPT !.at = "join"]
  <2>1. n \in Jobs(Sound)
    BY <1>1 DEF Jobs, Steps
  <2>2. Ready(n, leadership')
    BY <1>1, <1>2, <1>5, <1>7 DEF Ready, Jobs
  <2>3. job' = [job EXCEPT ![s] = n]
    BY <1>7
  <2> HIDE DEF n, j
  <2>4. QED
    BY <1>5, <1>61, <2>1, <2>2, <2>3, ContinueKeeps
<1>8. CASE saves # <<>> /\ job' = [job EXCEPT ![s] = [j EXCEPT !.at = "store", !.writes = saves]]
  <2> DEFINE n == [j EXCEPT !.at = "store", !.writes = saves]
  <2>1. n \in Jobs(Sound)
    BY <1>1, <1>4 DEF Jobs, Steps
  <2>2. n.at = "store" /\ n.user = j.user /\ n.writes = saves
    BY <1>1 DEF Jobs
  <2>3. job' = [job EXCEPT ![s] = n]
    BY <1>8
  <2> HIDE DEF n
  <2>4. Ready(n, leadership')
    BY <1>2, <1>8, <2>2 DEF Ready
  <2> HIDE DEF j
  <2>5. QED
    BY <1>5, <1>61, <2>1, <2>3, <2>4, ContinueKeeps
<1>9. CASE job' = [job EXCEPT ![s] = Idle]
  <2>1. Ready(Idle, leadership') /\ Idle \in Jobs(Sound)
    BY IdleJob
  <2> HIDE DEF j
  <2>2. QED
    BY <1>5, <1>61, <1>9, <2>1, ContinueKeeps
<1>10. QED
  BY <1>6, <1>7, <1>8, <1>9

LEMMA ServeStep ==
  ASSUME Inv, NEW s \in Sessions, Serve(s)
  PROVE  Inv'
<1> DEFINE j == job[s]
<1>0. /\ profile \in [Users -> Sound] /\ leadership \in Seq(Requests)
      /\ j \in Jobs(Sound) /\ Ready(j, leadership) /\ cutOff \subseteq Nat
      /\ j.writes \in Seq(Sound) /\ Len(leadership) \in Nat
  BY LenProperties DEF Inv, TypedWith, Jobs
<1>1. CASE Insert(s)
  <2>1. j.user \in Users /\ j.kind \in Kinds
    BY <1>0, <1>1 DEF Insert, Ready, Jobs
  <2>2. leadership' = Append(leadership, Filed(j.user, j.kind))
    BY <1>1 DEF Insert
  <2>3. /\ leadership' \in Seq(Requests) /\ Len(leadership) <= Len(leadership')
        /\ \A i \in 1 .. Len(leadership) : leadership'[i].kind = leadership[i].kind
    BY <2>1, <2>2, FiledType
  <2>4. job' = [job EXCEPT ![s] = Idle] /\ profile' = profile
        /\ starts' = starts /\ overlapped' = overlapped /\ cutOff' = cutOff
    BY <1>1 DEF Insert, Continue
  <2>5. QED
    BY <1>0, <2>3, <2>4, IdleJob, ContinueKeeps
<1>2. CASE Answer(s)
  BY <1>2, AnswerStep
<1>3. CASE Activate(s)
  <2> DEFINE l == IF HasRoom(j.actor) THEN j.actor ELSE NoUser
             q == [j.writes[1] EXCEPT !.status = "APPROVED", !.leader = l]
             n == [j EXCEPT !.at = "store", !.writes = <<q>>]
  <2>1. j.at = "join" /\ j.actor \in Users /\ j.user \in Users /\ j.writes # <<>>
    BY <1>0, <1>3 DEF Activate, Ready
  <2>2. j.writes[1] \in Sound
    BY <1>0, <2>1, ElementOfSeq, LenProperties
  <2>3. l \in Users \union {NoUser}
    BY <2>1
  <2>4. job' = [job EXCEPT ![s] = n] /\ profile' = profile /\ leadership' = leadership
        /\ starts' = starts /\ overlapped' = overlapped /\ cutOff' = cutOff
    BY <1>3 DEF Activate, Continue
  <2> HIDE DEF l
  <2>5. q \in Sound
    BY <2>2, <2>3, SoundChanges DEF Statuses
  <2> HIDE DEF q
  <2>6. <<q>> \in Seq(Sound) /\ <<q>> # <<>>
    BY <2>5
  <2>7. n \in Jobs(Sound)
    BY <1>0, <2>6 DEF Jobs, Steps
  <2>8. Ready(n, leadership)
    BY <1>0, <2>1, <2>6 DEF Ready, Jobs
  <2> HIDE DEF n
  <2>9. QED
    BY <1>0, <2>4, <2>7, <2>8, GoesOn
<1>4. CASE Store(s)
  <2>1. j.at = "store" /\ j.user \in Users /\ j.writes # <<>>
    BY <1>0, <1>4 DEF Store, Ready, Steps
  <2>2. /\ j.writes[1] \in Sound /\ Tail(j.writes) \in Seq(Sound)
        /\ (Len(j.writes) # 1 => Tail(j.writes) # <<>>)
    BY <1>0, <2>1, WritesLeft
  <2>3. profile' \in [Users -> Sound]
    BY <1>0, <1>4, <2>1, <2>2 DEF Store
  <2>4. leadership' = leadership
        /\ starts' = starts /\ overlapped' = overlapped /\ cutOff' = cutOff
    BY <1>4 DEF Store, Continue
  <2>5. CASE Len(j.writes) = 1
    <3>1. job' = [job EXCEPT ![s] = Idle]
      BY <1>4, <2>5 DEF Store, Continue
    <3>2. QED
      BY <1>0, <2>3, <2>4, <3>1, IdleJob, GoesOn
  <2>6. CASE Len(j.writes) # 1
    <3> DEFINE n == [j EXCEPT !.writes = Tail(@)]
    <3>1. job' = [job EXCEPT ![s] = n]
      BY <1>4, <2>6 DEF Store, Continue
    <3>2. n \in Jobs(Sound) /\ Ready(n, leadership)
      BY <1>0, <2>1, <2>2, <2>6 DEF Jobs, Ready
    <3> HIDE DEF n
    <3>3. QED
      BY <1>0, <2>3, <2>4, <3>1, <3>2, GoesOn
  <2>7. QED
    BY <2>5, <2>6
<1>5. CASE Demote(s)
  <2>1. j.at = "demote" /\ j.user \in Users /\ j.writes # <<>>
    BY <1>0, <1>5 DEF Demote, Ready
  <2>2. j.writes[1] \in Sound /\ Tail(j.writes) \in Seq(Sound)
    BY <1>0, <2>1, HeadTailProperties, LenProperties, ElementOfSeq
  <2> DEFINE n == [j EXCEPT !.at = "mentees", !.writes = Tail(@)]
  <2>3. profile' \in [Users -> Sound]
    BY <1>0, <1>5, <2>1, <2>2 DEF Demote
  <2>4. job' = [job EXCEPT ![s] = n] /\ leadership' = leadership
        /\ starts' = starts /\ overlapped' = overlapped /\ cutOff' = cutOff
    BY <1>5 DEF Demote, Continue
  <2>5. n \in Jobs(Sound) /\ Ready(n, leadership)
    BY <1>0, <2>1, <2>2 DEF Jobs, Ready, Steps
  <2> HIDE DEF n
  <2>6. QED
    BY <1>0, <2>3, <2>4, <2>5, GoesOn
<1>6. CASE LoadMentees(s)
  <2> DEFINE ms == Mentees(j.user)
             n == [j EXCEPT !.mentees = ms,
                            !.seen = [u \in Users |-> IF u \in ms THEN profile[u] ELSE Blank]]
  <2>1. j.user \in Users /\ ms \subseteq Users
    BY <1>0, <1>6 DEF LoadMentees, Ready, Mentees
  <2>2. job' = [job EXCEPT ![s] = NextMentee(n)]
        /\ profile' = profile /\ leadership' = leadership
        /\ starts' = starts /\ overlapped' = overlapped /\ cutOff' = cutOff
    BY <1>6 DEF LoadMentees, Continue
  <2> HIDE DEF ms
  <2>3. n \in Jobs(Sound) /\ n.user \in Users
    BY <1>0, <2>1, BlankSound DEF Jobs
  <2> HIDE DEF n
  <2>4. QED
    BY <1>0, <2>2, <2>3, NextMenteeJob, GoesOn
<1>7. CASE Free(s)
  <2>1. PICK m \in j.mentees :
          /\ profile' = [profile EXCEPT ![m] = [j.seen[m] EXCEPT !.leader = NoUser]]
          /\ Continue(s, [j EXCEPT !.at = "pair", !.freed = m,
                                   !.mentees = @ \ {m}, !.seen[m] = Blank])
    BY <1>7 DEF Free
  <2> DEFINE n == [j EXCEPT !.at = "pair", !.freed = m,
                            !.mentees = @ \ {m}, !.seen[m] = Blank]
             f == [j.seen[m] EXCEPT !.leader = NoUser]
  <2>2. /\ j.at = "free" /\ j.user \in Users /\ m \in Users
        /\ j.seen \in [Users -> Sound] /\ j.seen[m] \in Sound
    BY <1>0, <1>7 DEF Free, Ready, Jobs
  <2>3. f \in Sound
    BY <2>2, SoundChanges DEF Statuses
  <2>4. profile' \in [Users -> Sound]
    BY <1>0, <2>1, <2>2, <2>3
  <2>5. job' = [job EXCEPT ![s] = n] /\ leadership' = leadership
        /\ starts' = starts /\ overlapped' = overlapped /\ cutOff' = cutOff
    BY <1>7, <2>1 DEF Free, Continue
  <2>6. n \in Jobs(Sound)
    BY <1>0, <2>2, BlankSound DEF Jobs, Steps
  <2>7. Ready(n, leadership)
    BY <1>0, <2>2 DEF Ready, Jobs
  <2> HIDE DEF n, f
  <2>8. QED
    BY <1>0, <2>4, <2>5, <2>6, <2>7, GoesOn
<1>8. CASE Pair(s)
  <2>1. j.user \in Users /\ j.freed \in Users
    BY <1>0, <1>8 DEF Pair, Ready
  <2>2. leadership' = leadership \/ leadership' = Append(leadership, Filed(j.freed, "PAIR"))
    BY <1>8 DEF Pair
  <2>3. /\ leadership' \in Seq(Requests) /\ Len(leadership) <= Len(leadership')
        /\ \A i \in 1 .. Len(leadership) : leadership'[i].kind = leadership[i].kind
    BY <2>1, <2>2, FiledType DEF Kinds
  <2>4. job' = [job EXCEPT ![s] = NextMentee(j)] /\ profile' = profile
        /\ starts' = starts /\ overlapped' = overlapped /\ cutOff' = cutOff
    BY <1>8 DEF Pair, Continue
  <2>5. QED
    BY <1>0, <2>1, <2>3, <2>4, NextMenteeJob, ContinueKeeps
<1>9. QED
  BY <1>1, <1>2, <1>3, <1>4, <1>5, <1>6, <1>7, <1>8 DEF Serve

LEMMA DieStep ==
  ASSUME Inv, NEW s \in Sessions, Die(s)
  PROVE  Inv'
<1>1. /\ profile' \in [Users -> Sound] /\ leadership' \in Seq(Requests)
      /\ leadership' = leadership /\ Len(leadership) \in Nat
      /\ job' = [job EXCEPT ![s] = Idle] /\ UNCHANGED <<starts, overlapped>>
  BY LenProperties DEF Inv, TypedWith, Die
<1>2. cutOff' \subseteq Nat
  BY DEF Inv, TypedWith, Die
<1>3. QED
  BY <1>1, <1>2, IdleJob, GoesOn

LEMMA StepInv == Inv /\ [Next]_vars => Inv'
<1> SUFFICES ASSUME Inv, [Next]_vars PROVE Inv'
  OBVIOUS
<1>1. CASE UNCHANGED vars
  BY <1>1 DEF vars, Inv, TypedWith, Ready
<1>2. CASE Next
  BY <1>2, AskStep, DecideStep, ServeStep, DieStep DEF Next
<1>3. QED
  BY <1>1, <1>2

LEMMA SpecInv == Spec => []Inv
BY InitInv, StepInv, PTL DEF Spec

\* Every reachable state is well typed.
THEOREM TypeCorrect == Spec => []TypeOK
<1>1. Sound \subseteq Profiles
  BY DEF Sound
<1>2. /\ [Users -> Sound] \subseteq [Users -> Profiles]
      /\ Seq(Sound) \subseteq Seq(Profiles)
  BY <1>1
<1>3. Jobs(Sound) \subseteq Jobs(Profiles)
  BY <1>2 DEF Jobs
<1>4. [Sessions -> Jobs(Sound)] \subseteq [Sessions -> Jobs(Profiles)]
  BY <1>3
<1>5. TypedWith(Sound) => TypedWith(Profiles)
  BY <1>2, <1>4 DEF TypedWith, Jobs
<1>6. Inv => TypeOK
  BY <1>5 DEF Inv, TypeOK
<1>7. QED
  BY SpecInv, <1>6, PTL

\* A moderator is a leader (can_moderate, resign_leadership), whatever web
\* requests overlap, work on old copies or end half-way.
THEOREM ModeratorsLeadHolds == Spec => []ModeratorsLead
<1>1. Inv => ModeratorsLead
  BY DEF Inv, TypedWith, ModeratorsLead, Sound, IsLeader
<1>2. QED
  BY SpecInv, <1>1, PTL
-----------------------------------------------------------------------------
(* Web requests that do not overlap.                                         *)

\* A leader of u that w may name: none, u, or one who is a leader.
LeaderStands(u, w) == w.leader \in {NoUser, u} \/ IsLeader(profile[w.leader])

\* No mentee of u is left without a leader when w is saved as the profile of u.
KeepsMentees(u, w) == IsLeader(w) \/ \A v \in Users \ {u} : profile[v].leader # u

\* What may be saved as the profile of u.
Good(u, w) == LeaderStands(u, w) /\ KeepsMentees(u, w)

\* The same, of one who steps down and whose mentees are still to be freed.
Kept(u, w) == LeaderStands(u, w) /\ w.status = profile[u].status

IsJoin(i) == i \in DOMAIN leadership /\ leadership[i].kind = "JOIN"

\* An application and the status of the applicant agree, but for that of i.
StandBut(i) ==
  \A k \in DOMAIN leadership : LET r == leadership[k] IN
    (r.kind = "JOIN" /\ k \notin cutOff /\ k # i) =>
      profile[r.owner].status =
        IF r.response \in {"APPROVED", "DENIED"} THEN r.response ELSE "PENDING"

JoinsOnce ==
  \A i \in DOMAIN leadership : leadership[i].kind = "JOIN" =>
    /\ profile[leadership[i].owner].status # "NONE"
    /\ \A k \in DOMAIN leadership :
         leadership[k].kind = "JOIN" /\ leadership[k].owner = leadership[i].owner => k = i

\* The mentees who are left to be freed are all there are, as they were loaded.
KnowsMentees(j) ==
  /\ \A v \in Users \ {j.user} : profile[v].leader = j.user => v \in j.mentees
  /\ \A v \in j.mentees : j.seen[v] = profile[v]

SafeInsert(j) ==
  /\ j.at \in {"idle", "insert"} => j.request = 0
  /\ j.at = "insert" /\ j.kind = "JOIN" =>
       /\ profile[j.user].status = "PENDING"
       /\ \A i \in DOMAIN leadership :
            leadership[i].kind = "JOIN" => leadership[i].owner # j.user

SafeAnswer(j) ==
  j.at = "answer" =>
    /\ IsLeader(profile[j.actor])
    /\ LET r == leadership[j.request] IN
       /\ r.owner = j.user /\ r.response \in {"PENDING", "ACTIVE"}
       /\ r.kind # "PAIR" => j.writes = <<profile[j.user]>>
       /\ r.kind = "JOIN" /\ j.request \notin cutOff => profile[j.user].status = "PENDING"

SafeJoin(j) ==
  j.at = "join" =>
    /\ IsLeader(profile[j.actor])
    /\ leadership[j.request] =
         [kind |-> "JOIN", owner |-> j.user, response |-> "APPROVED", by |-> j.actor]
    /\ j.writes = <<profile[j.user]>>

SafeStore(j) ==
  j.at = "store" =>
    /\ IsJoin(j.request) => leadership[j.request].owner = j.user
    /\ \A i \in DOMAIN j.writes :
         /\ Good(j.user, j.writes[i])
         /\ IF IsJoin(j.request)
            THEN /\ leadership[j.request].response \in {"APPROVED", "DENIED"}
                 /\ j.writes[i].status = leadership[j.request].response
            ELSE j.writes[i].status = profile[j.user].status

SafeResign(j) ==
  j.at \in {"demote", "mentees", "free", "pair"} =>
    /\ j.request = 0
    /\ \A i \in DOMAIN j.writes : Kept(j.user, j.writes[i])
    /\ j.at = "demote" => IsLeader(j.writes[1])
    /\ j.at \in {"free", "pair"} => KnowsMentees(j)

Safe(j) == SafeInsert(j) /\ SafeAnswer(j) /\ SafeJoin(j) /\ SafeStore(j) /\ SafeResign(j)

\* Only the process s serves a web request.
Only(s) == \A t \in Sessions \ {s} : job[t] = Idle

AloneInv == ~overlapped => \A s \in Sessions : job[s] # Idle => Only(s)

SerialInv ==
  ~overlapped =>
    /\ \A u \in Users : Good(u, profile[u])
    /\ JoinsOnce
    /\ \A s \in Sessions : Only(s) => StandBut(job[s].request)
    /\ \A s \in Sessions : Safe(job[s])
    /\ Sessions = {} => leadership = <<>>


\* A web request begins, or one goes on: if none overlapped, the process is alone.
LEMMA BeginAlone ==
  ASSUME Inv, AloneInv, NEW s \in Sessions, NEW j, Begin(s, j)
  PROVE  /\ AloneInv'
         /\ ~overlapped' => ~overlapped /\ Only(s) /\ job[s] = Idle
<1>1. /\ job \in [Sessions -> Jobs(Sound)] /\ overlapped \in BOOLEAN
      /\ job[s] = Idle /\ job' = [job EXCEPT ![s] = j]
      /\ overlapped' = (overlapped \/ \E t \in Sessions \ {s} : job[t] # Idle)
  BY DEF Inv, TypedWith, Jobs, Begin
<1>2. ~overlapped' => ~overlapped /\ Only(s) /\ Only(s)'
  BY <1>1 DEF Only
<1>3. \A t \in Sessions : Only(s)' /\ job'[t] # Idle => t = s
  BY DEF Only
<1>4. QED
  BY <1>1, <1>2, <1>3 DEF AloneInv

LEMMA GoAlone ==
  ASSUME Inv, AloneInv, NEW s \in Sessions, NEW j, job[s] # Idle,
         job' = [job EXCEPT ![s] = j], overlapped' = overlapped
  PROVE  AloneInv' /\ (~overlapped => Only(s))
<1>1. job \in [Sessions -> Jobs(Sound)]
  BY DEF Inv, TypedWith, Jobs
<1>2. ~overlapped => Only(s) /\ Only(s)'
  BY <1>1 DEF AloneInv, Only
<1>3. \A t \in Sessions : Only(s)' /\ job'[t] # Idle => t = s
  BY DEF Only
<1>4. QED
  BY <1>1, <1>2, <1>3 DEF AloneInv

\* A process that serves nothing relies on nothing.
LEMMA IdleSafe == Safe(Idle) /\ Idle.request = 0
BY DEF Safe, SafeInsert, SafeAnswer, SafeJoin, SafeStore, SafeResign, Idle

\* A web request begins and saves nothing.
LEMMA StartKeeps ==
  ASSUME Inv, AloneInv, SerialInv, NEW s \in Sessions, NEW j, Start(s, j),
         (~overlapped /\ \A t \in Sessions : job[t] = Idle) => Safe(j)
  PROVE  SerialInv'
<1> SUFFICES ASSUME ~overlapped'
             PROVE  SerialInv'
  BY DEF SerialInv
<1>1. /\ ~overlapped /\ Only(s) /\ job[s] = Idle /\ \A t \in Sessions : job[t] = Idle
  BY BeginAlone DEF Start, Only
<1>2. /\ profile' = profile /\ leadership' = leadership /\ cutOff' = cutOff
      /\ job \in [Sessions -> Jobs(Sound)] /\ job' = [job EXCEPT ![s] = j]
  BY DEF Start, Begin, Inv, TypedWith, Jobs
<1>3. /\ \A u \in Users : Good(u, profile[u])
      /\ JoinsOnce /\ StandBut(0) /\ Safe(Idle) /\ Safe(j)
  BY <1>1, IdleSafe DEF SerialInv
<1>31. \A i \in DOMAIN leadership : i # 0
  BY LenProperties DEF Inv, TypedWith
<1>4. \A u \in Users : Good(u, profile[u])'
  BY <1>2, <1>3 DEF Good, LeaderStands, KeepsMentees
<1>5. JoinsOnce'
  BY <1>2, <1>3 DEF JoinsOnce
<1>6. \A i : StandBut(i)'
  BY <1>2, <1>3, <1>31 DEF StandBut
<1>7. Safe(j)' /\ Safe(Idle)'
  <2>1. \A u, w : Good(u, w)' <=> Good(u, w)
    BY <1>2 DEF Good, LeaderStands, KeepsMentees
  <2>2. \A u, w : Kept(u, w)' <=> Kept(u, w)
    BY <1>2 DEF Kept, LeaderStands
  <2>3. ASSUME NEW k, Safe(k) PROVE Safe(k)'
    <3>1. SafeInsert(k)' /\ SafeAnswer(k)' /\ SafeJoin(k)'
      BY <1>2, <2>3 DEF Safe, SafeInsert, SafeAnswer, SafeJoin
    <3>2. SafeStore(k)'
      BY <1>2, <2>1, <2>3 DEF Safe, SafeStore, IsJoin
    <3>3. SafeResign(k)'
      BY <1>2, <2>2, <2>3 DEF Safe, SafeResign, KnowsMentees
    <3>4. QED
      BY <3>1, <3>2, <3>3 DEF Safe
  <2>4. QED
    BY <1>3, <2>3
<1>8. \A t \in Sessions : job'[t] = j \/ job'[t] = Idle
  BY <1>1, <1>2
<1>9. QED
  BY <1>4, <1>5, <1>6, <1>7, <1>8 DEF SerialInv

\* The profile w is saved as that of u: what may be saved of u stays so.
LEMMA StoreGood ==
  ASSUME profile \in [Users -> Sound], NEW u \in Users, NEW w \in Sound,
         \A v \in Users : Good(v, profile[v]), Good(u, w),
         profile' = [profile EXCEPT ![u] = w], leadership' = leadership
  PROVE  /\ \A v \in Users : Good(v, profile[v])'
         /\ \A x \in Sound : Good(u, x) => Good(u, x)'
<1>1. /\ profile'[u] = w
      /\ \A v \in Users \ {u} : profile'[v] = profile[v]
      /\ \A v \in Users : profile[v].leader \in Users \union {NoUser}
      /\ \A x \in Sound : x.leader \in Users \union {NoUser}
  BY DEF Sound, Profiles
<1>3. ASSUME NEW x \in Sound, Good(u, x)
      PROVE  Good(u, x)'
  BY <1>1, <1>3 DEF Good, LeaderStands, KeepsMentees
<1>4. ASSUME NEW v \in Users \ {u}
      PROVE  Good(v, profile[v])'
  <2>1. /\ Good(v, profile[v]) /\ Good(u, profile[u])
    OBVIOUS
  <2>2. LeaderStands(v, profile[v])'
    BY <1>1, <2>1 DEF Good, LeaderStands, KeepsMentees
  <2>4. KeepsMentees(v, profile[v])'
    <3>1. w.leader = v => IsLeader(profile[v])
      BY MentorshipAssumption DEF Good, LeaderStands
    <3>2. IsLeader(profile[v]) \/ \A t \in Users \ {v} : profile[t].leader # v
      BY <2>1 DEF Good, KeepsMentees
    <3>3. IsLeader(profile[v]) \/ \A t \in Users \ {v} : profile'[t].leader # v
      BY <1>1, <3>1, <3>2
    <3>4. QED
      BY <1>1, <3>3 DEF KeepsMentees
  <2>5. QED
    BY <2>2, <2>4 DEF Good
<1>5. Good(u, profile[u])'
  BY <1>1, <1>3
<1>6. QED
  BY <1>3, <1>4, <1>5

\* No profile is saved.
LEMMA ProfilesStay ==
  ASSUME profile' = profile
  PROVE  /\ \A v, w : Good(v, w) => Good(v, w)'
         /\ \A v, w : Kept(v, w) => Kept(v, w)'
BY DEF Good, Kept, LeaderStands, KeepsMentees

\* The same, of one whose mentee is freed or who is saved with the same flags.
LEMMA KeptStays ==
  ASSUME profile \in [Users -> Sound], NEW m \in Users, NEW w \in Sound,
         IsLeader(profile[m]) => IsLeader(w), w.status = profile[m].status,
         profile' = [profile EXCEPT ![m] = w], leadership' = leadership
  PROVE  \A u \in Users, x \in Sound : Kept(u, x) => Kept(u, x)'
<1>1. /\ \A v \in Users : profile'[v] = IF v = m THEN w ELSE profile[v]
      /\ \A x \in Sound : x.leader \in Users \union {NoUser}
  BY DEF Sound, Profiles
<1>2. QED
  BY <1>1 DEF Kept, LeaderStands

\* The answers and the states of the applicants, when a profile is saved with
\* the status it has, or with the answer to the application i of its owner.
LEMMA StatusStays ==
  ASSUME Inv, JoinsOnce, NEW i, StandBut(i),
         NEW u \in Users, NEW w \in Sound,
         profile' = [profile EXCEPT ![u] = w],
         leadership' = leadership, cutOff' = cutOff,
         IsJoin(i) => leadership[i].owner = u,
         IF IsJoin(i) THEN /\ leadership[i].response \in {"APPROVED", "DENIED"}
                           /\ w.status = leadership[i].response
         ELSE w.status = profile[u].status
  PROVE  JoinsOnce' /\ \A k : StandBut(k)'
<1>1. /\ profile \in [Users -> Sound]
      /\ \A k \in DOMAIN leadership : leadership[k].owner \in Users
  <2>1. profile \in [Users -> Sound] /\ leadership \in Seq(Requests)
    BY DEF Inv, TypedWith
  <2>2. \A k \in DOMAIN leadership : leadership[k] \in Requests
    BY <2>1, ElementOfSeq, LenProperties
  <2>3. QED
    BY <2>1, <2>2 DEF Requests
<1>2. \A v \in Users : profile'[v] = IF v = u THEN w ELSE profile[v]
  BY <1>1
<1>3. JoinsOnce'
  BY <1>1, <1>2 DEF JoinsOnce, IsJoin
<1>4. ASSUME NEW k \in DOMAIN leadership, leadership[k].kind = "JOIN", k \notin cutOff
      PROVE  profile'[leadership[k].owner].status =
               IF leadership[k].response \in {"APPROVED", "DENIED"}
               THEN leadership[k].response ELSE "PENDING"
  BY <1>1, <1>2, <1>4 DEF JoinsOnce, StandBut, IsJoin
<1>5. QED
  BY <1>3, <1>4 DEF StandBut

\* What a web request finds when it begins and no other is served.
Calm == (\A u \in Users : Good(u, profile[u])) /\ JoinsOnce /\ StandBut(0)

LEMMA NoZero == ASSUME Inv PROVE ~IsJoin(0)
BY LenProperties DEF Inv, TypedWith, IsJoin

LEMMA SavingSafe ==
  ASSUME Inv, NEW u \in Users, NEW w,
         \A i \in DOMAIN w : Good(u, w[i]) /\ w[i].status = profile[u].status
  PROVE  Safe(Saving(u, w))
<1> DEFINE j == Saving(u, w)
<1>1. j.at = "store" /\ j.user = u /\ j.request = 0 /\ j.writes = w
  BY DEF Saving, Idle
<1> HIDE DEF j
<1>2. SafeStore(j)
  BY <1>1, NoZero DEF SafeStore
<1>3. Safe(j)
  BY <1>1, <1>2 DEF Safe, SafeInsert, SafeAnswer, SafeJoin, SafeResign
<1>4. QED
  BY <1>3 DEF j

\* What may be saved of u, when the profile of u is as it may be.
LEMMA GoodChanges ==
  ASSUME Inv, NEW u \in Users, Good(u, profile[u])
  PROVE  /\ Good(u, Promoted(profile[u])) /\ Good(u, Demoted(profile[u]))
         /\ Good(u, [profile[u] EXCEPT !.leader = NoUser])
         /\ \A x \in Statuses : Good(u, [profile[u] EXCEPT !.status = x])
         /\ \A l \in Users : ~IsLeader(profile[u]) /\ IsLeader(profile[l]) =>
              Good(u, [profile[u] EXCEPT !.leader = l])
         /\ Good(u, [Promoted(profile[u]) EXCEPT !.flags = @ \union {"is_moderator"}])
         /\ IsLeader(profile[u]) =>
              Good(u, [profile[u] EXCEPT !.flags = @ \union {"is_moderator"}])
<1>1. profile[u] \in [status : Statuses, flags : SUBSET Flags, leader : Users \union {NoUser}]
  BY DEF Inv, TypedWith, Sound, Profiles
<1>2. QED
  BY <1>1 DEF Good, LeaderStands, KeepsMentees, Promoted, Demoted, IsLeader

LEMMA RespondSafe ==
  ASSUME Inv, Calm, NEW s \in Sessions, NEW a \in Users, NEW i \in DOMAIN leadership,
         NEW x \in Responses, Respond(s, a, i, x), NEW j,
         j = [Idle EXCEPT !.at = "answer", !.actor = a, !.user = leadership[i].owner,
                !.request = i, !.answer = IF StillValid(leadership[i]) THEN x ELSE "CANCELED",
                !.writes = IF leadership[i].kind = "PAIR" THEN <<>>
                           ELSE <<profile[leadership[i].owner]>>]
  PROVE  Safe(j)
<1> DEFINE r == leadership[i]
<1>1. /\ j.at = "answer" /\ j.actor = a /\ j.user = r.owner /\ j.request = i
      /\ r.kind # "PAIR" => j.writes = <<profile[r.owner]>>
  BY DEF Idle
<1>2. i # 0
  BY LenProperties DEF Inv, TypedWith
<1>3. IsLeader(profile[a]) /\ r.response \in {"PENDING", "ACTIVE"}
  BY DEF Respond
<1>4. r.kind = "JOIN" /\ i \notin cutOff => profile[r.owner].status = "PENDING"
  BY <1>2, <1>3 DEF Calm, StandBut
<1>5. SafeAnswer(j)
  BY <1>1, <1>3, <1>4 DEF SafeAnswer
<1>6. QED
  BY <1>1, <1>5 DEF Safe, SafeInsert, SafeJoin, SafeStore, SafeResign

LEMMA ResigningSafe ==
  ASSUME Inv, NEW u \in Users, NEW c \in BOOLEAN, Good(u, profile[u]), IsLeader(profile[u])
  PROVE  Safe(Resigning(u, c))
<1> DEFINE p == profile[u]
           d == IF CanModerate(p) THEN Demoted(p) ELSE p
           r == [d EXCEPT !.flags = @ \ {"is_leader"}]
           w1 == IF CanModerate(p) THEN <<d>> ELSE <<>>
           w2 == IF c THEN <<r>> ELSE <<>>
           a == IF CanModerate(p) THEN "demote" ELSE "mentees"
           j == Resigning(u, c)
<1>1. p \in [status : Statuses, flags : SUBSET Flags, leader : Users \union {NoUser}]
  BY DEF Inv, TypedWith, Sound, Profiles
<1>2. /\ d \in [status : Statuses, flags : SUBSET Flags, leader : Users \union {NoUser}]
      /\ d.status = p.status /\ d.leader = p.leader /\ IsLeader(d)
  BY <1>1 DEF Demoted, IsLeader
<1>3. r.status = p.status /\ r.leader = p.leader /\ ~IsLeader(r)
  BY <1>2 DEF IsLeader
<1>4. Kept(u, d) /\ Kept(u, r)
  BY <1>2, <1>3 DEF Kept, Good, LeaderStands
<1>5. /\ j.at = a /\ j.user = u /\ j.request = 0 /\ j.writes = w1 \o w2
  BY DEF Resigning, Idle
<1> HIDE DEF d, r, j
<1>6. /\ \A i \in DOMAIN (w1 \o w2) : Kept(u, (w1 \o w2)[i])
      /\ CanModerate(p) => (w1 \o w2)[1] = d
  <2>1. CASE CanModerate(p) /\ c
    BY <1>4, <2>1
  <2>2. CASE CanModerate(p) /\ ~c
    BY <1>4, <2>2
  <2>3. CASE ~CanModerate(p) /\ c
    BY <1>4, <2>3
  <2>4. CASE ~CanModerate(p) /\ ~c
    BY <1>4, <2>4
  <2>5. QED
    BY <2>1, <2>2, <2>3, <2>4
<1> HIDE DEF w1, w2
<1>7. SafeResign(j)
  BY <1>2, <1>5, <1>6 DEF SafeResign
<1>8. Safe(j)
  <2>1. j.at \in {"demote", "mentees"}
    BY <1>5 DEF a
  <2>2. QED
    BY <1>7, <2>1 DEF Safe, SafeInsert, SafeAnswer, SafeJoin, SafeStore
<1>9. QED
  BY <1>8 DEF j

\* A web request that begins with saves of u to do.
LEMMA SavingKeeps ==
  ASSUME Inv, AloneInv, SerialInv, NEW s \in Sessions, NEW u \in Users, NEW w,
         Start(s, Saving(u, w)),
         Calm => \A i \in DOMAIN w : Good(u, w[i]) /\ w[i].status = profile[u].status
  PROVE  SerialInv'
<1> DEFINE j == Saving(u, w)
<1>1. (~overlapped /\ \A t \in Sessions : job[t] = Idle) => Safe(j)
  BY SavingSafe, IdleSafe DEF SerialInv, Calm, Only
<1>2. Start(s, j)
  OBVIOUS
<1> HIDE DEF j
<1>3. QED
  BY <1>1, <1>2, StartKeeps

LEMMA ResigningKeeps ==
  ASSUME Inv, AloneInv, SerialInv, NEW s \in Sessions, NEW u \in Users, NEW c \in BOOLEAN,
         Start(s, Resigning(u, c)), IsLeader(profile[u])
  PROVE  SerialInv'
<1> DEFINE j == Resigning(u, c)
<1>1. (~overlapped /\ \A t \in Sessions : job[t] = Idle) => Safe(j)
  BY ResigningSafe DEF SerialInv
<1>2. Start(s, j)
  OBVIOUS
<1> HIDE DEF j
<1>3. QED
  BY <1>1, <1>2, StartKeeps

LEMMA ApplyKeeps ==
  ASSUME Inv, AloneInv, SerialInv, NEW s \in Sessions, NEW u \in Users, Apply(s, u)
  PROVE  SerialInv'
<1> DEFINE w == [profile[u] EXCEPT !.status = "PENDING"]
<1>1. PICK j : /\ j = [Idle EXCEPT !.at = "insert", !.user = u, !.kind = "JOIN"]
               /\ Begin(s, j)
  BY DEF Apply
<1>2. j.at = "insert" /\ j.user = u /\ j.kind = "JOIN" /\ j.request = 0
  BY <1>1 DEF Idle
<1> SUFFICES ASSUME ~overlapped'
             PROVE  SerialInv'
  BY DEF SerialInv
<1>3. /\ ~overlapped /\ Only(s) /\ job[s] = Idle
  BY <1>1, BeginAlone
<1>4. /\ \A v \in Users : Good(v, profile[v])
      /\ JoinsOnce /\ StandBut(0)
  BY <1>3, IdleSafe DEF SerialInv
<1>5. /\ profile \in [Users -> Sound] /\ profile[u].status = "NONE"
      /\ job \in [Sessions -> Jobs(Sound)] /\ job' = [job EXCEPT ![s] = j]
      /\ leadership' = leadership /\ cutOff' = cutOff
      /\ \A i \in DOMAIN leadership : leadership[i].owner \in Users
  <2>1. leadership \in Seq(Requests)
    BY DEF Inv, TypedWith
  <2>2. \A i \in DOMAIN leadership : leadership[i] \in Requests
    BY <2>1, ElementOfSeq, LenProperties
  <2>3. QED
    BY <1>1, <2>2 DEF Apply, Begin, Inv, TypedWith, Jobs, Requests
<1>6. /\ w \in Sound /\ w.status = "PENDING" /\ Good(u, w)
  <2>1. profile[u] \in Sound /\ Good(u, profile[u])
    BY <1>4, <1>5
  <2>2. "PENDING" \in Statuses /\ NoUser \in Users \union {NoUser}
    BY DEF Statuses
  <2>3. w \in Sound
    BY <2>1, <2>2, SoundChanges
  <2>4. Good(u, w)
    BY <2>1, <2>2, GoodChanges
  <2>5. w.status = "PENDING"
    BY <2>1 DEF Sound, Profiles
  <2>6. QED
    BY <2>3, <2>4, <2>5
<1>7. profile' = [profile EXCEPT ![u] = w]
  BY DEF Apply
<1> HIDE DEF w
<1>8. \A v \in Users : Good(v, profile[v])'
  BY <1>4, <1>5, <1>6, <1>7, StoreGood
<1>9. \A v \in Users : profile'[v] = IF v = u THEN w ELSE profile[v]
  BY <1>5, <1>7
<1>10. /\ JoinsOnce' /\ StandBut(0)'
       /\ \A i \in DOMAIN leadership : leadership[i].kind = "JOIN" => leadership[i].owner # u
  BY <1>4, <1>5, <1>6, <1>9 DEF JoinsOnce, StandBut
<1>11. Safe(j)' /\ Safe(Idle)'
  <2>1. SafeInsert(j)'
    BY <1>2, <1>5, <1>6, <1>9, <1>10 DEF SafeInsert
  <2>2. Safe(j)'
    BY <1>2, <2>1 DEF Safe, SafeAnswer, SafeJoin, SafeStore, SafeResign
  <2>3. Safe(Idle)'
    BY DEF Safe, SafeInsert, SafeAnswer, SafeJoin, SafeStore, SafeResign, Idle
  <2>4. QED
    BY <2>2, <2>3
<1>12. \A t \in Sessions : job'[t] \in {j, Idle} /\ job'[t].request = 0
  BY <1>2, <1>3, <1>5, IdleSafe DEF Only
<1>13. QED
  BY <1>8, <1>10, <1>11, <1>12 DEF SerialInv

LEMMA SerialAsk ==
  ASSUME Inv, AloneInv, SerialInv, NEW s \in Sessions, NEW u \in Users, Ask(s, u)
  PROVE  SerialInv'
<1>1. CASE Apply(s, u)
  BY <1>1, ApplyKeeps
<1>2. CASE Resign(s, u)
  BY <1>2, ResigningKeeps DEF Resign
<1>3. CASE Settings(s, u)
  BY <1>3, SavingKeeps DEF Settings, Calm
<1>4. ASSUME NEW k \in {"LEAD", "PAIR"}, Request(s, u, k) PROVE SerialInv'
  <2>1. PICK j : /\ j = [Idle EXCEPT !.at = "insert", !.user = u, !.kind = k]
                 /\ Start(s, j)
    BY <1>4 DEF Request
  <2>2. j.at = "insert" /\ j.kind # "JOIN" /\ j.request = 0
    BY <2>1 DEF Idle
  <2>3. Safe(j)
    BY <2>2 DEF Safe, SafeInsert, SafeAnswer, SafeJoin, SafeStore, SafeResign
  <2>4. QED
    BY <2>1, <2>3, StartKeeps
<1>5. QED
  BY <1>1, <1>2, <1>3, <1>4 DEF Ask

LEMMA SerialDecide ==
  ASSUME Inv, AloneInv, SerialInv, NEW s \in Sessions, NEW a \in Users, Decide(s, a)
  PROVE  SerialInv'
<1>0. Calm => \A u \in Users : Good(u, profile[u])
  BY DEF Calm
<1>1. ASSUME NEW i \in DOMAIN leadership, NEW x \in Responses, Respond(s, a, i, x)
      PROVE  SerialInv'
  <2>1. PICK j :
          /\ j = [Idle EXCEPT !.at = "answer", !.actor = a, !.user = leadership[i].owner,
                !.request = i, !.answer = IF StillValid(leadership[i]) THEN x ELSE "CANCELED",
                !.writes = IF leadership[i].kind = "PAIR" THEN <<>>
                           ELSE <<profile[leadership[i].owner]>>]
          /\ Start(s, j)
    BY <1>1 DEF Respond
  <2>2. (~overlapped /\ \A t \in Sessions : job[t] = Idle) => Calm
    BY IdleSafe DEF SerialInv, Calm, Only
  <2>3. Calm => Safe(j)
    BY <1>1, <2>1, RespondSafe
  <2>4. QED
    BY <2>1, <2>2, <2>3, StartKeeps
<1>2. ASSUME NEW u \in Users, Ban(s, a, u) PROVE SerialInv'
  BY <1>2, ResigningKeeps DEF Ban
<1>3. ASSUME NEW u \in Users, Guide(s, a, u) PROVE SerialInv'
  <2>1. CASE ~IsLeader(profile[u]) /\ Start(s, Saving(u, <<Promoted(profile[u])>>))
    <3>1. Calm => /\ Good(u, Promoted(profile[u]))
                  /\ Promoted(profile[u]).status = profile[u].status
      <4>1. Calm => Good(u, Promoted(profile[u]))
        BY <1>0, GoodChanges
      <4>2. Promoted(profile[u]).status = profile[u].status
        BY DEF Promoted, Inv, TypedWith, Sound, Profiles
      <4>3. QED
        BY <4>1, <4>2
    <3>2. QED
      BY <2>1, <3>1, SavingKeeps
  <2>2. CASE IsLeader(profile[u]) /\ Start(s, Resigning(u, TRUE))
    BY <2>2, ResigningKeeps
  <2>3. QED
    BY <1>3, <2>1, <2>2 DEF Guide
<1>4. ASSUME NEW u \in Users, Moderator(s, a, u) PROVE SerialInv'
  <2> DEFINE p == profile[u]
             l == IF IsLeader(p) THEN p ELSE Promoted(p)
             m == [l EXCEPT !.flags = @ \union {"is_moderator"}]
  <2>1. p \in Profiles
    BY DEF Inv, TypedWith, Sound
  <2>2. Calm => /\ Good(u, Demoted(p)) /\ Good(u, l) /\ Good(u, m)
    BY <1>0, GoodChanges
  <2>3. Demoted(p).status = p.status /\ l.status = p.status /\ m.status = p.status
    BY <2>1 DEF Profiles, Demoted, Promoted
  <2>4. \/ Start(s, Saving(u, <<Demoted(p)>>))
        \/ Start(s, Saving(u, <<m>>))
        \/ Start(s, Saving(u, <<l, m>>))
    BY <1>4 DEF Moderator
  <2> HIDE DEF l, m
  <2>5. QED
    BY <2>2, <2>3, <2>4, SavingKeeps
<1>5. ASSUME NEW u \in Users, Abandon(s, a, u) PROVE SerialInv'
  <2> DEFINE p == [profile[u] EXCEPT !.leader = NoUser]
  <2>1. (Calm => Good(u, p)) /\ p.status = profile[u].status
    BY <1>0, GoodChanges DEF Inv, TypedWith, Sound, Profiles
  <2>2. Start(s, Saving(u, <<p>>))
    BY <1>5 DEF Abandon
  <2> HIDE DEF p
  <2>3. QED
    BY <2>1, <2>2, SavingKeeps
<1>6. ASSUME NEW u \in Users, NEW l \in Users, Transfer(s, a, u, l) PROVE SerialInv'
  <2> DEFINE p == [profile[u] EXCEPT !.leader = l]
  <2>1. ~IsLeader(profile[u]) /\ IsLeader(profile[l]) /\ Start(s, Saving(u, <<p>>))
    BY <1>6 DEF Transfer
  <2>2. (Calm => Good(u, p)) /\ p.status = profile[u].status
    BY <1>0, <2>1, GoodChanges DEF Inv, TypedWith, Sound, Profiles
  <2> HIDE DEF p
  <2>3. QED
    BY <2>1, <2>2, SavingKeeps
<1>7. QED
  BY <1>1, <1>2, <1>3, <1>4, <1>5, <1>6 DEF Decide

\* A web request goes on: what the only one served leaves behind is as it may be.
LEMMA ContinueSerial ==
  ASSUME Inv, AloneInv, NEW s \in Sessions, NEW j, job[s] # Idle,
         job' = [job EXCEPT ![s] = j], overlapped' = overlapped,
         (~overlapped /\ Only(s)) =>
           /\ \A u \in Users : Good(u, profile[u])'
           /\ JoinsOnce' /\ StandBut(j.request)' /\ Safe(j)'
  PROVE  SerialInv'
<1> SUFFICES ASSUME ~overlapped'
             PROVE  SerialInv'
  BY DEF SerialInv
<1>1. ~overlapped /\ Only(s)
  BY GoAlone
<1>2. /\ \A u \in Users : Good(u, profile[u])'
      /\ JoinsOnce' /\ StandBut(j.request)' /\ Safe(j)'
  BY <1>1
<1>3. \A t \in Sessions : job'[t] = IF t = s THEN j ELSE Idle
  BY <1>1 DEF Only, Inv, TypedWith
<1>4. Safe(Idle)'
  BY DEF Safe, SafeInsert, SafeAnswer, SafeJoin, SafeStore, SafeResign, Idle
<1>5. ASSUME NEW t \in Sessions, Only(t)'
      PROVE  StandBut(job[t].request)'
  <2>1. CASE t = s
    BY <1>2, <1>3, <2>1
  <2>2. CASE t # s
    <3>1. job'[s] = Idle
      BY <1>5, <2>2 DEF Only
    <3>2. QED
      BY <1>2, <1>3, <2>2, <3>1
  <2>3. QED
    BY <2>1, <2>2
<1>6. QED
  BY <1>2, <1>3, <1>4, <1>5 DEF SerialInv

\* What the only web request that is served relies on.
LEMMA Served ==
  ASSUME SerialInv, ~overlapped, NEW s \in Sessions, Only(s)
  PROVE  /\ \A u \in Users : Good(u, profile[u])
         /\ JoinsOnce /\ StandBut(job[s].request) /\ Safe(job[s])
BY DEF SerialInv

\* A request is filed: no application, or one of a user who has none yet.
LEMMA FiledStays ==
  ASSUME Inv, JoinsOnce, StandBut(0), NEW u \in Users, NEW k \in Kinds,
         k = "JOIN" => /\ profile[u].status = "PENDING"
                       /\ \A i \in DOMAIN leadership :
                            leadership[i].kind = "JOIN" => leadership[i].owner # u,
         leadership' = Append(leadership, Filed(u, k)),
         profile' = profile, cutOff' = cutOff
  PROVE  /\ JoinsOnce' /\ StandBut(0)'
         /\ \A i \in DOMAIN leadership : i \in DOMAIN leadership' /\ leadership'[i] = leadership[i]
<1> DEFINE n == Len(leadership) + 1
<1>1. leadership \in Seq(Requests) /\ Len(leadership) \in Nat /\ DOMAIN leadership = 1 .. Len(leadership)
  BY LenProperties DEF Inv, TypedWith
<1>2. /\ DOMAIN leadership' = 1 .. n /\ leadership'[n] = Filed(u, k)
      /\ \A i \in 1 .. Len(leadership) : leadership'[i] = leadership[i]
  <2>1. Filed(u, k) \in Requests
    BY DEF Filed, Requests, Responses
  <2>2. QED
    BY <1>1, <2>1, AppendProperties
<1>3. \A i \in DOMAIN leadership' : i = n \/ (i \in DOMAIN leadership /\ leadership'[i] = leadership[i])
  BY <1>1, <1>2
<1>4. JoinsOnce'
  BY <1>1, <1>2, <1>3 DEF JoinsOnce, Filed
<1>5. StandBut(0)'
  BY <1>1, <1>2, <1>3 DEF StandBut, Filed
<1>6. QED
  BY <1>1, <1>2, <1>4, <1>5

LEMMA SerialInsert ==
  ASSUME Inv, AloneInv, SerialInv, NEW s \in Sessions, Insert(s)
  PROVE  SerialInv'
<1>1. /\ job[s].at = "insert" /\ job[s] # Idle /\ job[s].user \in Users /\ job[s].kind \in Kinds
      /\ leadership' = Append(leadership, Filed(job[s].user, job[s].kind))
      /\ profile' = profile /\ cutOff' = cutOff /\ overlapped' = overlapped
      /\ job' = [job EXCEPT ![s] = Idle]
  BY DEF Insert, Continue, Idle, Inv, TypedWith, Ready
<1> SUFFICES ASSUME ~overlapped, Only(s)
             PROVE  /\ \A u \in Users : Good(u, profile[u])'
                    /\ JoinsOnce' /\ StandBut(Idle.request)' /\ Safe(Idle)'
  BY <1>1, ContinueSerial
<1>2. /\ \A u \in Users : Good(u, profile[u])
      /\ JoinsOnce /\ StandBut(job[s].request) /\ SafeInsert(job[s])
  BY Served DEF Safe
<1>3. /\ StandBut(0)
      /\ job[s].kind = "JOIN" =>
           /\ profile[job[s].user].status = "PENDING"
           /\ \A i \in DOMAIN leadership :
                leadership[i].kind = "JOIN" => leadership[i].owner # job[s].user
  BY <1>1, <1>2 DEF SafeInsert
<1>4. /\ JoinsOnce' /\ StandBut(0)'
      /\ \A i \in DOMAIN leadership : i \in DOMAIN leadership' /\ leadership'[i] = leadership[i]
  BY <1>1, <1>2, <1>3, FiledStays
<1>5. \A u \in Users : Good(u, profile[u])'
  BY <1>1, <1>2, <1>4, ProfilesStay
<1>6. Safe(Idle)'
  BY DEF Safe, SafeInsert, SafeAnswer, SafeJoin, SafeStore, SafeResign, Idle
<1>7. QED
  BY <1>4, <1>5, <1>6, IdleSafe

\* What an answer saves in the profile p of the owner.
LEMMA EffectIs ==
  ASSUME NEW p, NEW k, NEW x, NEW a, NEW m \in DOMAIN Effect(k, x, p, a)
  PROVE  LET w == Effect(k, x, p, a)[m] IN
         \/ k = "JOIN" /\ x = "DENIED" /\ w = [p EXCEPT !.status = "DENIED"]
         \/ k = "LEAD" /\ x = "APPROVED" /\ w = Promoted(p)
         \/ k = "PAIR" /\ x = "APPROVED" /\ w = [p EXCEPT !.leader = a]
BY DEF Effect

LEMMA SerialAnswer ==
  ASSUME Inv, AloneInv, SerialInv, NEW s \in Sessions, Answer(s)
  PROVE  SerialInv'
<1>0. PICK j, r, p :
        /\ j = job[s] /\ r = leadership[j.request]
        /\ p = IF r.kind = "PAIR" THEN profile[j.user] ELSE j.writes[1]
  OBVIOUS
<1> DEFINE i == j.request
           k == r.kind
           x == j.answer
           u == j.user
           a == j.actor
           saves == Effect(k, x, p, a)
<1>1. /\ j \in Jobs(Sound) /\ Ready(j, leadership) /\ j.at = "answer"
      /\ leadership \in Seq(Requests) /\ profile \in [Users -> Sound]
  BY <1>0 DEF Answer, Inv, TypedWith, Jobs
<1>2. /\ j # Idle /\ u \in Users /\ a \in Users /\ i \in DOMAIN leadership /\ x \in Responses
      /\ i \in 1 .. Len(leadership) /\ r \in Requests
  BY <1>0, <1>1, ElementOfSeq, LenProperties DEF Ready, Jobs, Idle
<1>3. /\ leadership' = [leadership EXCEPT ![i] = [r EXCEPT !.response = x, !.by = a]]
      /\ profile' = profile /\ cutOff' = cutOff /\ overlapped' = overlapped
      /\ \/ k = "JOIN" /\ x = "APPROVED" /\ job' = [job EXCEPT ![s] = [j EXCEPT !.at = "join"]]
         \/ saves # <<>> /\ job' = [job EXCEPT ![s] = [j EXCEPT !.at = "store", !.writes = saves]]
         \/ (k # "JOIN" \/ x # "APPROVED") /\ saves = <<>> /\ job' = [job EXCEPT ![s] = Idle]
  BY <1>0 DEF Answer, Continue
<1>4. /\ DOMAIN leadership' = DOMAIN leadership
      /\ leadership'[i] = [r EXCEPT !.response = x, !.by = a]
      /\ \A n \in DOMAIN leadership \ {i} : leadership'[n] = leadership[n]
  BY <1>1, <1>2, <1>3
<1>5. PICK n : /\ job' = [job EXCEPT ![s] = n]
               /\ \/ k = "JOIN" /\ x = "APPROVED" /\ n = [j EXCEPT !.at = "join"]
                  \/ saves # <<>> /\ n = [j EXCEPT !.at = "store", !.writes = saves]
                  \/ (k # "JOIN" \/ x # "APPROVED") /\ saves = <<>> /\ n = Idle
  BY <1>3
<1> SUFFICES ASSUME ~overlapped, Only(s)
             PROVE  /\ \A v \in Users : Good(v, profile[v])'
                    /\ JoinsOnce' /\ StandBut(n.request)' /\ Safe(n)'
  BY <1>0, <1>2, <1>3, <1>5, ContinueSerial
<1>6. /\ \A v \in Users : Good(v, profile[v])
      /\ JoinsOnce /\ StandBut(i) /\ SafeAnswer(j)
  BY <1>0, Served DEF Safe
<1>7. /\ IsLeader(profile[a]) /\ r.owner = u /\ r.response \in {"PENDING", "ACTIVE"}
      /\ k # "PAIR" => j.writes = <<profile[u]>>
      /\ k = "JOIN" /\ i \notin cutOff => profile[u].status = "PENDING"
  BY <1>0, <1>1, <1>6 DEF SafeAnswer
<1>8. p = profile[u]
  BY <1>0, <1>7
<1>9. \A v, w : Good(v, w) => Good(v, w)'
  BY <1>0, <1>3, <1>4, <1>7, ProfilesStay
<1>10. leadership'[i].kind = k /\ leadership'[i].owner = u /\ leadership'[i].response = x /\ leadership'[i].by = a
  BY <1>0, <1>2, <1>4, <1>7 DEF Requests
<1>11. \A v \in Users : Good(v, profile[v])'
  BY <1>3, <1>6, <1>9
<1>12. JoinsOnce'
  <2>1. \A m \in DOMAIN leadership : /\ leadership'[m].kind = leadership[m].kind
                                    /\ leadership'[m].owner = leadership[m].owner
    BY <1>0, <1>4, <1>7, <1>10
  <2>2. QED
    <3>1. profile' = profile /\ DOMAIN leadership' = DOMAIN leadership /\ JoinsOnce
      BY <1>3, <1>4, <1>6
    <3>2. QED
      BY <2>1, <3>1 DEF JoinsOnce
<1>13. StandBut(i)'
  BY <1>3, <1>4, <1>6 DEF StandBut
<1> HIDE DEF saves
<1>14. CASE k = "JOIN" /\ x = "APPROVED" /\ n = [j EXCEPT !.at = "join"]
  <2>1. /\ n.at = "join" /\ n.request = i /\ n.user = u /\ n.actor = a /\ n.writes = j.writes
    BY <1>1, <1>14 DEF Jobs
  <2>2. leadership'[i] = [kind |-> "JOIN", owner |-> u, response |-> "APPROVED", by |-> a]
    BY <1>2, <1>4, <1>7, <1>14 DEF Requests
  <2>3. SafeJoin(n)'
    BY <1>3, <1>7, <1>14, <2>1, <2>2 DEF SafeJoin
  <2>4. Safe(n)'
    BY <2>1, <2>3 DEF Safe, SafeInsert, SafeAnswer, SafeStore, SafeResign
  <2>5. QED
    BY <1>11, <1>12, <1>13, <2>1, <2>4
<1>15. CASE saves # <<>> /\ n = [j EXCEPT !.at = "store", !.writes = saves]
  <2>1. /\ n.at = "store" /\ n.request = i /\ n.user = u /\ n.writes = saves
    BY <1>1, <1>15 DEF Jobs
  <2>2. \A m \in DOMAIN saves :
          /\ Good(u, saves[m])'
          /\ IF k = "JOIN" THEN x = "DENIED" /\ saves[m].status = "DENIED"
             ELSE saves[m].status = profile[u].status
    <3> SUFFICES ASSUME NEW m \in DOMAIN saves
                 PROVE  /\ Good(u, saves[m])'
                        /\ IF k = "JOIN" THEN x = "DENIED" /\ saves[m].status = "DENIED"
                           ELSE saves[m].status = profile[u].status
      OBVIOUS
    <3>1. PICK w : w = saves[m]
      OBVIOUS
    <3>2. \/ k = "JOIN" /\ x = "DENIED" /\ w = [p EXCEPT !.status = "DENIED"]
          \/ k = "LEAD" /\ x = "APPROVED" /\ w = Promoted(p)
          \/ k = "PAIR" /\ x = "APPROVED" /\ w = [p EXCEPT !.leader = a]
      BY <3>1, EffectIs DEF saves
    <3>3. /\ p \in Profiles /\ p = profile[u] /\ Good(u, profile[u])
          /\ Good(u, [p EXCEPT !.status = "DENIED"]) /\ Good(u, Promoted(p))
      BY <1>1, <1>2, <1>6, <1>8, GoodChanges DEF Sound, Statuses
    <3>4. /\ Good(u, [p EXCEPT !.status = "DENIED"])' /\ Good(u, Promoted(p))'
      BY <1>9, <3>3
    <3>5. ASSUME k = "PAIR", x = "APPROVED", w = [p EXCEPT !.leader = a]
          PROVE  Good(u, w)'
      <4>1. w.leader = a /\ w.flags = p.flags
        BY <3>3, <3>5 DEF Profiles
      <4>2. QED
        BY <1>3, <1>7, <3>3, <4>1 DEF Good, LeaderStands, KeepsMentees, IsLeader
    <3>6. Good(u, w)'
      BY <3>2, <3>4, <3>5
    <3>7. IF k = "JOIN" THEN x = "DENIED" /\ w.status = "DENIED" ELSE w.status = p.status
      BY <3>2, <3>3 DEF Profiles, Promoted
    <3>8. QED
      BY <1>8, <3>1, <3>6, <3>7
  <2>3. SafeStore(n)'
    BY <1>2, <1>3, <1>4, <1>10, <2>1, <2>2 DEF SafeStore, IsJoin
  <2>4. Safe(n)'
    BY <2>1, <2>3 DEF Safe, SafeInsert, SafeAnswer, SafeJoin, SafeResign
  <2>5. QED
    BY <1>11, <1>12, <1>13, <2>1, <2>4
<1>16. CASE (k # "JOIN" \/ x # "APPROVED") /\ saves = <<>> /\ n = Idle
  <2>1. k = "JOIN" => x \notin {"APPROVED", "DENIED"}
    BY <1>16 DEF saves, Effect
  <2>2. StandBut(0)'
    BY <1>2, <1>3, <1>4, <1>7, <1>10, <1>13, <2>1 DEF StandBut
  <2>3. Safe(Idle)'
    BY DEF Safe, SafeInsert, SafeAnswer, SafeJoin, SafeStore, SafeResign, Idle
  <2>4. QED
    BY <1>11, <1>12, <1>16, <2>2, <2>3, IdleSafe
<1>17. QED
  BY <1>5, <1>14, <1>15, <1>16

\* Nothing is saved: what a web request may do next stays so.
LEMMA NothingSaved ==
  ASSUME profile' = profile, leadership' = leadership, cutOff' = cutOff
  PROVE  /\ \A u, w : Good(u, w) => Good(u, w)'
         /\ (\A u \in Users : Good(u, profile[u])) => \A u \in Users : Good(u, profile[u])'
         /\ JoinsOnce => JoinsOnce'
         /\ \A i : StandBut(i) => StandBut(i)'
         /\ \A j : Safe(j) => Safe(j)'
<1>1. \A u, w : Good(u, w) => Good(u, w)'
  BY DEF Good, LeaderStands, KeepsMentees
<1>2. JoinsOnce => JoinsOnce'
  BY DEF JoinsOnce
<1>3. \A i : StandBut(i) => StandBut(i)'
  BY DEF StandBut
<1>4. \A u, w : Kept(u, w) => Kept(u, w)'
  BY DEF Kept, LeaderStands
<1>5. ASSUME NEW j, Safe(j)
      PROVE  Safe(j)'
  <2>1. SafeInsert(j)' /\ SafeAnswer(j)' /\ SafeJoin(j)'
    BY <1>5 DEF Safe, SafeInsert, SafeAnswer, SafeJoin
  <2>2. SafeStore(j)'
    BY <1>1, <1>5 DEF Safe, SafeStore, IsJoin
  <2>3. SafeResign(j)'
    BY <1>4, <1>5 DEF Safe, SafeResign, KnowsMentees
  <2>4. QED
    BY <2>1, <2>2, <2>3 DEF Safe
<1>6. QED
  BY <1>1, <1>2, <1>3, <1>5

LEMMA SerialActivate ==
  ASSUME Inv, AloneInv, SerialInv, NEW s \in Sessions, Activate(s)
  PROVE  SerialInv'
<1>1. PICK j, l, w, n :
        /\ j = job[s] /\ j.at = "join"
        /\ l = IF HasRoom(j.actor) THEN j.actor ELSE NoUser
        /\ w = [j.writes[1] EXCEPT !.status = "APPROVED", !.leader = l]
        /\ n = [j EXCEPT !.at = "store", !.writes = <<w>>]
        /\ job' = [job EXCEPT ![s] = n] /\ overlapped' = overlapped
        /\ profile' = profile /\ leadership' = leadership /\ cutOff' = cutOff
  BY DEF Activate, Continue
<1>2. /\ j \in Jobs(Sound) /\ j # Idle /\ j.user \in Users /\ j.actor \in Users
      /\ j.request \in DOMAIN leadership /\ profile[j.user] \in Profiles
  <2>1. j \in Jobs(Sound) /\ Ready(j, leadership)
    BY <1>1 DEF Inv, TypedWith, Jobs
  <2>2. j # Idle
    BY <1>1 DEF Idle
  <2>3. QED
    BY <1>1, <2>1, <2>2, LenProperties DEF Inv, TypedWith, Ready, Sound
<1> SUFFICES ASSUME ~overlapped, Only(s)
             PROVE  /\ \A v \in Users : Good(v, profile[v])'
                    /\ JoinsOnce' /\ StandBut(n.request)' /\ Safe(n)'
  BY <1>1, <1>2, ContinueSerial
<1>3. /\ \A v \in Users : Good(v, profile[v])
      /\ JoinsOnce /\ StandBut(j.request) /\ SafeJoin(j)
  BY <1>1, Served DEF Safe
<1>4. /\ IsLeader(profile[j.actor])
      /\ leadership[j.request] =
           [kind |-> "JOIN", owner |-> j.user, response |-> "APPROVED", by |-> j.actor]
      /\ j.writes = <<profile[j.user]>>
  BY <1>1, <1>3 DEF SafeJoin
<1>5. w.status = "APPROVED" /\ w.leader = l /\ w.flags = profile[j.user].flags
  BY <1>1, <1>2, <1>4 DEF Profiles
<1>6. Good(j.user, w)
  <2>2. l = NoUser \/ l = j.actor
    BY <1>1
  <2>3. QED
    BY <1>2, <1>3, <1>4, <1>5, <2>2 DEF Good, LeaderStands, KeepsMentees, IsLeader
<1>7. n.at = "store" /\ n.user = j.user /\ n.request = j.request /\ n.writes = <<w>>
  BY <1>1, <1>2 DEF Jobs
<1>8. SafeStore(n)
  <2>1. IsJoin(n.request)
    BY <1>2, <1>4, <1>7 DEF IsJoin
  <2>2. QED
    BY <1>4, <1>5, <1>6, <1>7, <2>1 DEF SafeStore
<1>9. Safe(n)
  BY <1>7, <1>8 DEF Safe, SafeInsert, SafeAnswer, SafeJoin, SafeResign
<1>10. QED
  BY <1>1, <1>3, <1>7, <1>9, NothingSaved

LEMMA SerialStore ==
  ASSUME Inv, AloneInv, SerialInv, NEW s \in Sessions, Store(s)
  PROVE  SerialInv'
<1>1. PICK j, n :
        /\ j = job[s] /\ j.at = "store"
        /\ n = IF Len(j.writes) = 1 THEN Idle ELSE [j EXCEPT !.writes = Tail(@)]
        /\ job' = [job EXCEPT ![s] = n] /\ overlapped' = overlapped
        /\ profile' = [profile EXCEPT ![j.user] = j.writes[1]]
        /\ leadership' = leadership /\ cutOff' = cutOff
  BY DEF Store, Continue
<1>2. /\ j \in Jobs(Sound) /\ j # Idle /\ j.user \in Users /\ profile \in [Users -> Sound]
      /\ j.writes \in Seq(Sound) /\ j.writes # <<>>
  <2>1. j \in Jobs(Sound) /\ Ready(j, leadership)
    BY <1>1 DEF Inv, TypedWith, Jobs
  <2>2. j # Idle
    BY <1>1 DEF Idle
  <2>3. QED
    BY <1>1, <2>1, <2>2 DEF Inv, TypedWith, Ready, Jobs
<1> SUFFICES ASSUME ~overlapped, Only(s)
             PROVE  /\ \A v \in Users : Good(v, profile[v])'
                    /\ JoinsOnce' /\ StandBut(n.request)' /\ Safe(n)'
  BY <1>1, <1>2, ContinueSerial
<1> DEFINE u == j.user
           w == j.writes[1]
<1>3. /\ \A v \in Users : Good(v, profile[v])
      /\ JoinsOnce /\ StandBut(j.request) /\ SafeStore(j)
  BY <1>1, Served DEF Safe
<1>4. /\ DOMAIN j.writes = 1 .. Len(j.writes) /\ Len(j.writes) \in Nat /\ 1 \in DOMAIN j.writes
      /\ \A m \in DOMAIN j.writes : j.writes[m] \in Sound
      /\ Len(j.writes) # 1 =>
           /\ \A m \in DOMAIN Tail(j.writes) :
                m + 1 \in DOMAIN j.writes /\ Tail(j.writes)[m] = j.writes[m + 1]
  <2>1. DOMAIN j.writes = 1 .. Len(j.writes) /\ Len(j.writes) \in Nat /\ Len(j.writes) # 0
    BY <1>2, LenProperties, EmptySeq
  <2>2. /\ Len(Tail(j.writes)) = Len(j.writes) - 1
        /\ DOMAIN Tail(j.writes) = 1 .. Len(Tail(j.writes))
        /\ \A m \in 1 .. Len(Tail(j.writes)) : Tail(j.writes)[m] = j.writes[m + 1]
    BY <1>2, HeadTailProperties, LenProperties
  <2>3. QED
    BY <1>2, <2>1, <2>2, ElementOfSeq
<1>5. /\ IsJoin(j.request) => leadership[j.request].owner = u
      /\ \A m \in DOMAIN j.writes :
           /\ Good(u, j.writes[m])
           /\ IF IsJoin(j.request)
              THEN /\ leadership[j.request].response \in {"APPROVED", "DENIED"}
                   /\ j.writes[m].status = leadership[j.request].response
              ELSE j.writes[m].status = profile[u].status
  BY <1>1, <1>3 DEF SafeStore
<1>6. /\ \A v \in Users : Good(v, profile[v])'
      /\ \A x \in Sound : Good(u, x) => Good(u, x)'
  BY <1>1, <1>2, <1>3, <1>4, <1>5, StoreGood
<1>7. JoinsOnce' /\ \A k : StandBut(k)'
  BY <1>1, <1>2, <1>3, <1>4, <1>5, StatusStays
<1>8. Safe(n)'
  <2>1. CASE n = Idle
    BY <2>1 DEF Safe, SafeInsert, SafeAnswer, SafeJoin, SafeStore, SafeResign, Idle
  <2>2. CASE Len(j.writes) # 1 /\ n = [j EXCEPT !.writes = Tail(@)]
    <3>1. n.at = "store" /\ n.user = u /\ n.request = j.request /\ n.writes = Tail(j.writes)
      BY <1>1, <1>2, <2>2 DEF Jobs
    <3>2. \A m \in DOMAIN n.writes :
            /\ Good(u, n.writes[m])'
            /\ IF IsJoin(j.request) THEN n.writes[m].status = leadership[j.request].response
               ELSE n.writes[m].status = w.status
      BY <1>4, <1>5, <1>6, <2>2, <3>1
    <3>3. profile'[u] = w /\ (IsJoin(j.request)' <=> IsJoin(j.request))
      BY <1>1, <1>2 DEF IsJoin
    <3>4. SafeStore(n)'
      <4>1. leadership'[j.request] = leadership[j.request]
        BY <1>1
      <4>2. IsJoin(j.request) => w.status = leadership[j.request].response
        BY <1>4, <1>5
      <4>3. QED
        BY <1>5, <3>1, <3>2, <3>3, <4>1, <4>2 DEF SafeStore
    <3>5. QED
      BY <3>1, <3>4 DEF Safe, SafeInsert, SafeAnswer, SafeJoin, SafeResign
  <2>3. QED
    BY <1>1, <2>1, <2>2
<1>9. QED
  BY <1>6, <1>7, <1>8

LEMMA SerialDemote ==
  ASSUME Inv, AloneInv, SerialInv, NEW s \in Sessions, Demote(s)
  PROVE  SerialInv'
<1>1. PICK j, w, n :
        /\ j = job[s] /\ j.at = "demote" /\ w = j.writes[1]
        /\ n = [j EXCEPT !.at = "mentees", !.writes = Tail(@)]
        /\ job' = [job EXCEPT ![s] = n] /\ overlapped' = overlapped
        /\ profile' = [profile EXCEPT ![j.user] = w]
        /\ leadership' = leadership /\ cutOff' = cutOff
  BY DEF Demote, Continue
<1>2. /\ j \in Jobs(Sound) /\ j # Idle /\ j.user \in Users /\ profile \in [Users -> Sound]
      /\ j.writes \in Seq(Sound) /\ j.writes # <<>>
  <2>1. j \in Jobs(Sound) /\ Ready(j, leadership)
    BY <1>1 DEF Inv, TypedWith, Jobs
  <2>2. j # Idle
    BY <1>1 DEF Idle
  <2>3. QED
    BY <1>1, <2>1, <2>2 DEF Inv, TypedWith, Ready, Jobs
<1> SUFFICES ASSUME ~overlapped, Only(s)
             PROVE  /\ \A v \in Users : Good(v, profile[v])'
                    /\ JoinsOnce' /\ StandBut(n.request)' /\ Safe(n)'
  BY <1>1, <1>2, ContinueSerial
<1> DEFINE u == j.user
<1>3. /\ \A v \in Users : Good(v, profile[v])
      /\ JoinsOnce /\ StandBut(j.request) /\ SafeResign(j)
  BY <1>1, Served DEF Safe
<1>4. /\ j.request = 0 /\ IsLeader(w)
      /\ \A m \in DOMAIN j.writes : Kept(u, j.writes[m])
  BY <1>1, <1>3 DEF SafeResign
<1>5. /\ 1 \in DOMAIN j.writes /\ w \in Sound
      /\ \A m \in DOMAIN j.writes : j.writes[m] \in Sound
      /\ \A m \in DOMAIN Tail(j.writes) :
           m + 1 \in DOMAIN j.writes /\ Tail(j.writes)[m] = j.writes[m + 1]
  <2>1. DOMAIN j.writes = 1 .. Len(j.writes) /\ Len(j.writes) \in Nat /\ Len(j.writes) # 0
    BY <1>2, LenProperties, EmptySeq
  <2>2. /\ Len(Tail(j.writes)) = Len(j.writes) - 1
        /\ DOMAIN Tail(j.writes) = 1 .. Len(Tail(j.writes))
        /\ \A m \in 1 .. Len(Tail(j.writes)) : Tail(j.writes)[m] = j.writes[m + 1]
    BY <1>2, HeadTailProperties, LenProperties
  <2>3. QED
    BY <1>1, <1>2, <2>1, <2>2, ElementOfSeq
<1>6. Kept(u, w) /\ w.status = profile[u].status
  BY <1>1, <1>4, <1>5 DEF Kept
<1>7. Good(u, w)
  BY <1>4, <1>6 DEF Good, Kept, KeepsMentees
<1>8. \A v \in Users : Good(v, profile[v])'
  BY <1>1, <1>2, <1>3, <1>5, <1>7, StoreGood
<1>9. JoinsOnce' /\ \A k : StandBut(k)'
  <2>1. ~IsJoin(0) /\ StandBut(0)
    BY <1>3, <1>4, NoZero
  <2>2. QED
    BY <1>1, <1>2, <1>3, <1>5, <1>6, <2>1, StatusStays
<1>10. \A x \in Sound : Kept(u, x) => Kept(u, x)'
  BY <1>1, <1>2, <1>4, <1>5, <1>6, KeptStays
<1>11. n.at = "mentees" /\ n.user = u /\ n.request = 0 /\ n.writes = Tail(j.writes)
  BY <1>1, <1>2, <1>4 DEF Jobs
<1>12. SafeResign(n)'
  BY <1>4, <1>5, <1>10, <1>11 DEF SafeResign
<1>13. Safe(n)'
  BY <1>11, <1>12 DEF Safe, SafeInsert, SafeAnswer, SafeJoin, SafeStore
<1>14. QED
  BY <1>8, <1>9, <1>13

\* The mentees are loaded, or one of them is free: the next one follows, or the last save.
LEMMA NextSafe ==
  ASSUME Inv, NEW j \in Jobs(Sound), j.user \in Users, j.request = 0,
         \A m \in DOMAIN j.writes : Kept(j.user, j.writes[m]),
         KnowsMentees(j),
         NEW n, n = NextMentee(j)
  PROVE  Safe(n) /\ n.request = 0 /\ n.at \in {"idle", "store", "free"}
<1>1. CASE j.mentees # {}
  <2>1. n = [j EXCEPT !.at = "free", !.freed = NoUser]
    BY <1>1 DEF NextMentee
  <2>2. /\ n.at = "free" /\ n.user = j.user /\ n.request = 0 /\ n.writes = j.writes
        /\ n.mentees = j.mentees /\ n.seen = j.seen
    BY <2>1 DEF Jobs
  <2>3. SafeResign(n)
    BY <2>2 DEF SafeResign, KnowsMentees
  <2>4. QED
    BY <2>2, <2>3 DEF Safe, SafeInsert, SafeAnswer, SafeJoin, SafeStore
<1>2. CASE j.mentees = {} /\ j.writes # <<>>
  <2>1. n = Saving(j.user, j.writes)
    BY <1>2 DEF NextMentee
  <2>2. \A m \in DOMAIN j.writes :
          Good(j.user, j.writes[m]) /\ j.writes[m].status = profile[j.user].status
    BY <1>2 DEF Kept, Good, KnowsMentees, KeepsMentees
  <2>3. Safe(n)
    BY <2>1, <2>2, SavingSafe
  <2>4. QED
    BY <2>1, <2>3 DEF Saving, Idle
<1>3. CASE j.mentees = {} /\ j.writes = <<>>
  <2>1. n = Idle
    BY <1>3 DEF NextMentee
  <2>2. QED
    BY <2>1, IdleSafe DEF Idle
<1>4. QED
  BY <1>1, <1>2, <1>3

LEMMA SerialLoad ==
  ASSUME Inv, AloneInv, SerialInv, NEW s \in Sessions, LoadMentees(s)
  PROVE  SerialInv'
<1>1. PICK j, ms, k, n :
        /\ j = job[s] /\ j.at = "mentees" /\ ms = Mentees(j.user)
        /\ k = [j EXCEPT !.mentees = ms,
                         !.seen = [u \in Users |-> IF u \in ms THEN profile[u] ELSE Blank]]
        /\ n = NextMentee(k)
        /\ job' = [job EXCEPT ![s] = n] /\ overlapped' = overlapped
        /\ profile' = profile /\ leadership' = leadership /\ cutOff' = cutOff
  BY DEF LoadMentees, Continue
<1>2. /\ j \in Jobs(Sound) /\ j # Idle /\ j.user \in Users /\ profile \in [Users -> Sound]
  <2>1. j \in Jobs(Sound) /\ Ready(j, leadership)
    BY <1>1 DEF Inv, TypedWith, Jobs
  <2>2. j # Idle
    BY <1>1 DEF Idle
  <2>3. QED
    BY <1>1, <2>1, <2>2 DEF Inv, TypedWith, Ready
<1> SUFFICES ASSUME ~overlapped, Only(s)
             PROVE  /\ \A v \in Users : Good(v, profile[v])'
                    /\ JoinsOnce' /\ StandBut(n.request)' /\ Safe(n)'
  BY <1>1, <1>2, ContinueSerial
<1>3. /\ \A v \in Users : Good(v, profile[v])
      /\ JoinsOnce /\ StandBut(j.request) /\ SafeResign(j)
  BY <1>1, Served DEF Safe
<1>4. j.request = 0 /\ \A m \in DOMAIN j.writes : Kept(j.user, j.writes[m])
  BY <1>1, <1>3 DEF SafeResign
<1>5. /\ k \in Jobs(Sound) /\ k.user = j.user /\ k.request = 0 /\ k.writes = j.writes
      /\ k.mentees = ms
      /\ k.seen = [u \in Users |-> IF u \in ms THEN profile[u] ELSE Blank]
  <2>1. ms \subseteq Users /\ [u \in Users |-> IF u \in ms THEN profile[u] ELSE Blank] \in [Users -> Sound]
    BY <1>1, <1>2, BlankSound DEF Mentees
  <2>2. QED
    BY <1>1, <1>2, <1>4, <2>1 DEF Jobs
<1>6. KnowsMentees(k)
  BY <1>1, <1>5 DEF KnowsMentees, Mentees
<1>7. Safe(n) /\ n.request = 0
  BY <1>1, <1>2, <1>4, <1>5, <1>6, NextSafe
<1>8. QED
  BY <1>1, <1>3, <1>4, <1>7, NothingSaved

LEMMA SerialFree ==
  ASSUME Inv, AloneInv, SerialInv, NEW s \in Sessions, Free(s)
  PROVE  SerialInv'
<1>1. PICK j, m, w, n :
        /\ j = job[s] /\ j.at = "free" /\ m \in j.mentees
        /\ w = [j.seen[m] EXCEPT !.leader = NoUser]
        /\ n = [j EXCEPT !.at = "pair", !.freed = m, !.mentees = @ \ {m}, !.seen[m] = Blank]
        /\ job' = [job EXCEPT ![s] = n] /\ overlapped' = overlapped
        /\ profile' = [profile EXCEPT ![m] = w]
        /\ leadership' = leadership /\ cutOff' = cutOff
  BY DEF Free, Continue
<1>2. /\ j \in Jobs(Sound) /\ j # Idle /\ j.user \in Users /\ profile \in [Users -> Sound]
      /\ m \in Users /\ j.writes \in Seq(Sound)
  <2>1. j \in Jobs(Sound) /\ Ready(j, leadership)
    BY <1>1 DEF Inv, TypedWith, Jobs
  <2>2. j # Idle
    BY <1>1 DEF Idle
  <2>3. QED
    BY <1>1, <2>1, <2>2 DEF Inv, TypedWith, Ready, Jobs
<1> SUFFICES ASSUME ~overlapped, Only(s)
             PROVE  /\ \A v \in Users : Good(v, profile[v])'
                    /\ JoinsOnce' /\ StandBut(n.request)' /\ Safe(n)'
  BY <1>1, <1>2, ContinueSerial
<1> DEFINE u == j.user
<1>3. /\ \A v \in Users : Good(v, profile[v])
      /\ JoinsOnce /\ StandBut(j.request) /\ SafeResign(j)
  BY <1>1, Served DEF Safe
<1>4. /\ j.request = 0 /\ \A i \in DOMAIN j.writes : Kept(u, j.writes[i])
      /\ \A v \in Users \ {u} : profile[v].leader = u => v \in j.mentees
      /\ \A v \in j.mentees : j.seen[v] = profile[v]
  BY <1>1, <1>3 DEF SafeResign, KnowsMentees
<1>5. w = [profile[m] EXCEPT !.leader = NoUser] /\ profile[m] \in Profiles
  BY <1>1, <1>2, <1>4 DEF Sound
<1>6. /\ w.status = profile[m].status /\ w.flags = profile[m].flags /\ w.leader = NoUser
      /\ w \in Sound /\ Good(m, w)
  <2>1. w.status = profile[m].status /\ w.flags = profile[m].flags /\ w.leader = NoUser
    BY <1>5 DEF Profiles
  <2>2. w \in Sound
    BY <1>2, <1>5, SoundChanges DEF Statuses
  <2>3. Good(m, w)
    BY <1>2, <1>3, <1>5, GoodChanges
  <2>4. QED
    BY <2>1, <2>2, <2>3
<1>7. \A v \in Users : Good(v, profile[v])'
  BY <1>1, <1>2, <1>3, <1>6, StoreGood
<1>8. JoinsOnce' /\ \A k : StandBut(k)'
  <2>1. ~IsJoin(0) /\ StandBut(0)
    BY <1>3, <1>4, NoZero
  <2>2. QED
    BY <1>1, <1>2, <1>3, <1>6, <2>1, StatusStays
<1>9. \A i \in DOMAIN j.writes : Kept(u, j.writes[i])'
  <2>1. \A i \in DOMAIN j.writes : j.writes[i] \in Sound
    BY <1>2, ElementOfSeq, LenProperties
  <2>2. \A x \in Sound : Kept(u, x) => Kept(u, x)'
    BY <1>1, <1>2, <1>6, KeptStays DEF IsLeader
  <2>3. QED
    BY <1>4, <2>1, <2>2
<1>10. /\ n.at = "pair" /\ n.user = u /\ n.request = 0 /\ n.writes = j.writes
       /\ n.mentees = j.mentees \ {m}
       /\ \A v \in j.mentees \ {m} : n.seen[v] = j.seen[v]
  BY <1>1, <1>2, <1>4 DEF Jobs
<1>11. KnowsMentees(n)'
  <2>1. \A v \in Users : profile'[v] = IF v = m THEN w ELSE profile[v]
    BY <1>1, <1>2
  <2>2. \A v \in Users \ {u} : profile'[v].leader = u => v \in n.mentees
    BY <1>2, <1>4, <1>6, <1>10, <2>1, MentorshipAssumption
  <2>3. \A v \in n.mentees : n.seen[v] = profile'[v]
    BY <1>2, <1>4, <1>10, <2>1 DEF Jobs
  <2>4. QED
    BY <1>10, <2>2, <2>3 DEF KnowsMentees
<1>12. SafeResign(n)'
  BY <1>9, <1>10, <1>11 DEF SafeResign
<1>13. Safe(n)'
  BY <1>10, <1>12 DEF Safe, SafeInsert, SafeAnswer, SafeJoin, SafeStore
<1>14. QED
  BY <1>7, <1>8, <1>13

LEMMA SerialPair ==
  ASSUME Inv, AloneInv, SerialInv, NEW s \in Sessions, Pair(s)
  PROVE  SerialInv'
<1>1. PICK j, n :
        /\ j = job[s] /\ j.at = "pair" /\ n = NextMentee(j)
        /\ job' = [job EXCEPT ![s] = n] /\ overlapped' = overlapped
        /\ leadership' = leadership \/ leadership' = Append(leadership, Filed(j.freed, "PAIR"))
        /\ profile' = profile /\ cutOff' = cutOff
  BY DEF Pair, Continue
<1>2. j \in Jobs(Sound) /\ j # Idle /\ j.user \in Users /\ j.freed \in Users
  <2>1. j \in Jobs(Sound) /\ Ready(j, leadership)
    BY <1>1 DEF Inv, TypedWith, Jobs
  <2>2. j # Idle
    BY <1>1 DEF Idle
  <2>3. QED
    BY <1>1, <2>1, <2>2 DEF Ready
<1> SUFFICES ASSUME ~overlapped, Only(s)
             PROVE  /\ \A v \in Users : Good(v, profile[v])'
                    /\ JoinsOnce' /\ StandBut(n.request)' /\ Safe(n)'
  BY <1>1, <1>2, ContinueSerial
<1>3. /\ \A v \in Users : Good(v, profile[v])
      /\ JoinsOnce /\ StandBut(j.request) /\ SafeResign(j)
  BY <1>1, Served DEF Safe
<1>4. /\ j.request = 0 /\ KnowsMentees(j)
      /\ \A i \in DOMAIN j.writes : Kept(j.user, j.writes[i])
  BY <1>1, <1>3 DEF SafeResign
<1>5. Safe(n) /\ n.request = 0 /\ n.at \in {"idle", "store", "free"}
  BY <1>1, <1>2, <1>4, NextSafe
<1>6. CASE leadership' = leadership
  BY <1>1, <1>3, <1>4, <1>5, <1>6, NothingSaved
<1>7. CASE leadership' = Append(leadership, Filed(j.freed, "PAIR"))
  <2>1. /\ JoinsOnce' /\ StandBut(0)'
        /\ \A i \in DOMAIN leadership : i \in DOMAIN leadership' /\ leadership'[i] = leadership[i]
    BY <1>1, <1>2, <1>3, <1>4, <1>7, FiledStays DEF Kinds
  <2>2. /\ \A v, w : Good(v, w) => Good(v, w)'
        /\ \A v, w : Kept(v, w) => Kept(v, w)'
    BY <1>1, <2>1, ProfilesStay
  <2>3. \A v \in Users : Good(v, profile[v])'
    BY <1>1, <1>3, <2>2
  <2>4. ~IsJoin(0) /\ ~IsJoin(0)'
    <3>1. leadership \in Seq(Requests) /\ Filed(j.freed, "PAIR") \in Requests
      BY <1>2 DEF Inv, TypedWith, Filed, Requests, Kinds, Responses
    <3>2. leadership' \in Seq(Requests)
      BY <1>7, <3>1, AppendProperties
    <3>3. QED
      BY <3>1, <3>2, LenProperties DEF IsJoin
  <2>5. SafeStore(n)'
    BY <1>1, <1>5, <2>2, <2>4 DEF Safe, SafeStore
  <2>6. SafeResign(n)'
    BY <1>1, <1>5, <2>2 DEF Safe, SafeResign, KnowsMentees
  <2>7. Safe(n)'
    BY <1>5, <2>5, <2>6 DEF Safe, SafeInsert, SafeAnswer, SafeJoin
  <2>8. QED
    BY <1>5, <2>1, <2>3, <2>7
<1>8. QED
  BY <1>1, <1>6, <1>7

LEMMA SerialDie ==
  ASSUME Inv, AloneInv, SerialInv, NEW s \in Sessions, Die(s)
  PROVE  SerialInv'
<1>1. PICK j :
        /\ j = job[s] /\ j # Idle
        /\ job' = [job EXCEPT ![s] = Idle] /\ overlapped' = overlapped
        /\ profile' = profile /\ leadership' = leadership
        /\ cutOff' = cutOff \union IF j.at \in {"join", "store"} /\ j.request > 0
                                   THEN {j.request} ELSE {}
  BY DEF Die
<1>2. j.request \in Nat /\ j.at \in Steps
  BY <1>1 DEF Inv, TypedWith
<1> SUFFICES ASSUME ~overlapped, Only(s)
             PROVE  /\ \A v \in Users : Good(v, profile[v])'
                    /\ JoinsOnce' /\ StandBut(Idle.request)' /\ Safe(Idle)'
  BY <1>1, ContinueSerial
<1>3. /\ \A v \in Users : Good(v, profile[v])
      /\ JoinsOnce /\ StandBut(j.request) /\ Safe(j)
  BY <1>1, Served
<1>4. \A v \in Users : Good(v, profile[v])'
  BY <1>1, <1>3 DEF Good, LeaderStands, KeepsMentees
<1>5. JoinsOnce'
  BY <1>1, <1>3 DEF JoinsOnce
<1>6. StandBut(0)'
  <2>1. CASE j.at \in {"join", "store"}
    BY <1>1, <1>2, <1>3, <2>1, LenProperties DEF StandBut, Inv, TypedWith
  <2>2. CASE j.at = "answer"
    <3>1. /\ leadership[j.request].owner = j.user
          /\ leadership[j.request].response \in {"PENDING", "ACTIVE"}
          /\ leadership[j.request].kind = "JOIN" /\ j.request \notin cutOff =>
               profile[j.user].status = "PENDING"
      BY <1>3, <2>2 DEF Safe, SafeAnswer
    <3>2. QED
      BY <1>1, <1>3, <2>2, <3>1 DEF StandBut
  <2>3. CASE j.at \in {"idle", "insert", "demote", "mentees", "free", "pair"}
    <3>1. j.request = 0
      BY <1>3, <2>3 DEF Safe, SafeInsert, SafeResign
    <3>2. QED
      BY <1>1, <1>3, <2>3, <3>1 DEF StandBut
  <2>4. QED
    BY <1>2, <2>1, <2>2, <2>3 DEF Steps
<1>7. Safe(Idle)'
  BY DEF Safe, SafeInsert, SafeAnswer, SafeJoin, SafeStore, SafeResign, Idle
<1>8. QED
  BY <1>4, <1>5, <1>6, <1>7, IdleSafe

LEMMA SerialServe ==
  ASSUME Inv, AloneInv, SerialInv, NEW s \in Sessions, Serve(s)
  PROVE  SerialInv'
BY SerialInsert, SerialAnswer, SerialActivate, SerialStore, SerialDemote, SerialLoad,
   SerialFree, SerialPair DEF Serve

\* The process that moves was at rest, and begins, or goes on with its request.
LEMMA Moves ==
  ASSUME NEW s \in Sessions,
         Serve(s) \/ Die(s) \/ \E u \in Users : Ask(s, u) \/ Decide(s, u)
  PROVE  \/ \E j : Begin(s, j)
         \/ \E j : /\ job[s] # Idle /\ job' = [job EXCEPT ![s] = j]
                   /\ overlapped' = overlapped
<1>1. CASE \E u \in Users : Ask(s, u)
  BY <1>1 DEF Ask, Apply, Resign, Settings, Request, Start
<1>2. ASSUME NEW a \in Users, Decide(s, a)
      PROVE  \E j : Begin(s, j)
  <2>1. CASE \E i \in DOMAIN leadership, x \in Responses : Respond(s, a, i, x)
    BY <2>1 DEF Respond, Start
  <2>2. CASE \E u \in Users : Ban(s, a, u)
    BY <2>2 DEF Ban, Start
  <2>3. CASE \E u \in Users : Guide(s, a, u)
    BY <2>3 DEF Guide, Start
  <2>4. CASE \E u \in Users : Moderator(s, a, u)
    BY <2>4 DEF Moderator, Start
  <2>5. CASE \E u \in Users : Abandon(s, a, u)
    BY <2>5 DEF Abandon, Start
  <2>6. CASE \E u, l \in Users : Transfer(s, a, u, l)
    BY <2>6 DEF Transfer, Start
  <2>7. QED
    BY <1>2, <2>1, <2>2, <2>3, <2>4, <2>5, <2>6 DEF Decide
<1>3. CASE Die(s)
  BY <1>3 DEF Die
<1>4. CASE Serve(s)
  <2>1. job[s] # Idle
    <3>1. job[s].at # "idle"
      BY <1>4 DEF Serve, Insert, Answer, Activate, Store, Demote, LoadMentees, Free, Pair
    <3>2. Idle.at = "idle"
      BY DEF Idle
    <3>3. QED
      BY <3>1, <3>2
  <2>2. \E j : job' = [job EXCEPT ![s] = j] /\ overlapped' = overlapped
    BY <1>4 DEF Serve, Insert, Answer, Activate, Store, Demote, LoadMentees, Free, Pair, Continue
  <2>3. QED
    BY <2>1, <2>2
<1>5. QED
  BY <1>1, <1>2, <1>3, <1>4

LEMMA StepAlone == Inv /\ AloneInv /\ [Next]_vars => AloneInv'
<1> SUFFICES ASSUME Inv, AloneInv, [Next]_vars
             PROVE  AloneInv'
  OBVIOUS
<1>1. CASE UNCHANGED vars
  BY <1>1 DEF vars, AloneInv, Only
<1>2. CASE Next
  <2>1. PICK s \in Sessions :
          Serve(s) \/ Die(s) \/ \E u \in Users : Ask(s, u) \/ Decide(s, u)
    BY <1>2 DEF Next
  <2>2. QED
    BY <2>1, Moves, BeginAlone, GoAlone
<1>3. QED
  BY <1>1, <1>2

LEMMA StepSerial == Inv /\ AloneInv /\ SerialInv /\ [Next]_vars => SerialInv'
<1> SUFFICES ASSUME Inv, AloneInv, SerialInv, [Next]_vars
             PROVE  SerialInv'
  OBVIOUS
<1>1. CASE UNCHANGED vars
  <2>1. /\ profile' = profile /\ leadership' = leadership /\ cutOff' = cutOff
        /\ job' = job /\ overlapped' = overlapped
    BY <1>1 DEF vars
  <2>2. QED
    BY <2>1, NothingSaved DEF SerialInv, Only
<1>2. CASE Next
  BY <1>2, SerialAsk, SerialDecide, SerialServe, SerialDie DEF Next
<1>3. QED
  BY <1>1, <1>2

LEMMA InitSerial == Init => AloneInv /\ SerialInv
<1> SUFFICES ASSUME Init PROVE AloneInv /\ SerialInv
  OBVIOUS
<1>1. /\ \A s \in Sessions : job[s] = Idle
      /\ leadership = <<>> /\ \A i : i \notin DOMAIN leadership
      /\ \A u \in Users : profile[u].leader = NoUser
  BY DEF Init
<1>2. AloneInv
  BY <1>1 DEF AloneInv
<1>3. \A u \in Users : Good(u, profile[u])
  BY <1>1, MentorshipAssumption DEF Good, LeaderStands, KeepsMentees
<1>4. JoinsOnce /\ \A i : StandBut(i)
  BY <1>1 DEF JoinsOnce, StandBut
<1>5. QED
  BY <1>1, <1>2, <1>3, <1>4, IdleSafe DEF SerialInv

LEMMA SpecSerial == Spec => [](Inv /\ AloneInv /\ SerialInv)
BY InitInv, StepInv, InitSerial, StepAlone, StepSerial, PTL DEF Spec

\* As long as web requests do not overlap, and whichever of them fails, a mentee
\* has a leader who is one, or is his own (resign_leadership frees the mentees
\* before the flag of the leader is saved).
THEOREM MenteesAreLedHolds == Spec => []MenteesAreLed
<1>1. SerialInv => MenteesAreLed
  BY DEF SerialInv, Good, LeaderStands, MenteesAreLed
<1>2. QED
  BY SpecSerial, <1>1, PTL

\* A leader who has a leader.
Led(w) == IsLeader(w) /\ w.leader # NoUser

\* That the job j may save w, as far as leaders with leaders go.
MayLead(j, w) ==
  Led(w) =>
    /\ IsLeader(profile[j.user])
    /\ w.leader = profile[j.user].leader \/ CarriesOut(j, j.user, w.leader)

\* What a job saves next, and later.
Heeds(j) ==
  /\ j.at \in {"store", "demote"} =>
       /\ MayLead(j, j.writes[1])
       /\ \A i \in DOMAIN j.writes \ {1} : ~Led(j.writes[i])
  /\ j.at \in {"mentees", "free", "pair"} => \A i \in DOMAIN j.writes : ~Led(j.writes[i])

HeedInv == ~overlapped => \A s \in Sessions : Heeds(job[s])

LEMMA IdleHeeds == Heeds(Idle)
BY DEF Heeds, Idle

\* The process that is alone goes on with the job j.
LEMMA HeedGo ==
  ASSUME Inv, NEW s \in Sessions, NEW j, job' = [job EXCEPT ![s] = j],
         ~overlapped' => Only(s) /\ Heeds(j)'
  PROVE  HeedInv'
<1>1. job \in [Sessions -> Jobs(Sound)]
  BY DEF Inv, TypedWith, Jobs
<1>2. ~overlapped' => \A t \in Sessions : job'[t] = j \/ job'[t] = Idle
  BY <1>1 DEF Only
<1>3. Heeds(Idle)'
  BY DEF Heeds, Idle
<1>4. QED
  BY <1>2, <1>3 DEF HeedInv

\* A web request begins, and its job may be relied on whatever else is the case.
LEMMA HeedStart ==
  ASSUME Inv, AloneInv, NEW s \in Sessions, NEW j, Start(s, j), Heeds(j)
  PROVE  HeedInv'
<1>1. /\ job' = [job EXCEPT ![s] = j] /\ profile' = profile /\ leadership' = leadership
  BY DEF Start, Begin
<1>2. Heeds(j)'
  BY <1>1 DEF Heeds, MayLead, CarriesOut
<1>3. ~overlapped' => Only(s)
  BY BeginAlone DEF Start
<1>4. QED
  BY <1>1, <1>2, <1>3, HeedGo

LEMMA HeedSaving ==
  ASSUME NEW u \in Users, NEW w,
         Led(w[1]) => IsLeader(profile[u]) /\ w[1].leader = profile[u].leader,
         \A i \in DOMAIN w \ {1} : ~Led(w[i])
  PROVE  Heeds(Saving(u, w))
BY DEF Heeds, MayLead, Saving, Idle

LEMMA HeedResigning ==
  ASSUME Inv, NEW u \in Users, NEW c \in BOOLEAN, IsLeader(profile[u])
  PROVE  Heeds(Resigning(u, c))
<1> DEFINE p == profile[u]
           d == IF CanModerate(p) THEN Demoted(p) ELSE p
           r == [d EXCEPT !.flags = @ \ {"is_leader"}]
           w1 == IF CanModerate(p) THEN <<d>> ELSE <<>>
           w2 == IF c THEN <<r>> ELSE <<>>
           a == IF CanModerate(p) THEN "demote" ELSE "mentees"
           j == Resigning(u, c)
<1>1. p \in [status : Statuses, flags : SUBSET Flags, leader : Users \union {NoUser}]
  BY DEF Inv, TypedWith, Sound, Profiles
<1>2. d.leader = p.leader /\ ~Led(r)
  BY <1>1 DEF Demoted, IsLeader, Led
<1>3. j.at = a /\ j.user = u /\ j.writes = w1 \o w2
  BY DEF Resigning, Idle
<1> HIDE DEF d, r, j
<1>4. /\ CanModerate(p) => /\ (w1 \o w2)[1] = d
                           /\ \A i \in DOMAIN (w1 \o w2) \ {1} : ~Led((w1 \o w2)[i])
      /\ ~CanModerate(p) => \A i \in DOMAIN (w1 \o w2) : ~Led((w1 \o w2)[i])
  <2>1. CASE CanModerate(p) /\ c
    BY <1>2, <2>1
  <2>2. CASE CanModerate(p) /\ ~c
    BY <1>2, <2>2
  <2>3. CASE ~CanModerate(p) /\ c
    BY <1>2, <2>3
  <2>4. CASE ~CanModerate(p) /\ ~c
    BY <1>2, <2>4
  <2>5. QED
    BY <2>1, <2>2, <2>3, <2>4
<1> HIDE DEF w1, w2
<1>5. Heeds(j)
  BY <1>2, <1>3, <1>4 DEF Heeds, MayLead
<1>6. QED
  BY <1>5 DEF j

LEMMA HeedAsk ==
  ASSUME Inv, AloneInv, HeedInv, NEW s \in Sessions, NEW u \in Users, Ask(s, u)
  PROVE  HeedInv'
<1>1. CASE Apply(s, u)
  <2>1. PICK j : j = [Idle EXCEPT !.at = "insert", !.user = u, !.kind = "JOIN"]
    OBVIOUS
  <2>2. Begin(s, j) /\ job' = [job EXCEPT ![s] = j]
    BY <1>1, <2>1 DEF Apply, Begin
  <2>3. Heeds(j)'
    BY <2>1 DEF Heeds, Idle
  <2>4. QED
    BY <2>2, <2>3, BeginAlone, HeedGo
<1>2. CASE Resign(s, u)
  BY <1>2, HeedResigning, HeedStart DEF Resign
<1>3. CASE Settings(s, u)
  <2>1. Heeds(Saving(u, <<profile[u]>>))
    <3>1. PICK w : w = <<profile[u]>>
      OBVIOUS
    <3>2. w[1] = profile[u] /\ DOMAIN w \ {1} = {}
      BY <3>1
    <3>3. QED
      BY <3>1, <3>2, HeedSaving DEF Led
  <2>2. QED
    BY <1>3, <2>1, HeedStart DEF Settings
<1>4. ASSUME NEW k \in {"LEAD", "PAIR"}, Request(s, u, k) PROVE HeedInv'
  <2>1. PICK j : j = [Idle EXCEPT !.at = "insert", !.user = u, !.kind = k]
    OBVIOUS
  <2>2. Heeds(j) /\ Start(s, j)
    BY <1>4, <2>1 DEF Heeds, Idle, Request
  <2>3. QED
    BY <2>2, HeedStart
<1>5. QED
  BY <1>1, <1>2, <1>3, <1>4 DEF Ask

\* One save that keeps the flags, clears the leader, or is of no leader.
LEMMA HeedOne ==
  ASSUME Inv, AloneInv, NEW s \in Sessions, NEW u \in Users, NEW p,
         Start(s, Saving(u, <<p>>)),
         Led(p) => IsLeader(profile[u]) /\ p.leader = profile[u].leader
  PROVE  HeedInv'
<1>1. PICK w : w = <<p>>
  OBVIOUS
<1>2. w[1] = p /\ DOMAIN w \ {1} = {}
  BY <1>1
<1>3. Heeds(Saving(u, w))
  BY <1>2, HeedSaving
<1>4. QED
  BY <1>1, <1>3, HeedStart

LEMMA HeedDecide ==
  ASSUME Inv, AloneInv, HeedInv, NEW s \in Sessions, NEW a \in Users, Decide(s, a)
  PROVE  HeedInv'
<1>0. \A v \in Users :
        profile[v] \in [status : Statuses, flags : SUBSET Flags, leader : Users \union {NoUser}]
  BY DEF Inv, TypedWith, Sound, Profiles
<1>1. ASSUME NEW i \in DOMAIN leadership, NEW x \in Responses, Respond(s, a, i, x)
      PROVE  HeedInv'
  <2>1. PICK j : j.at = "answer" /\ Start(s, j)
    BY <1>1 DEF Respond, Idle
  <2>2. Heeds(j)
    BY <2>1 DEF Heeds
  <2>3. QED
    BY <2>1, <2>2, HeedStart
<1>2. ASSUME NEW u \in Users, Ban(s, a, u) PROVE HeedInv'
  BY <1>2, HeedResigning, HeedStart DEF Ban
<1>3. ASSUME NEW u \in Users, Guide(s, a, u) PROVE HeedInv'
  <2>1. ~Led(Promoted(profile[u]))
    BY <1>0 DEF Led, Promoted
  <2>2. CASE IsLeader(profile[u])
    BY <1>3, <2>2, HeedResigning, HeedStart DEF Guide
  <2>3. CASE ~IsLeader(profile[u])
    BY <1>3, <2>1, <2>3, HeedOne DEF Guide
  <2>4. QED
    BY <2>2, <2>3
<1>4. ASSUME NEW u \in Users, Moderator(s, a, u) PROVE HeedInv'
  <2> DEFINE p == profile[u]
             l == IF IsLeader(p) THEN p ELSE Promoted(p)
             m == [l EXCEPT !.flags = @ \union {"is_moderator"}]
  <2>1. /\ Demoted(p).leader = p.leader
        /\ IsLeader(Demoted(p)) => IsLeader(p)
    BY <1>0 DEF Demoted, IsLeader
  <2>2. /\ IsLeader(p) => m.leader = p.leader
        /\ ~IsLeader(p) => ~Led(l) /\ ~Led(m)
    BY <1>0 DEF Promoted, Led
  <2>3. \/ Start(s, Saving(u, <<Demoted(p)>>))
        \/ IsLeader(p) /\ Start(s, Saving(u, <<m>>))
        \/ ~IsLeader(p) /\ Start(s, Saving(u, <<l, m>>))
    BY <1>4 DEF Moderator
  <2> HIDE DEF p, l, m
  <2>4. p = profile[u]
    BY DEF p
  <2>5. CASE Start(s, Saving(u, <<Demoted(p)>>))
    BY <2>1, <2>4, <2>5, HeedOne DEF Led
  <2>6. CASE IsLeader(p) /\ Start(s, Saving(u, <<m>>))
    BY <2>2, <2>4, <2>6, HeedOne
  <2>7. CASE ~IsLeader(p) /\ Start(s, Saving(u, <<l, m>>))
    <3>1. PICK w : w = <<l, m>>
      OBVIOUS
    <3>2. w[1] = l /\ \A i \in DOMAIN w \ {1} : w[i] = m
      BY <3>1
    <3>3. Heeds(Saving(u, w))
      BY <2>2, <2>7, <3>2, HeedSaving
    <3>4. QED
      BY <2>7, <3>1, <3>3, HeedStart
  <2>8. QED
    BY <2>3, <2>5, <2>6, <2>7
<1>5. ASSUME NEW u \in Users, Abandon(s, a, u) PROVE HeedInv'
  <2>1. PICK p : p = [profile[u] EXCEPT !.leader = NoUser]
    OBVIOUS
  <2>2. ~Led(p)
    BY <1>0, <2>1 DEF Led
  <2>3. QED
    BY <1>5, <2>1, <2>2, HeedOne DEF Abandon
<1>6. ASSUME NEW u \in Users, NEW l \in Users, Transfer(s, a, u, l) PROVE HeedInv'
  <2>1. PICK p : p = [profile[u] EXCEPT !.leader = l]
    OBVIOUS
  <2>2. ~Led(p)
    BY <1>0, <1>6, <2>1 DEF Led, Transfer, IsLeader
  <2>3. QED
    BY <1>6, <2>1, <2>2, HeedOne DEF Transfer
<1>7. QED
  BY <1>1, <1>2, <1>3, <1>4, <1>5, <1>6 DEF Decide

\* An answer is saved: its effect comes next.
LEMMA HeedAnswer ==
  ASSUME Inv, AloneInv, SerialInv, NEW s \in Sessions, Answer(s)
  PROVE  HeedInv'
<1>0. PICK j, r, p, w :
        /\ j = job[s] /\ r = leadership[j.request]
        /\ p = IF r.kind = "PAIR" THEN profile[j.user] ELSE j.writes[1]
        /\ w = Effect(r.kind, j.answer, p, j.actor)
  OBVIOUS
<1>1. PICK n :
        /\ job' = [job EXCEPT ![s] = n] /\ profile' = profile /\ overlapped' = overlapped
        /\ leadership' = [leadership EXCEPT ![j.request] =
                            [r EXCEPT !.response = j.answer, !.by = j.actor]]
        /\ \/ n = [j EXCEPT !.at = "join"]
           \/ w # <<>> /\ n = [j EXCEPT !.at = "store", !.writes = w]
           \/ n = Idle
        /\ j.at = "answer"
  <2>1. /\ \/ job' = [job EXCEPT ![s] = [j EXCEPT !.at = "join"]]
           \/ w # <<>> /\ job' = [job EXCEPT ![s] = [j EXCEPT !.at = "store", !.writes = w]]
           \/ job' = [job EXCEPT ![s] = Idle]
        /\ profile' = profile /\ overlapped' = overlapped
    BY <1>0 DEF Answer, Continue
  <2>2. /\ j.at = "answer"
        /\ leadership' = [leadership EXCEPT ![j.request] =
                            [r EXCEPT !.response = j.answer, !.by = j.actor]]
    BY <1>0 DEF Answer
  <2>3. QED
    BY <2>1, <2>2
<1>2. /\ j \in Jobs(Sound) /\ j # Idle /\ j.user \in Users /\ j.actor \in Users
      /\ j.request \in DOMAIN leadership /\ r \in Requests
      /\ leadership \in Seq(Requests) /\ profile \in [Users -> Sound]
  <2>1. /\ j \in Jobs(Sound) /\ Ready(j, leadership)
        /\ leadership \in Seq(Requests) /\ profile \in [Users -> Sound]
    BY <1>0 DEF Inv, TypedWith, Jobs
  <2>2. j # Idle
    BY <1>1 DEF Idle
  <2>3. j.user \in Users /\ j.actor \in Users /\ j.request \in 1 .. Len(leadership)
    BY <1>1, <2>1 DEF Ready
  <2>4. QED
    BY <1>0, <2>1, <2>2, <2>3, ElementOfSeq, LenProperties
<1> SUFFICES ASSUME ~overlapped, Only(s) PROVE Heeds(n)'
  <2>1. ~overlapped => Only(s)
    BY <1>0, <1>1, <1>2, GoAlone
  <2>2. QED
    BY <1>1, <2>1, HeedGo
<1>3. SafeAnswer(j)
  BY <1>0, Served DEF Safe
<1>4. r.owner = j.user /\ (r.kind # "PAIR" => j.writes = <<profile[j.user]>>)
  BY <1>0, <1>1, <1>3 DEF SafeAnswer
<1>5. p = profile[j.user] /\ p \in Profiles
  BY <1>0, <1>2, <1>4 DEF Sound
<1>6. CASE n = [j EXCEPT !.at = "join"]
  BY <1>2, <1>6 DEF Heeds, Jobs
<1>7. CASE n = Idle
  BY <1>7 DEF Heeds, Idle
<1>8. CASE w # <<>> /\ n = [j EXCEPT !.at = "store", !.writes = w]
  <2>1. n.at = "store" /\ n.user = j.user /\ n.request = j.request /\ n.writes = w
    BY <1>2, <1>8 DEF Jobs
  <2>2. DOMAIN w = {1}
    <3>1. \E y : w = <<y>>
      BY <1>0, <1>8 DEF Effect
    <3>2. PICK y : w = <<y>>
      BY <3>1
    <3>3. DOMAIN <<y>> = 1 .. 1
      OBVIOUS
    <3>4. QED
      BY <3>2, <3>3
  <2>3. PICK x : x = w[1]
    OBVIOUS
  <2>4. \/ x = [p EXCEPT !.status = "DENIED"]
        \/ x = Promoted(p)
        \/ r.kind = "PAIR" /\ j.answer = "APPROVED" /\ x = [p EXCEPT !.leader = j.actor]
    <3>1. 1 \in DOMAIN Effect(r.kind, j.answer, p, j.actor) /\ x = Effect(r.kind, j.answer, p, j.actor)[1]
      BY <1>0, <2>2, <2>3
    <3>2. QED
      BY <3>1, EffectIs
  <2>5. MayLead(n, x)'
    <3>1. CASE x = [p EXCEPT !.status = "DENIED"]
      <4>1. x.leader = p.leader /\ (IsLeader(x) => IsLeader(p))
        BY <1>5, <3>1 DEF Profiles, IsLeader
      <4>2. QED
        BY <1>1, <1>5, <2>1, <4>1 DEF MayLead, Led
    <3>2. CASE x = Promoted(p)
      BY <1>5, <3>2 DEF Profiles, Promoted, MayLead, Led
    <3>3. CASE r.kind = "PAIR" /\ j.answer = "APPROVED" /\ x = [p EXCEPT !.leader = j.actor]
      <4>1. x.leader = j.actor /\ (IsLeader(x) => IsLeader(p))
        BY <1>5, <3>3 DEF Profiles, IsLeader
      <4>2. CarriesOut(n, j.user, j.actor)'
        <5>1. /\ j.request \in DOMAIN leadership'
              /\ leadership'[j.request] = [r EXCEPT !.response = j.answer, !.by = j.actor]
          BY <1>1, <1>2
        <5>2. QED
          BY <1>2, <1>4, <2>1, <3>3, <5>1 DEF CarriesOut, Requests
      <4>3. QED
        BY <1>1, <1>5, <2>1, <4>1, <4>2 DEF MayLead, Led
    <3>4. QED
      BY <2>4, <3>1, <3>2, <3>3
  <2>6. QED
    BY <2>1, <2>2, <2>3, <2>5 DEF Heeds
<1>9. QED
  BY <1>1, <1>6, <1>7, <1>8

\* The applicant who is accepted is given to the leader who answered.
LEMMA HeedActivate ==
  ASSUME Inv, AloneInv, SerialInv, NEW s \in Sessions, Activate(s)
  PROVE  HeedInv'
<1>1. PICK j, l, w, n :
        /\ j = job[s] /\ j.at = "join"
        /\ l = IF HasRoom(j.actor) THEN j.actor ELSE NoUser
        /\ w = [j.writes[1] EXCEPT !.status = "APPROVED", !.leader = l]
        /\ n = [j EXCEPT !.at = "store", !.writes = <<w>>]
        /\ job' = [job EXCEPT ![s] = n] /\ overlapped' = overlapped
        /\ profile' = profile /\ leadership' = leadership
  BY DEF Activate, Continue
<1>2. /\ j \in Jobs(Sound) /\ j # Idle /\ j.user \in Users /\ j.actor \in Users
      /\ j.request \in DOMAIN leadership /\ profile[j.user] \in Profiles
  <2>1. j \in Jobs(Sound) /\ Ready(j, leadership)
    BY <1>1 DEF Inv, TypedWith, Jobs
  <2>2. j # Idle
    BY <1>1 DEF Idle
  <2>3. QED
    BY <1>1, <2>1, <2>2, LenProperties DEF Inv, TypedWith, Ready, Sound
<1> SUFFICES ASSUME ~overlapped, Only(s) PROVE Heeds(n)'
  <2>1. ~overlapped => Only(s)
    BY <1>1, <1>2, GoAlone
  <2>2. QED
    BY <1>1, <2>1, HeedGo
<1>3. SafeJoin(j)
  BY <1>1, Served DEF Safe
<1>4. /\ leadership[j.request] =
           [kind |-> "JOIN", owner |-> j.user, response |-> "APPROVED", by |-> j.actor]
      /\ j.writes = <<profile[j.user]>>
  BY <1>1, <1>3 DEF SafeJoin
<1>5. w.leader = l /\ w.flags = profile[j.user].flags
  BY <1>1, <1>2, <1>4 DEF Profiles
<1>6. /\ n.at = "store" /\ n.user = j.user /\ n.request = j.request
      /\ n.writes[1] = w /\ DOMAIN n.writes \ {1} = {}
  BY <1>1, <1>2 DEF Jobs
<1>7. CarriesOut(n, j.user, j.actor)'
  BY <1>1, <1>2, <1>4, <1>6 DEF CarriesOut
<1>8. MayLead(n, w)'
  BY <1>1, <1>5, <1>6, <1>7 DEF MayLead, Led, IsLeader
<1>9. QED
  BY <1>6, <1>8 DEF Heeds

LEMMA OneBelow == \A k \in Nat : k # 0 /\ k # 1 => 1 \in 1 .. (k - 1)
OBVIOUS

\* A save: those that follow make no leader who has a leader.
LEMMA HeedStore ==
  ASSUME Inv, AloneInv, HeedInv, NEW s \in Sessions, Store(s) \/ Demote(s)
  PROVE  HeedInv'
<1>1. PICK j, n :
        /\ j = job[s] /\ j.at \in {"store", "demote"}
        /\ \/ n = Idle
           \/ j.at = "store" /\ Len(j.writes) # 1 /\ n = [j EXCEPT !.writes = Tail(@)]
           \/ n = [j EXCEPT !.at = "mentees", !.writes = Tail(@)]
        /\ job' = [job EXCEPT ![s] = n] /\ overlapped' = overlapped
  <2>1. PICK j : j = job[s]
    OBVIOUS
  <2>2. CASE Store(s)
    <3>1. PICK n : n = IF Len(j.writes) = 1 THEN Idle ELSE [j EXCEPT !.writes = Tail(@)]
      OBVIOUS
    <3>2. job' = [job EXCEPT ![s] = n] /\ overlapped' = overlapped /\ j.at = "store"
      BY <2>1, <2>2, <3>1 DEF Store, Continue
    <3>3. QED
      BY <2>1, <3>1, <3>2
  <2>3. CASE Demote(s)
    BY <2>1, <2>3 DEF Demote, Continue
  <2>4. QED
    BY <2>2, <2>3
<1>2. /\ j \in Jobs(Sound) /\ j # Idle /\ j.writes \in Seq(Sound) /\ j.writes # <<>>
  <2>1. j \in Jobs(Sound) /\ Ready(j, leadership)
    BY <1>1 DEF Inv, TypedWith, Jobs
  <2>2. j # Idle
    BY <1>1 DEF Idle
  <2>3. QED
    BY <1>1, <2>1, <2>2 DEF Ready, Jobs
<1> SUFFICES ASSUME ~overlapped, Only(s) PROVE Heeds(n)'
  <2>1. ~overlapped => Only(s)
    BY <1>1, <1>2, GoAlone
  <2>2. QED
    BY <1>1, <2>1, HeedGo
<1>3. \A i \in DOMAIN j.writes \ {1} : ~Led(j.writes[i])
  BY <1>1 DEF HeedInv, Heeds
<1>4. /\ \A m \in DOMAIN Tail(j.writes) : ~Led(Tail(j.writes)[m])
      /\ Len(j.writes) # 1 => 1 \in DOMAIN Tail(j.writes)
  <2>1. /\ DOMAIN j.writes = 1 .. Len(j.writes) /\ Len(j.writes) \in Nat /\ Len(j.writes) # 0
    BY <1>2, LenProperties, EmptySeq
  <2>2. /\ Len(Tail(j.writes)) = Len(j.writes) - 1
        /\ DOMAIN Tail(j.writes) = 1 .. Len(Tail(j.writes))
        /\ \A m \in 1 .. Len(Tail(j.writes)) : Tail(j.writes)[m] = j.writes[m + 1]
    BY <1>2, HeadTailProperties, LenProperties
  <2>3. ASSUME NEW m \in DOMAIN Tail(j.writes)
        PROVE  ~Led(Tail(j.writes)[m])
    <3>1. m + 1 \in DOMAIN j.writes \ {1} /\ Tail(j.writes)[m] = j.writes[m + 1]
      BY <2>1, <2>2
    <3>2. QED
      BY <1>3, <3>1
  <2>4. Len(j.writes) # 1 => 1 \in DOMAIN Tail(j.writes)
    <3>1. PICK k \in Nat : k = Len(j.writes) /\ k # 0
      BY <2>1
    <3>2. k # 1 => 1 \in 1 .. (k - 1)
      BY <3>1, OneBelow
    <3>3. DOMAIN Tail(j.writes) = 1 .. (k - 1)
      BY <2>2, <3>1
    <3>4. QED
      BY <3>1, <3>2, <3>3
  <2>5. QED
    BY <2>3, <2>4
<1>5. CASE n = Idle
  BY <1>5 DEF Heeds, Idle
<1>6. CASE j.at = "store" /\ Len(j.writes) # 1 /\ n = [j EXCEPT !.writes = Tail(@)]
  <2>1. n.at = "store" /\ n.writes = Tail(j.writes)
    BY <1>2, <1>6 DEF Jobs
  <2>2. ~Led(n.writes[1]) /\ \A m \in DOMAIN n.writes : ~Led(n.writes[m])
    BY <1>4, <1>6, <2>1
  <2>3. QED
    BY <2>1, <2>2 DEF Heeds, MayLead, Led
<1>7. CASE n = [j EXCEPT !.at = "mentees", !.writes = Tail(@)]
  <2>1. n.at = "mentees" /\ n.writes = Tail(j.writes)
    BY <1>2, <1>7 DEF Jobs
  <2>2. QED
    BY <1>4, <2>1 DEF Heeds, Led
<1>8. QED
  BY <1>1, <1>5, <1>6, <1>7

\* What follows a mentee.
LEMMA HeedNext ==
  ASSUME NEW j \in Jobs(Sound), \A i \in DOMAIN j.writes : ~Led(j.writes[i])
  PROVE  Heeds(NextMentee(j))'
<1>1. PICK n : n = NextMentee(j)
  OBVIOUS
<1>2. CASE j.mentees # {}
  <2>1. n = [j EXCEPT !.at = "free", !.freed = NoUser]
    BY <1>1, <1>2 DEF NextMentee
  <2>2. n.at = "free" /\ n.writes = j.writes
    BY <2>1 DEF Jobs
  <2>3. QED
    BY <1>1, <2>2 DEF Heeds, Led, IsLeader
<1>3. CASE j.mentees = {} /\ j.writes # <<>>
  <2>1. n = Saving(j.user, j.writes)
    BY <1>1, <1>3 DEF NextMentee
  <2>2. n.at = "store" /\ n.writes = j.writes
    BY <2>1 DEF Saving, Idle
  <2>3. 1 \in DOMAIN j.writes
    <3>1. j.writes \in Seq(Sound)
      BY DEF Jobs
    <3>2. QED
      BY <1>3, <3>1, LenProperties, EmptySeq
  <2>4. QED
    BY <1>1, <2>2, <2>3 DEF Heeds, MayLead, Led, IsLeader
<1>4. CASE j.mentees = {} /\ j.writes = <<>>
  <2>1. n = Idle
    BY <1>1, <1>4 DEF NextMentee
  <2>2. QED
    BY <1>1, <2>1 DEF Heeds, Idle
<1>5. QED
  BY <1>2, <1>3, <1>4

\* The steps of a resignation between its saves.
LEMMA HeedResign ==
  ASSUME Inv, AloneInv, HeedInv, NEW s \in Sessions, LoadMentees(s) \/ Free(s) \/ Pair(s)
  PROVE  HeedInv'
<1>0. PICK j : j = job[s] /\ j \in Jobs(Sound)
  BY DEF Inv, TypedWith, Jobs
<1>1. j.at \in {"mentees", "free", "pair"} /\ overlapped' = overlapped
  BY <1>0 DEF LoadMentees, Free, Pair, Continue
<1>2. PICK n :
        /\ job' = [job EXCEPT ![s] = n]
        /\ \/ \E k \in Jobs(Sound) : k.writes = j.writes /\ n = NextMentee(k)
           \/ n.at = "pair" /\ n.writes = j.writes
  <2>1. CASE LoadMentees(s)
    <3>1. PICK ms, k :
            /\ ms = Mentees(j.user)
            /\ k = [j EXCEPT !.mentees = ms,
                             !.seen = [u \in Users |-> IF u \in ms THEN profile[u] ELSE Blank]]
      OBVIOUS
    <3>2. job' = [job EXCEPT ![s] = NextMentee(k)]
      BY <1>0, <2>1, <3>1 DEF LoadMentees, Continue
    <3>3. k \in Jobs(Sound) /\ k.writes = j.writes
      <4>1. PICK f : f = [u \in Users |-> IF u \in ms THEN profile[u] ELSE Blank]
        OBVIOUS
      <4>2. f \in [Users -> Sound] /\ ms \subseteq Users
        BY <3>1, <4>1, BlankSound DEF Mentees, Inv, TypedWith
      <4>3. QED
        BY <1>0, <3>1, <4>1, <4>2 DEF Jobs
    <3>4. QED
      BY <3>2, <3>3
  <2>2. CASE Free(s)
    <3>1. PICK m \in j.mentees :
            Continue(s, [j EXCEPT !.at = "pair", !.freed = m,
                                  !.mentees = @ \ {m}, !.seen[m] = Blank])
      BY <1>0, <2>2 DEF Free
    <3>2. PICK n :
            n = [j EXCEPT !.at = "pair", !.freed = m, !.mentees = @ \ {m}, !.seen[m] = Blank]
      OBVIOUS
    <3>3. job' = [job EXCEPT ![s] = n]
      BY <3>1, <3>2 DEF Continue
    <3>4. n.at = "pair" /\ n.writes = j.writes
      BY <1>0, <3>2 DEF Jobs
    <3>5. QED
      BY <3>3, <3>4
  <2>3. CASE Pair(s)
    <3>1. job' = [job EXCEPT ![s] = NextMentee(j)]
      BY <1>0, <2>3 DEF Pair, Continue
    <3>2. QED
      BY <1>0, <3>1
  <2>4. QED
    BY <2>1, <2>2, <2>3
<1> SUFFICES ASSUME ~overlapped, Only(s) PROVE Heeds(n)'
  <2>1. job[s] # Idle
    BY <1>0, <1>1 DEF Idle
  <2>2. ~overlapped => Only(s)
    BY <1>1, <1>2, <2>1, GoAlone
  <2>3. QED
    BY <1>1, <1>2, <2>2, HeedGo
<1>3. \A i \in DOMAIN j.writes : ~Led(j.writes[i])
  BY <1>0, <1>1 DEF HeedInv, Heeds
<1>4. CASE \E k \in Jobs(Sound) : k.writes = j.writes /\ n = NextMentee(k)
  <2>1. PICK k \in Jobs(Sound) : k.writes = j.writes /\ n = NextMentee(k)
    BY <1>4
  <2>2. QED
    BY <1>3, <2>1, HeedNext
<1>5. CASE n.at = "pair" /\ n.writes = j.writes
  BY <1>3, <1>5 DEF Heeds, Led
<1>6. QED
  BY <1>2, <1>4, <1>5

LEMMA StepHeed == Inv /\ AloneInv /\ SerialInv /\ HeedInv /\ [Next]_vars => HeedInv'
<1> SUFFICES ASSUME Inv, AloneInv, SerialInv, HeedInv, [Next]_vars
             PROVE  HeedInv'
  OBVIOUS
<1>1. CASE UNCHANGED vars
  BY <1>1 DEF vars, HeedInv, Heeds, MayLead, CarriesOut
<1>2. CASE Next
  <2>1. PICK s \in Sessions :
          Serve(s) \/ Die(s) \/ \E u \in Users : Ask(s, u) \/ Decide(s, u)
    BY <1>2 DEF Next
  <2>2. CASE \E u \in Users : Ask(s, u) \/ Decide(s, u)
    BY <2>2, HeedAsk, HeedDecide
  <2>3. CASE Insert(s) \/ Die(s)
    <3>1. /\ job' = [job EXCEPT ![s] = Idle] /\ overlapped' = overlapped /\ job[s] # Idle
      BY <2>3 DEF Insert, Die, Continue, Idle
    <3>2. Heeds(Idle)'
      BY DEF Heeds, Idle
    <3>3. QED
      BY <3>1, <3>2, GoAlone, HeedGo
  <2>4. CASE Answer(s) \/ Activate(s) \/ Store(s) \/ Demote(s) \/ LoadMentees(s) \/ Free(s) \/ Pair(s)
    BY <2>4, HeedAnswer, HeedActivate, HeedStore, HeedResign
  <2>5. QED
    BY <2>1, <2>2, <2>3, <2>4 DEF Serve
<1>3. QED
  BY <1>1, <1>2

LEMMA InitHeed == Init => HeedInv
BY IdleHeeds DEF Init, HeedInv

\* Which steps save a profile.
LEMMA SavesOne ==
  ASSUME Inv, NEW s \in Sessions,
         Serve(s) \/ Die(s) \/ \E u \in Users : Ask(s, u) \/ Decide(s, u)
  PROVE  \/ profile' = profile
         \/ \E u \in Users : profile' = [profile EXCEPT ![u].status = "PENDING"]
         \/ /\ job[s].at \in {"store", "demote"} /\ overlapped' = overlapped
            /\ profile' = [profile EXCEPT ![job[s].user] = job[s].writes[1]]
         \/ \E m \in Users, w \in Profiles :
              w.leader = NoUser /\ profile' = [profile EXCEPT ![m] = w]
<1>1. CASE Serve(s)
  <2>1. CASE Free(s)
    <3>1. PICK m \in job[s].mentees :
            profile' = [profile EXCEPT ![m] = [job[s].seen[m] EXCEPT !.leader = NoUser]]
      BY <2>1 DEF Free
    <3>2. PICK w : w = [job[s].seen[m] EXCEPT !.leader = NoUser]
      OBVIOUS
    <3>3. m \in Users /\ job[s].seen[m] \in Profiles
      BY DEF Inv, TypedWith, Sound
    <3>4. w \in Profiles /\ w.leader = NoUser
      BY <3>2, <3>3 DEF Profiles
    <3>5. QED
      BY <3>1, <3>2, <3>3, <3>4
  <2>2. CASE Store(s) \/ Demote(s)
    BY <2>2 DEF Store, Demote, Continue
  <2>3. CASE Insert(s) \/ Answer(s) \/ Activate(s) \/ LoadMentees(s) \/ Pair(s)
    BY <2>3 DEF Insert, Answer, Activate, LoadMentees, Pair
  <2>4. QED
    BY <1>1, <2>1, <2>2, <2>3 DEF Serve
<1>2. CASE Die(s)
  BY <1>2 DEF Die
<1>3. ASSUME NEW u \in Users, Ask(s, u)
      PROVE  profile' = profile \/ profile' = [profile EXCEPT ![u].status = "PENDING"]
  BY <1>3 DEF Ask, Apply, Resign, Settings, Request, Start
<1>4. ASSUME NEW a \in Users, Decide(s, a)
      PROVE  profile' = profile
  BY <1>4 DEF Decide, Respond, Ban, Guide, Moderator, Abandon, Transfer, Start
<1>5. QED
  BY <1>1, <1>2, <1>3, <1>4

\* What a step saves of a user.
AskedFor(u) ==
  LET old == profile[u]  new == profile'[u] IN
  (IsLeader(new) /\ new.leader # NoUser) =>
    /\ IsLeader(old)
    /\ \/ new.leader = old.leader
       \/ \E s \in Sessions : CarriesOut(job[s], u, new.leader)

LEMMA HeedSaves ==
  ASSUME Inv, AloneInv, HeedInv, Next, ~overlapped', NEW u \in Users
  PROVE  AskedFor(u)
<1>1. PICK s \in Sessions :
        Serve(s) \/ Die(s) \/ \E v \in Users : Ask(s, v) \/ Decide(s, v)
  BY DEF Next
<1>2. profile \in [Users -> Profiles]
  BY DEF Inv, TypedWith, Sound
<1>3. CASE profile'[u] = profile[u]
  BY <1>3 DEF AskedFor
<1>4. CASE profile'[u] # profile[u]
  <2>1. ASSUME NEW v \in Users, profile' = [profile EXCEPT ![v].status = "PENDING"]
        PROVE  AskedFor(u)
    <3>1. profile'[u] = [profile[u] EXCEPT !.status = "PENDING"]
      BY <1>2, <1>4, <2>1
    <3>2. profile'[u].flags = profile[u].flags /\ profile'[u].leader = profile[u].leader
      BY <1>2, <3>1 DEF Profiles
    <3>3. QED
      BY <3>2 DEF AskedFor, IsLeader
  <2>2. CASE /\ job[s].at \in {"store", "demote"} /\ overlapped' = overlapped
             /\ profile' = [profile EXCEPT ![job[s].user] = job[s].writes[1]]
    <3>1. u = job[s].user /\ profile'[u] = job[s].writes[1]
      BY <1>2, <1>4, <2>2
    <3>2. MayLead(job[s], job[s].writes[1])
      BY <2>2 DEF HeedInv, Heeds
    <3>3. QED
      BY <3>1, <3>2 DEF AskedFor, MayLead, Led
  <2>3. ASSUME NEW m \in Users, NEW w \in Profiles, w.leader = NoUser,
               profile' = [profile EXCEPT ![m] = w]
        PROVE  AskedFor(u)
    <3>1. profile'[u] = w
      BY <1>2, <1>4, <2>3
    <3>2. QED
      BY <2>3, <3>1 DEF AskedFor
  <2>4. QED
    BY <1>1, <1>4, <2>1, <2>2, <2>3, SavesOne
<1>5. QED
  BY <1>3, <1>4

\* While web requests do not overlap, no promotion leaves a leader with a leader
\* (become_leader), and a leader is given one only by the answer to an own
\* request that this leader approved (approve, available_to_lead).
THEOREM LedLeadersAskedHolds == Spec => LedLeadersAsked
<1> DEFINE A == ~overlapped' => \A u \in Users : AskedFor(u)
<1>1. Inv /\ AloneInv /\ HeedInv /\ [Next]_vars => [A]_vars
  BY HeedSaves
<1>2. Spec => [][A]_vars
  BY InitInv, StepInv, InitSerial, StepAlone, StepSerial, InitHeed, StepHeed, <1>1, PTL DEF Spec
<1>3. QED
  BY <1>2 DEF AskedFor, LedLeadersAsked

\* As long as web requests do not overlap, the answer to an application and the
\* status of the applicant agree, but for the answers whose request failed
\* between the two saves (approve, deny).
THEOREM AnswerStandsHolds == Spec => []AnswerStands
<1>1. ASSUME Inv, AloneInv, SerialInv
      PROVE  AnswerStands
  <2> SUFFICES ASSUME ~overlapped, NEW i \in DOMAIN leadership,
                      leadership[i].kind = "JOIN", i \notin cutOff,
                      \A s \in Sessions : job[s].request # i
               PROVE  profile[leadership[i].owner].status =
                        IF leadership[i].response \in {"APPROVED", "DENIED"}
                        THEN leadership[i].response ELSE "PENDING"
    BY DEF AnswerStands
  <2>1. PICK s \in Sessions : TRUE
    BY <1>1 DEF SerialInv
  <2>2. PICK t \in Sessions : Only(t)
    BY <1>1, <2>1 DEF AloneInv, Only
  <2>3. StandBut(job[t].request) /\ job[t].request # i
    BY <1>1, <2>2 DEF SerialInv
  <2>4. QED
    BY <2>3 DEF StandBut
<1>2. QED
  BY SpecSerial, <1>1, PTL
-----------------------------------------------------------------------------
(* How many mentees a leader has.                                            *)

\* The web request of j is going to save u with the leader l.
Saves(j, u, l) == j.user = u /\ \E i \in DOMAIN j.writes : j.writes[i].leader = l

\* The web request of j is going to answer u that l will be the leader.
Takes(j, u, l) ==
  /\ j.at = "answer" /\ j.user = u /\ j.actor = l /\ j.answer = "APPROVED"
  /\ leadership[j.request].kind = "PAIR"

\* The mentees of l, and those whom the web requests may add to them.
Potential(l) ==
  {u \in Users : \/ profile[u].leader = l
                 \/ \E s \in Sessions : Saves(job[s], u, l) \/ Takes(job[s], u, l)}

Limit == MaxMentees + IF overlapped THEN Cardinality(Sessions) - 1 ELSE 0

RoomInv == \A l \in Users : Cardinality(Potential(l)) <= Limit

\* A process that serves nothing adds nobody.
LEMMA IdleBrings == \A u, l : ~Saves(Idle, u, l) /\ ~Takes(Idle, u, l)
BY DEF Saves, Takes, Idle

\* The mentees of l and those that the processes serve.
LEMMA RoomBound ==
  ASSUME Inv, NEW s \in Sessions, NEW l \in Users, NEW J \in [Sessions -> Jobs(Sound)],
         HasRoom(l), NEW alone \in BOOLEAN, alone => \A t \in Sessions \ {s} : J[t] = Idle,
         NEW P, P \subseteq {u \in Users : u \in Mentees(l)
                               \/ \E t \in Sessions : J[t] # Idle /\ J[t].user = u}
  PROVE  Cardinality(P) <= MaxMentees + IF alone THEN 0 ELSE Cardinality(Sessions) - 1
<1> DEFINE M == Mentees(l)
           f == [t \in Sessions |-> J[t].user]
           R == {f[t] : t \in Sessions}
<1>1. /\ IsFiniteSet(M) /\ Cardinality(M) \in Nat /\ Cardinality(M) < MaxMentees /\ MaxMentees \in Nat
  <2>1. M \in SUBSET Users /\ IsFiniteSet(Users) /\ MaxMentees \in Nat
    BY MentorshipAssumption DEF Mentees
  <2> HIDE DEF M
  <2>2. IsFiniteSet(M)
    BY <2>1, FS_Subset
  <2>3. QED
    BY <2>1, <2>2, FS_CardinalityType DEF HasRoom, M
<1>2. /\ IsFiniteSet(R) /\ Cardinality(R) \in Nat /\ Cardinality(R) <= Cardinality(Sessions)
      /\ Cardinality(Sessions) \in Nat
  <2>1. f \in [Sessions -> Users \union {NoUser}] /\ IsFiniteSet(Sessions)
    BY MentorshipAssumption DEF Jobs
  <2>0. R = {f[t] : t \in Sessions}
    OBVIOUS
  <2> HIDE DEF f, R
  <2>2. IsFiniteSet(R) /\ Cardinality(R) <= Cardinality(Sessions)
    <3>1. f \in Surjection(Sessions, R)
      BY <2>0, <2>1 DEF Surjection
    <3>2. QED
      BY <2>1, <3>1, FS_Surjection
  <2>3. Cardinality(R) \in Nat
    BY <2>2, FS_CardinalityType
  <2>4. Cardinality(Sessions) \in Nat
    BY <2>1, FS_CardinalityType
  <2>5. QED
    BY <2>2, <2>3, <2>4
<1>3. CASE ~alone
  <2>1. P \in SUBSET (M \union R)
    <3>1. \A t \in Sessions : J[t].user \in R
      OBVIOUS
    <3>2. QED
      BY <3>1
  <2> HIDE DEF M, R
  <2>2. /\ IsFiniteSet(M \union R)
        /\ Cardinality(M \union R) = Cardinality(M) + Cardinality(R) - Cardinality(M \intersect R)
    BY <1>1, <1>2, FS_Union
  <2>3. IsFiniteSet(M \intersect R) /\ Cardinality(M \intersect R) \in Nat
    BY <1>1, FS_Subset, FS_CardinalityType
  <2>4. /\ IsFiniteSet(P) /\ Cardinality(P) <= Cardinality(M \union R) /\ Cardinality(P) \in Nat
        /\ Cardinality(M \union R) \in Nat
    BY <2>1, <2>2, FS_Subset, FS_CardinalityType
  <2>5. QED
    BY <1>1, <1>2, <1>3, <2>2, <2>3, <2>4
<1>4. CASE alone
  <2>1. P \in SUBSET (M \union {J[s].user})
    BY <1>4
  <2> HIDE DEF M
  <2>2. /\ IsFiniteSet(M \union {J[s].user})
        /\ Cardinality(M \union {J[s].user}) <= Cardinality(M) + 1
        /\ Cardinality(M \union {J[s].user}) \in Nat
    <3>1. PICK x : x = J[s].user
      OBVIOUS
    <3>2. /\ IsFiniteSet(M \union {x})
          /\ Cardinality(M \union {x}) = IF x \in M THEN Cardinality(M) ELSE Cardinality(M) + 1
      BY <1>1, FS_AddElement
    <3>3. QED
      BY <1>1, <3>1, <3>2
  <2>3. Cardinality(P) <= Cardinality(M \union {J[s].user}) /\ Cardinality(P) \in Nat
    BY <2>1, <2>2, FS_Subset, FS_CardinalityType
  <2>4. QED
    BY <1>1, <1>4, <2>2, <2>3
<1>5. QED
  BY <1>3, <1>4

\* The process s moves: it adds nobody to the mentees of l to be, or it has just
\* seen that there is room for one.
LEMMA RoomStep ==
  ASSUME Inv, Inv', RoomInv, NEW s \in Sessions, NEW j, job' = [job EXCEPT ![s] = j],
         overlapped => overlapped', ~overlapped' => Only(s),
         \A i \in DOMAIN leadership :
           i \in DOMAIN leadership' /\ leadership'[i].kind = leadership[i].kind,
         \A l \in Users :
           \/ \A u \in Users :
                (profile'[u].leader = l \/ Saves(j, u, l) \/ Takes(j, u, l)') =>
                  (profile[u].leader = l \/ Saves(job[s], u, l) \/ Takes(job[s], u, l))
           \/ HasRoom(l) /\ profile' = profile
  PROVE  RoomInv'
<1> SUFFICES ASSUME NEW l \in Users
             PROVE  Cardinality(Potential(l)') <= Limit'
  BY DEF RoomInv
<1>1. /\ job \in [Sessions -> Jobs(Sound)] /\ job' \in [Sessions -> Jobs(Sound)]
      /\ leadership \in Seq(Requests) /\ overlapped \in BOOLEAN /\ overlapped' \in BOOLEAN
  BY DEF Inv, TypedWith, Jobs
<1>2. Potential(l) \in SUBSET Users /\ Cardinality(Potential(l)) \in Nat /\ IsFiniteSet(Potential(l))
  <2>1. Potential(l) \in SUBSET Users /\ IsFiniteSet(Users)
    BY MentorshipAssumption DEF Potential
  <2>2. QED
    BY <2>1, FS_Subset, FS_CardinalityType
<1>3. Cardinality(Sessions) \in Nat /\ Cardinality(Sessions) # 0 /\ MaxMentees \in Nat
  <2>1. IsFiniteSet(Sessions) /\ MaxMentees \in Nat
    BY MentorshipAssumption
  <2>2. QED
    BY <2>1, FS_CardinalityType, FS_EmptySet
<1>4. CASE \A u \in Users :
             (profile'[u].leader = l \/ Saves(j, u, l) \/ Takes(j, u, l)') =>
               (profile[u].leader = l \/ Saves(job[s], u, l) \/ Takes(job[s], u, l))
  <2>1. ASSUME NEW t \in Sessions \ {s}, NEW u \in Users, Saves(job'[t], u, l) \/ Takes(job[t], u, l)'
        PROVE  Saves(job[t], u, l) \/ Takes(job[t], u, l)
    <3>1. job'[t] = job[t]
      BY <1>1
    <3>2. job[t].at = "answer" => job[t].request \in DOMAIN leadership
      BY <1>1, LenProperties DEF Inv, Ready
    <3>3. QED
      BY <2>1, <3>1, <3>2 DEF Takes
  <2>2. \A u \in Users : Saves(job'[s], u, l) \/ Takes(job[s], u, l)' =>
                           Saves(j, u, l) \/ Takes(j, u, l)'
    BY <1>1 DEF Takes
  <2>3. Potential(l)' \in SUBSET Potential(l)
    <3> SUFFICES ASSUME NEW u \in Potential(l)'
                 PROVE  u \in Potential(l)
      OBVIOUS
    <3>1. /\ u \in Users
          /\ \/ profile'[u].leader = l
             \/ \E t \in Sessions : Saves(job'[t], u, l) \/ Takes(job[t], u, l)'
      BY DEF Potential, Takes
    <3>2. \/ profile[u].leader = l
          \/ \E t \in Sessions : Saves(job[t], u, l) \/ Takes(job[t], u, l)
      BY <1>4, <2>1, <2>2, <3>1
    <3>3. QED
      BY <3>1, <3>2 DEF Potential
  <2>4. Cardinality(Potential(l)') <= Cardinality(Potential(l)) /\ Cardinality(Potential(l)') \in Nat
    BY <1>2, <2>3, FS_Subset, FS_CardinalityType
  <2>5. Cardinality(Potential(l)) <= Limit
    BY DEF RoomInv
  <2>6. Limit \in Nat /\ Limit' \in Nat /\ Limit <= Limit'
    BY <1>1, <1>3 DEF Limit
  <2>7. QED
    BY <1>2, <2>4, <2>5, <2>6
<1>5. CASE HasRoom(l) /\ profile' = profile
  <2> DEFINE P == Potential(l)'
             J == job'
             alone == ~overlapped'
  <2>1. P \subseteq {u \in Users : u \in Mentees(l)
                        \/ \E t \in Sessions : J[t] # Idle /\ J[t].user = u}
    <3>1. \A t \in Sessions, u \in Users :
            Saves(job'[t], u, l) \/ Takes(job[t], u, l)' => job'[t] # Idle /\ job'[t].user = u
      BY DEF Saves, Takes, Idle
    <3>2. P = {u \in Users : \/ profile'[u].leader = l
                 \/ \E t \in Sessions : Saves(job'[t], u, l) \/ Takes(job[t], u, l)'}
      BY DEF Potential
    <3>3. QED
      BY <1>5, <3>1, <3>2 DEF Mentees
  <2>2. alone \in BOOLEAN /\ (alone => \A t \in Sessions \ {s} : J[t] = Idle)
    BY <1>1 DEF Only
  <2>3. J \in [Sessions -> Jobs(Sound)] /\ HasRoom(l)
    BY <1>1, <1>5
  <2>4. Limit' = MaxMentees + IF alone THEN 0 ELSE Cardinality(Sessions) - 1
    BY <1>1 DEF Limit
  <2> HIDE DEF P, J, alone
  <2>5. Cardinality(P) <= MaxMentees + IF alone THEN 0 ELSE Cardinality(Sessions) - 1
    BY <2>1, <2>2, <2>3, RoomBound
  <2>6. QED
    BY <2>4, <2>5 DEF P
<1>6. QED
  BY <1>4, <1>5

\* A web request begins with copies of what is there, or where there is room.
LEMMA RoomStart ==
  ASSUME Inv, Inv', AloneInv, RoomInv, NEW s \in Sessions, NEW j, Begin(s, j),
         \A u \in Users : profile'[u].leader = profile[u].leader,
         \A l \in Users :
           \/ \A u \in Users : Saves(j, u, l) \/ Takes(j, u, l) => profile[u].leader = l
           \/ HasRoom(l) /\ profile' = profile
  PROVE  RoomInv'
<1>1. /\ job' = [job EXCEPT ![s] = j] /\ leadership' = leadership
      /\ overlapped => overlapped'
  BY DEF Begin
<1>2. ~overlapped' => Only(s)
  BY BeginAlone
<1>3. \A u, l : Takes(j, u, l)' <=> Takes(j, u, l)
  BY <1>1 DEF Takes
<1>4. ASSUME NEW l \in Users
      PROVE  \/ \A u \in Users :
                  (profile'[u].leader = l \/ Saves(j, u, l) \/ Takes(j, u, l)') =>
                    (profile[u].leader = l \/ Saves(job[s], u, l) \/ Takes(job[s], u, l))
             \/ HasRoom(l) /\ profile' = profile
  BY <1>3
<1>5. \A k \in DOMAIN leadership : k \in DOMAIN leadership' /\ leadership'[k].kind = leadership[k].kind
  BY <1>1
<1>6. QED
  BY <1>1, <1>2, <1>4, <1>5, RoomStep

LEMMA RoomSaving ==
  ASSUME Inv, Inv', AloneInv, RoomInv, NEW s \in Sessions, NEW u \in Users, NEW w,
         Start(s, Saving(u, w)),
         \A l \in Users : (\A i \in DOMAIN w : w[i].leader = l => profile[u].leader = l) \/ HasRoom(l)
  PROVE  RoomInv'
<1>1. PICK j : j = Saving(u, w)
  OBVIOUS
<1>2. j.at = "store" /\ j.user = u /\ j.writes = w
  BY <1>1 DEF Saving, Idle
<1>3. \A v, l : ~Takes(j, v, l) /\ (Saves(j, v, l) => v = u /\ \E i \in DOMAIN w : w[i].leader = l)
  BY <1>2 DEF Takes, Saves
<1>4. Begin(s, j) /\ profile' = profile
  BY <1>1 DEF Start
<1>5. QED
  BY <1>3, <1>4, RoomStart

LEMMA RoomSave ==
  ASSUME Inv, Inv', AloneInv, RoomInv, NEW s \in Sessions, NEW u \in Users, NEW p,
         Start(s, Saving(u, <<p>>)),
         p.leader \in {NoUser, profile[u].leader} \/ HasRoom(p.leader)
  PROVE  RoomInv'
<1>1. \A l \in Users :
        (\A i \in DOMAIN <<p>> : <<p>>[i].leader = l => profile[u].leader = l) \/ HasRoom(l)
  BY MentorshipAssumption
<1>2. QED
  BY <1>1, RoomSaving

LEMMA RoomResigning ==
  ASSUME Inv, Inv', AloneInv, RoomInv, NEW s \in Sessions, NEW u \in Users, NEW c \in BOOLEAN,
         Start(s, Resigning(u, c))
  PROVE  RoomInv'
<1>0. PICK p, d, r, j :
        /\ p = profile[u] /\ d = IF CanModerate(p) THEN Demoted(p) ELSE p
        /\ r = [d EXCEPT !.flags = @ \ {"is_leader"}]
        /\ j = Resigning(u, c)
  OBVIOUS
<1> DEFINE w1 == IF CanModerate(p) THEN <<d>> ELSE <<>>
           w2 == IF c THEN <<r>> ELSE <<>>
<1>1. /\ j.at \in {"demote", "mentees"} /\ j.user = u /\ j.writes = w1 \o w2
  BY <1>0 DEF Resigning, Idle
<1>2. d.leader = p.leader /\ r.leader = p.leader
  <2>1. p \in Profiles
    BY <1>0 DEF Inv, TypedWith, Sound
  <2>2. QED
    BY <1>0, <2>1 DEF Profiles, Demoted
<1>3. \A i \in DOMAIN (w1 \o w2) : (w1 \o w2)[i].leader = p.leader
  <2>1. CASE CanModerate(p) /\ c
    BY <1>2, <2>1
  <2>2. CASE CanModerate(p) /\ ~c
    BY <1>2, <2>2
  <2>3. CASE ~CanModerate(p) /\ c
    BY <1>2, <2>3
  <2>4. CASE ~CanModerate(p) /\ ~c
    BY <1>2, <2>4
  <2>5. QED
    BY <2>1, <2>2, <2>3, <2>4
<1> HIDE DEF w1, w2
<1>4. \A v, l : ~Takes(j, v, l) /\ (Saves(j, v, l) => v = u /\ l = p.leader)
  BY <1>1, <1>3 DEF Takes, Saves
<1>5. Begin(s, j) /\ profile' = profile
  BY <1>0 DEF Start
<1>6. QED
  BY <1>0, <1>4, <1>5, RoomStart

LEMMA RoomAsk ==
  ASSUME Inv, Inv', AloneInv, RoomInv, NEW s \in Sessions, NEW u \in Users, Ask(s, u)
  PROVE  RoomInv'
<1>1. CASE Apply(s, u)
  <2>1. PICK j : /\ j = [Idle EXCEPT !.at = "insert", !.user = u, !.kind = "JOIN"]
                 /\ Begin(s, j)
    BY <1>1 DEF Apply
  <2>2. j.at = "insert" /\ j.writes = <<>>
    BY <2>1 DEF Idle
  <2>3. \A v, l : ~Takes(j, v, l) /\ ~Saves(j, v, l)
    BY <2>2 DEF Takes, Saves
  <2>4. \A v \in Users : profile'[v].leader = profile[v].leader
    <3>1. profile \in [Users -> Profiles] /\ profile' = [profile EXCEPT ![u].status = "PENDING"]
      BY <1>1 DEF Apply, Inv, TypedWith, Sound
    <3>2. QED
      BY <3>1 DEF Profiles
  <2>5. QED
    BY <2>1, <2>3, <2>4, RoomStart
<1>2. CASE Resign(s, u)
  BY <1>2, RoomResigning DEF Resign
<1>3. CASE Settings(s, u)
  <2>1. Start(s, Saving(u, <<profile[u]>>))
    BY <1>3 DEF Settings
  <2>2. QED
    BY <2>1, RoomSaving
<1>4. ASSUME NEW k \in {"LEAD", "PAIR"}, Request(s, u, k) PROVE RoomInv'
  <2>1. PICK j : /\ j = [Idle EXCEPT !.at = "insert", !.user = u, !.kind = k]
                 /\ Begin(s, j) /\ profile' = profile
    BY <1>4 DEF Request, Start
  <2>2. j.at = "insert" /\ j.writes = <<>>
    BY <2>1 DEF Idle
  <2>3. \A v, l : ~Takes(j, v, l) /\ ~Saves(j, v, l)
    BY <2>2 DEF Takes, Saves
  <2>4. QED
    BY <2>1, <2>3, RoomStart
<1>5. QED
  BY <1>1, <1>2, <1>3, <1>4 DEF Ask

LEMMA RoomRespond ==
  ASSUME Inv, Inv', AloneInv, RoomInv, NEW s \in Sessions, NEW a \in Users,
         NEW i \in DOMAIN leadership, NEW x \in Responses, Respond(s, a, i, x)
  PROVE  RoomInv'
<1>1. PICK r, w, j :
        /\ r = leadership[i]
        /\ w = IF r.kind = "PAIR" THEN <<>> ELSE <<profile[r.owner]>>
        /\ j = [Idle EXCEPT !.at = "answer", !.actor = a, !.user = r.owner, !.request = i,
                  !.answer = IF StillValid(r) THEN x ELSE "CANCELED", !.writes = w]
        /\ Begin(s, j) /\ profile' = profile
        /\ r.kind = "PAIR" => HasRoom(a)
  BY DEF Respond, Start
<1>2. j.user = r.owner /\ j.actor = a /\ j.request = i /\ j.writes = w
  BY <1>1 DEF Idle
<1>3. \A v, l : Takes(j, v, l) => l = a /\ HasRoom(l)
  BY <1>1, <1>2 DEF Takes
<1>4. \A v, l : Saves(j, v, l) => profile[v].leader = l
  BY <1>1, <1>2 DEF Saves
<1>5. QED
  BY <1>1, <1>3, <1>4, RoomStart

LEMMA RoomDecide ==
  ASSUME Inv, Inv', AloneInv, RoomInv, NEW s \in Sessions, NEW a \in Users, Decide(s, a)
  PROVE  RoomInv'
<1>0. profile \in [Users -> Profiles]
  BY DEF Inv, TypedWith, Sound
<1>1. ASSUME NEW i \in DOMAIN leadership, NEW x \in Responses, Respond(s, a, i, x)
      PROVE  RoomInv'
  BY <1>1, RoomRespond
<1>2. ASSUME NEW u \in Users, Ban(s, a, u) PROVE RoomInv'
  BY <1>2, RoomResigning DEF Ban
<1>3. ASSUME NEW u \in Users, Guide(s, a, u) PROVE RoomInv'
  <2>1. CASE Start(s, Saving(u, <<Promoted(profile[u])>>))
    <3>1. Promoted(profile[u]).leader = NoUser
      BY <1>0 DEF Promoted, Profiles
    <3>2. QED
      BY <2>1, <3>1, RoomSave
  <2>2. CASE Start(s, Resigning(u, TRUE))
    BY <2>2, RoomResigning
  <2>3. QED
    BY <1>3, <2>1, <2>2 DEF Guide
<1>4. ASSUME NEW u \in Users, Moderator(s, a, u) PROVE RoomInv'
  <2>1. PICK p, d, l, m :
          /\ p = profile[u] /\ d = Demoted(p)
          /\ l = IF IsLeader(p) THEN p ELSE Promoted(p)
          /\ m = [l EXCEPT !.flags = @ \union {"is_moderator"}]
    OBVIOUS
  <2>2. /\ d.leader = p.leader /\ l.leader \in {p.leader, NoUser} /\ m.leader = l.leader
    BY <1>0, <2>1 DEF Demoted, Promoted, Profiles
  <2>3. \/ Start(s, Saving(u, <<d>>))
        \/ Start(s, Saving(u, <<m>>))
        \/ Start(s, Saving(u, <<l, m>>))
    BY <1>4, <2>1 DEF Moderator
  <2>4. \A k \in Users : \A i \in DOMAIN <<l, m>> :
          <<l, m>>[i].leader = k => profile[u].leader = k
    <3>1. l.leader \in {NoUser, profile[u].leader} /\ m.leader \in {NoUser, profile[u].leader}
      BY <2>1, <2>2
    <3>2. \A i \in DOMAIN <<l, m>> : <<l, m>>[i] \in {l, m}
      OBVIOUS
    <3>3. QED
      BY <3>1, <3>2, MentorshipAssumption
  <2>5. CASE Start(s, Saving(u, <<l, m>>))
    BY <2>4, <2>5, RoomSaving
  <2>6. CASE Start(s, Saving(u, <<d>>))
    BY <2>1, <2>2, <2>6, RoomSave
  <2>7. CASE Start(s, Saving(u, <<m>>))
    BY <2>1, <2>2, <2>7, RoomSave
  <2>8. QED
    BY <2>3, <2>5, <2>6, <2>7
<1>5. ASSUME NEW u \in Users, Abandon(s, a, u) PROVE RoomInv'
  <2>1. [profile[u] EXCEPT !.leader = NoUser].leader = NoUser
    BY <1>0 DEF Profiles
  <2>2. Start(s, Saving(u, <<[profile[u] EXCEPT !.leader = NoUser]>>))
    BY <1>5 DEF Abandon
  <2>3. QED
    BY <2>1, <2>2, RoomSave
<1>6. ASSUME NEW u \in Users, NEW l \in Users, Transfer(s, a, u, l) PROVE RoomInv'
  <2>1. [profile[u] EXCEPT !.leader = l].leader = l
    BY <1>0 DEF Profiles
  <2>2. Start(s, Saving(u, <<[profile[u] EXCEPT !.leader = l]>>)) /\ HasRoom(l)
    BY <1>6 DEF Transfer
  <2>3. QED
    BY <2>1, <2>2, RoomSave
<1>7. QED
  BY <1>1, <1>2, <1>3, <1>4, <1>5, <1>6 DEF Decide

\* A web request goes on: what it saves it was going to save, or there is room.
LEMMA RoomGo ==
  ASSUME Inv, Inv', AloneInv, RoomInv, NEW s \in Sessions, NEW j, job[s] # Idle,
         job' = [job EXCEPT ![s] = j], overlapped' = overlapped,
         \A i \in DOMAIN leadership :
           i \in DOMAIN leadership' /\ leadership'[i].kind = leadership[i].kind,
         j.at # "answer",
         \A l \in Users :
           \/ /\ \A u \in Users : Saves(j, u, l) => Saves(job[s], u, l) \/ Takes(job[s], u, l)
              /\ \A u \in Users : profile'[u].leader = l =>
                                    profile[u].leader = l \/ Saves(job[s], u, l)
           \/ HasRoom(l) /\ profile' = profile
  PROVE  RoomInv'
<1>1. \A u, l : ~Takes(j, u, l)'
  BY DEF Takes
<1>2. ~overlapped' => Only(s)
  BY GoAlone
<1>3. QED
  BY <1>1, <1>2, RoomStep

\* The next mentee, or the last save: nobody else is saved.
LEMMA NextBrings ==
  ASSUME NEW j \in Jobs(Sound), NEW n, n = NextMentee(j)
  PROVE  n.at # "answer" /\ \A u, l : Saves(n, u, l) => Saves(j, u, l)
<1>1. CASE j.mentees # {}
  <2>1. n = [j EXCEPT !.at = "free", !.freed = NoUser]
    BY <1>1 DEF NextMentee
  <2>2. QED
    BY <2>1 DEF Jobs, Saves
<1>2. CASE j.mentees = {} /\ j.writes # <<>>
  <2>1. n = Saving(j.user, j.writes)
    BY <1>2 DEF NextMentee
  <2>2. QED
    BY <2>1 DEF Saving, Idle, Saves
<1>3. CASE j.mentees = {} /\ j.writes = <<>>
  <2>1. n = Idle
    BY <1>3 DEF NextMentee
  <2>2. QED
    BY <2>1 DEF Idle, Saves
<1>4. QED
  BY <1>1, <1>2, <1>3

\* The requests that there were stay, and of their kind.
LEMMA FiledKinds ==
  ASSUME Inv, NEW u \in Users, NEW k \in Kinds,
         leadership' = leadership \/ leadership' = Append(leadership, Filed(u, k))
  PROVE  \A i \in DOMAIN leadership :
           i \in DOMAIN leadership' /\ leadership'[i].kind = leadership[i].kind
<1>1. /\ leadership' \in Seq(Requests) /\ Len(leadership) <= Len(leadership')
      /\ \A i \in 1 .. Len(leadership) : leadership'[i].kind = leadership[i].kind
  BY FiledType
<1>2. leadership \in Seq(Requests)
  BY DEF Inv, TypedWith
<1>3. /\ DOMAIN leadership = 1 .. Len(leadership) /\ Len(leadership) \in Nat
      /\ DOMAIN leadership' = 1 .. Len(leadership') /\ Len(leadership') \in Nat
  BY <1>1, <1>2, LenProperties
<1> SUFFICES ASSUME NEW i \in DOMAIN leadership
             PROVE  i \in DOMAIN leadership' /\ leadership'[i].kind = leadership[i].kind
  OBVIOUS
<1>4. PICK m, n : m = Len(leadership) /\ n = Len(leadership') /\ i \in 1 .. m
  BY <1>3
<1>5. m \in Nat /\ n \in Nat /\ m <= n
  BY <1>1, <1>3, <1>4
<1>6. i \in 1 .. n
  BY <1>4, <1>5
<1>7. QED
  BY <1>1, <1>3, <1>4, <1>6

LEMMA RoomServe ==
  ASSUME Inv, Inv', AloneInv, RoomInv, NEW s \in Sessions, Serve(s)
  PROVE  RoomInv'
<1>0. PICK j : j = job[s] /\ j \in Jobs(Sound) /\ Ready(j, leadership)
  BY DEF Inv, TypedWith, Jobs
<1>1. /\ profile \in [Users -> Sound] /\ leadership \in Seq(Requests)
      /\ DOMAIN leadership = 1 .. Len(leadership) /\ Len(leadership) \in Nat
      /\ overlapped' = overlapped
  BY LenProperties DEF Inv, TypedWith, Serve, Insert, Answer, Activate, Store, Demote,
                       LoadMentees, Free, Pair, Continue
<1>2. job[s] # Idle
  <2>1. job[s].at # "idle"
    BY DEF Serve, Insert, Answer, Activate, Store, Demote, LoadMentees, Free, Pair
  <2>2. Idle.at = "idle"
    BY DEF Idle
  <2>3. QED
    BY <2>1, <2>2
<1>3. Idle.at # "answer" /\ \A u, l : ~Saves(Idle, u, l)
  BY IdleBrings DEF Idle
<1>4. CASE Insert(s)
  <2>1. /\ j.user \in Users /\ j.kind \in Kinds /\ profile' = profile
        /\ leadership' = Append(leadership, Filed(j.user, j.kind))
        /\ job' = [job EXCEPT ![s] = Idle]
    BY <1>0, <1>4 DEF Insert, Continue, Ready, Jobs
  <2>2. \A i \in DOMAIN leadership :
          i \in DOMAIN leadership' /\ leadership'[i].kind = leadership[i].kind
    BY <2>1, FiledKinds
  <2>3. QED
    BY <1>1, <1>2, <1>3, <2>1, <2>2, RoomGo
<1>5. CASE Answer(s)
  <2>0. PICK r, p, w :
          /\ r = leadership[j.request]
          /\ p = IF r.kind = "PAIR" THEN profile[j.user] ELSE j.writes[1]
          /\ w = Effect(r.kind, j.answer, p, j.actor)
    OBVIOUS
  <2>1. PICK n :
          /\ j.at = "answer" /\ r = leadership[j.request]
          /\ p = IF r.kind = "PAIR" THEN profile[j.user] ELSE j.writes[1]
          /\ w = Effect(r.kind, j.answer, p, j.actor)
          /\ leadership' = [leadership EXCEPT ![j.request] =
                              [r EXCEPT !.response = j.answer, !.by = j.actor]]
          /\ profile' = profile
          /\ job' = [job EXCEPT ![s] = n]
          /\ \/ n = [j EXCEPT !.at = "join"]
             \/ n = [j EXCEPT !.at = "store", !.writes = w]
             \/ n = Idle
    <3>1. /\ j.at = "answer" /\ profile' = profile
          /\ leadership' = [leadership EXCEPT ![j.request] =
                              [r EXCEPT !.response = j.answer, !.by = j.actor]]
      BY <1>0, <1>5, <2>0 DEF Answer
    <3>2. \/ job' = [job EXCEPT ![s] = [j EXCEPT !.at = "join"]]
          \/ job' = [job EXCEPT ![s] = [j EXCEPT !.at = "store", !.writes = w]]
          \/ job' = [job EXCEPT ![s] = Idle]
      BY <1>0, <1>5, <2>0 DEF Answer, Continue
    <3>3. QED
      BY <2>0, <3>1, <3>2
  <2>2. /\ j.user \in Users /\ j.actor \in Users /\ j.request \in DOMAIN leadership
        /\ r \in Requests /\ p \in Profiles
        /\ r.kind # "PAIR" => 1 \in DOMAIN j.writes
    <3>1. /\ j.user \in Users /\ j.actor \in Users /\ j.request \in DOMAIN leadership
          /\ j.writes \in Seq(Sound) /\ (r.kind # "PAIR" => j.writes # <<>>)
      BY <1>0, <1>1, <2>1 DEF Ready, Jobs
    <3>2. r \in Requests
      BY <1>1, <2>1, <3>1, ElementOfSeq
    <3>3. r.kind # "PAIR" => 1 \in DOMAIN j.writes /\ j.writes[1] \in Sound
      BY <3>1, LenProperties, EmptySeq, ElementOfSeq
    <3>4. QED
      BY <1>1, <2>1, <3>1, <3>2, <3>3 DEF Sound
  <2>3. \A i \in DOMAIN leadership :
          i \in DOMAIN leadership' /\ leadership'[i].kind = leadership[i].kind
    BY <1>1, <2>1, <2>2 DEF Requests
  <2>4. n.at # "answer"
    BY <1>0, <1>3, <2>1 DEF Jobs
  <2>5. ASSUME NEW u \in Users, NEW l \in Users, Saves(n, u, l)
        PROVE  Saves(job[s], u, l) \/ Takes(job[s], u, l)
    <3>1. CASE n = [j EXCEPT !.at = "join"]
      BY <1>0, <2>5, <3>1 DEF Saves, Jobs
    <3>2. CASE n = [j EXCEPT !.at = "store", !.writes = w]
      <4>1. n.user = j.user /\ n.writes = w
        BY <1>0, <3>2 DEF Jobs
      <4>2. PICK i \in DOMAIN w : j.user = u /\ w[i].leader = l
        BY <2>5, <4>1 DEF Saves
      <4>3. PICK x : x = w[i]
        OBVIOUS
      <4>4. \/ r.kind = "JOIN" /\ x = [p EXCEPT !.status = "DENIED"]
            \/ r.kind = "LEAD" /\ x = Promoted(p)
            \/ r.kind = "PAIR" /\ j.answer = "APPROVED" /\ x = [p EXCEPT !.leader = j.actor]
        <5>1. w = Effect(r.kind, j.answer, p, j.actor)
          BY <2>1
        <5>2. i \in DOMAIN Effect(r.kind, j.answer, p, j.actor)
          BY <4>2, <5>1
        <5>3. x = Effect(r.kind, j.answer, p, j.actor)[i]
          BY <4>3, <5>1
        <5>4. QED
          BY <5>2, <5>3, EffectIs
      <4>5. CASE r.kind = "JOIN" /\ x = [p EXCEPT !.status = "DENIED"]
        <5>1. p = j.writes[1] /\ 1 \in DOMAIN j.writes /\ p.leader = l
          BY <2>1, <2>2, <4>2, <4>3, <4>5 DEF Profiles
        <5>2. QED
          BY <1>0, <4>2, <5>1 DEF Saves
      <4>6. CASE r.kind = "LEAD" /\ x = Promoted(p)
        BY <2>2, <4>2, <4>3, <4>6, MentorshipAssumption DEF Profiles, Promoted
      <4>7. CASE r.kind = "PAIR" /\ j.answer = "APPROVED" /\ x = [p EXCEPT !.leader = j.actor]
        <5>1. j.actor = l
          BY <2>2, <4>2, <4>3, <4>7 DEF Profiles
        <5>2. QED
          BY <1>0, <2>1, <4>2, <4>7, <5>1 DEF Takes
      <4>8. QED
        BY <4>4, <4>5, <4>6, <4>7
    <3>3. CASE n = Idle
      BY <1>3, <2>5, <3>3
    <3>4. QED
      BY <2>1, <3>1, <3>2, <3>3
  <2>6. QED
    BY <1>1, <1>2, <2>1, <2>3, <2>4, <2>5, RoomGo
<1>6. CASE Activate(s)
  <2>1. PICK l0, w, n :
          /\ j.at = "join" /\ l0 = IF HasRoom(j.actor) THEN j.actor ELSE NoUser
          /\ w = [j.writes[1] EXCEPT !.status = "APPROVED", !.leader = l0]
          /\ n = [j EXCEPT !.at = "store", !.writes = <<w>>]
          /\ job' = [job EXCEPT ![s] = n] /\ profile' = profile /\ leadership' = leadership
    BY <1>0, <1>6 DEF Activate, Continue
  <2>2. w.leader = l0
    <3>1. j.writes[1] \in Profiles
      BY <1>0, <2>1, LenProperties, EmptySeq, ElementOfSeq DEF Ready, Jobs, Sound
    <3>2. QED
      BY <2>1, <3>1 DEF Profiles
  <2>3. n.at # "answer" /\ n.writes = <<w>>
    BY <1>0, <2>1 DEF Jobs
  <2>4. \A u, l \in Users : Saves(n, u, l) => HasRoom(l)
    <3>1. \A i \in DOMAIN n.writes : n.writes[i] = w
      BY <2>3
    <3>2. \A l \in Users : l0 = l => HasRoom(l)
      BY <2>1, MentorshipAssumption
    <3>3. QED
      BY <2>2, <3>1, <3>2 DEF Saves
  <2>5. QED
    BY <1>1, <1>2, <2>1, <2>3, <2>4, RoomGo
<1>7. CASE Store(s) \/ Demote(s)
  <2>1. PICK n :
          /\ profile' = [profile EXCEPT ![j.user] = j.writes[1]] /\ leadership' = leadership
          /\ job' = [job EXCEPT ![s] = n]
          /\ \/ n = Idle
             \/ n = [j EXCEPT !.writes = Tail(@)]
             \/ n = [j EXCEPT !.at = "mentees", !.writes = Tail(@)]
          /\ j.at \in {"store", "demote"}
    BY <1>0, <1>7 DEF Store, Demote, Continue
  <2>2. /\ 1 \in DOMAIN j.writes
        /\ \A m \in DOMAIN Tail(j.writes) :
             m + 1 \in DOMAIN j.writes /\ Tail(j.writes)[m] = j.writes[m + 1]
    <3>1. j.writes \in Seq(Sound) /\ j.writes # <<>>
      BY <1>0, <2>1 DEF Ready, Jobs
    <3>2. DOMAIN j.writes = 1 .. Len(j.writes) /\ Len(j.writes) \in Nat /\ Len(j.writes) # 0
      BY <3>1, LenProperties, EmptySeq
    <3>3. /\ Len(Tail(j.writes)) = Len(j.writes) - 1
          /\ DOMAIN Tail(j.writes) = 1 .. Len(Tail(j.writes))
          /\ \A m \in 1 .. Len(Tail(j.writes)) : Tail(j.writes)[m] = j.writes[m + 1]
      BY <3>1, HeadTailProperties, LenProperties
    <3>4. QED
      BY <3>2, <3>3
  <2>3. \A u, l : Saves(n, u, l) => Saves(job[s], u, l)
    <3>1. n = Idle \/ (n.user = j.user /\ n.writes = Tail(j.writes))
      BY <1>0, <2>1 DEF Jobs
    <3>2. ASSUME NEW u, NEW l, Saves(n, u, l), n.user = j.user, n.writes = Tail(j.writes)
          PROVE  Saves(j, u, l)
      <4>1. PICK m \in DOMAIN Tail(j.writes) : Tail(j.writes)[m].leader = l
        BY <3>2 DEF Saves
      <4>2. m + 1 \in DOMAIN j.writes /\ j.writes[m + 1].leader = l
        BY <2>2, <4>1
      <4>3. QED
        BY <3>2, <4>2 DEF Saves
    <3>3. QED
      BY <1>0, <1>3, <3>1, <3>2
  <2>4. \A u, l \in Users : profile'[u].leader = l => profile[u].leader = l \/ Saves(job[s], u, l)
    BY <1>0, <1>1, <2>1, <2>2 DEF Saves
  <2>5. n.at # "answer"
    BY <1>0, <1>3, <2>1 DEF Jobs
  <2>6. QED
    BY <1>1, <1>2, <2>1, <2>3, <2>4, <2>5, RoomGo
<1>8. CASE LoadMentees(s)
  <2>1. PICK k, n :
          /\ k = [j EXCEPT !.mentees = Mentees(j.user),
                           !.seen = [u \in Users |-> IF u \in Mentees(j.user) THEN profile[u] ELSE Blank]]
          /\ n = NextMentee(k) /\ profile' = profile /\ leadership' = leadership
          /\ job' = [job EXCEPT ![s] = n]
    BY <1>0, <1>8 DEF LoadMentees, Continue
  <2>2. k \in Jobs(Sound) /\ k.user = j.user /\ k.writes = j.writes
    <3>1. PICK f : f = [u \in Users |-> IF u \in Mentees(j.user) THEN profile[u] ELSE Blank]
      OBVIOUS
    <3>2. f \in [Users -> Sound] /\ Mentees(j.user) \subseteq Users
      BY <1>1, <3>1, BlankSound DEF Mentees
    <3>3. QED
      BY <1>0, <2>1, <3>1, <3>2 DEF Jobs
  <2>3. n.at # "answer" /\ \A u, l : Saves(n, u, l) => Saves(job[s], u, l)
    <3>1. n.at # "answer" /\ \A u, l : Saves(n, u, l) => Saves(k, u, l)
      BY <2>1, <2>2, NextBrings
    <3>2. \A u, l : Saves(k, u, l) => Saves(job[s], u, l)
      BY <1>0, <2>2 DEF Saves
    <3>3. QED
      BY <3>1, <3>2
  <2>4. QED
    BY <1>1, <1>2, <2>1, <2>3, RoomGo
<1>9. CASE Free(s)
  <2>1. PICK m, w, n :
          /\ m \in j.mentees /\ w = [j.seen[m] EXCEPT !.leader = NoUser]
          /\ n = [j EXCEPT !.at = "pair", !.freed = m, !.mentees = @ \ {m}, !.seen[m] = Blank]
          /\ profile' = [profile EXCEPT ![m] = w] /\ leadership' = leadership
          /\ job' = [job EXCEPT ![s] = n]
    <3>1. PICK m \in j.mentees :
            /\ profile' = [profile EXCEPT ![m] = [j.seen[m] EXCEPT !.leader = NoUser]]
            /\ Continue(s, [j EXCEPT !.at = "pair", !.freed = m,
                                     !.mentees = @ \ {m}, !.seen[m] = Blank])
      BY <1>0, <1>9 DEF Free
    <3>2. PICK w, n :
            /\ w = [j.seen[m] EXCEPT !.leader = NoUser]
            /\ n = [j EXCEPT !.at = "pair", !.freed = m, !.mentees = @ \ {m}, !.seen[m] = Blank]
      OBVIOUS
    <3>3. leadership' = leadership /\ job' = [job EXCEPT ![s] = n]
      BY <1>9, <3>1, <3>2 DEF Free, Continue
    <3>4. QED
      BY <3>1, <3>2, <3>3
  <2>2. n.at # "answer" /\ n.user = j.user /\ n.writes = j.writes
    BY <1>0, <2>1 DEF Jobs
  <2>3. w.leader = NoUser
    <3>1. j.seen[m] \in Profiles
      BY <1>0, <2>1 DEF Jobs, Sound
    <3>2. QED
      BY <2>1, <3>1 DEF Profiles
  <2>4. \A u, l \in Users : profile'[u].leader = l => profile[u].leader = l
    BY <1>1, <2>1, <2>3, MentorshipAssumption
  <2>5. \A u, l : Saves(n, u, l) => Saves(job[s], u, l)
    BY <1>0, <2>2 DEF Saves
  <2>6. /\ job' = [job EXCEPT ![s] = n]
        /\ \A i \in DOMAIN leadership :
             i \in DOMAIN leadership' /\ leadership'[i].kind = leadership[i].kind
    BY <2>1
  <2>7. n.at # "answer"
    BY <2>2
  <2>8. \A l \in Users :
          \/ /\ \A u \in Users : Saves(n, u, l) => Saves(job[s], u, l) \/ Takes(job[s], u, l)
             /\ \A u \in Users : profile'[u].leader = l =>
                                   profile[u].leader = l \/ Saves(job[s], u, l)
          \/ HasRoom(l) /\ profile' = profile
    BY <2>4, <2>5
  <2>9. job[s] # Idle /\ overlapped' = overlapped
    BY <1>1, <1>2
  <2>10. QED
    BY <2>6, <2>7, <2>8, <2>9, RoomGo
<1>10. CASE Pair(s)
  <2>1. PICK n :
          /\ n = NextMentee(j) /\ profile' = profile /\ job' = [job EXCEPT ![s] = n]
          /\ leadership' = leadership \/ leadership' = Append(leadership, Filed(j.freed, "PAIR"))
          /\ j.freed \in Users
    BY <1>0, <1>10 DEF Pair, Continue, Ready
  <2>2. n.at # "answer" /\ \A u, l : Saves(n, u, l) => Saves(job[s], u, l)
    BY <1>0, <2>1, NextBrings
  <2>3. \A i \in DOMAIN leadership :
          i \in DOMAIN leadership' /\ leadership'[i].kind = leadership[i].kind
    BY <2>1, FiledKinds DEF Kinds
  <2>4. QED
    BY <1>1, <1>2, <2>1, <2>2, <2>3, RoomGo
<1>11. QED
  BY <1>4, <1>5, <1>6, <1>7, <1>8, <1>9, <1>10 DEF Serve

LEMMA RoomDie ==
  ASSUME Inv, Inv', AloneInv, RoomInv, NEW s \in Sessions, Die(s)
  PROVE  RoomInv'
<1>1. /\ job[s] # Idle /\ job' = [job EXCEPT ![s] = Idle] /\ profile' = profile
      /\ leadership' = leadership /\ overlapped' = overlapped
  BY DEF Die
<1>2. Idle.at # "answer" /\ \A u, l : ~Saves(Idle, u, l)
  BY IdleBrings DEF Idle
<1>3. QED
  BY <1>1, <1>2, RoomGo

LEMMA StepRoom == Inv /\ Inv' /\ AloneInv /\ RoomInv /\ [Next]_vars => RoomInv'
<1> SUFFICES ASSUME Inv, Inv', AloneInv, RoomInv, [Next]_vars
             PROVE  RoomInv'
  OBVIOUS
<1>1. CASE UNCHANGED vars
  BY <1>1 DEF vars, RoomInv, Potential, Takes, Limit
<1>2. CASE Next
  BY <1>2, RoomAsk, RoomDecide, RoomServe, RoomDie DEF Next
<1>3. QED
  BY <1>1, <1>2

LEMMA InitRoom == Init => RoomInv
<1> SUFFICES ASSUME Init, NEW l \in Users
             PROVE  Cardinality(Potential(l)) <= Limit
  BY DEF RoomInv
<1>1. /\ \A u \in Users : profile[u].leader # l
      /\ \A t \in Sessions : job[t] = Idle
  BY MentorshipAssumption DEF Init
<1>2. Potential(l) = {}
  BY <1>1, IdleBrings DEF Potential
<1>3. Limit = MaxMentees /\ MaxMentees \in Nat
  BY MentorshipAssumption DEF Init, Limit
<1>4. QED
  BY <1>2, <1>3, FS_EmptySet

\* Nobody leads more than MAX_MENTEES, and at most one more for each other web
\* request that may be served at once (available_to_lead, asked once by each).
THEOREM LimitIsKeptHolds == Spec => []LimitIsKept
<1>1. Inv /\ RoomInv => LimitIsKept
  <2> SUFFICES ASSUME Inv, RoomInv, NEW l \in Users
               PROVE  Cardinality(Mentees(l)) <= Limit
    BY DEF LimitIsKept, Limit
  <2>1. Mentees(l) \in SUBSET Potential(l) /\ Potential(l) \in SUBSET Users /\ IsFiniteSet(Users)
    BY MentorshipAssumption DEF Mentees, Potential
  <2>2. IsFiniteSet(Potential(l))
    BY <2>1, FS_Subset
  <2>3. /\ Cardinality(Mentees(l)) <= Cardinality(Potential(l))
        /\ Cardinality(Mentees(l)) \in Nat /\ Cardinality(Potential(l)) \in Nat
    BY <2>1, <2>2, FS_Subset, FS_CardinalityType
  <2>4. Limit \in Int /\ Cardinality(Potential(l)) <= Limit
    BY MentorshipAssumption, FS_CardinalityType DEF RoomInv, Limit
  <2>5. QED
    BY <2>3, <2>4
<1>2. QED
  BY InitInv, StepInv, InitSerial, StepAlone, InitRoom, StepRoom, <1>1, PTL DEF Spec
=============================================================================
