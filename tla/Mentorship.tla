----------------------------- MODULE Mentorship -----------------------------
(***************************************************************************)
(* Leaders, mentees and the requests between them in the archived portal   *)
(* (petri/account, petri/leadership).  Every web request loads its own     *)
(* copy of a profile and saves all the fields of the copy, each save a     *)
(* transaction of its own, so requests that overlap work on old copies,    *)
(* and one that fails leaves the saves it made behind.                     *)
(***************************************************************************)
EXTENDS Naturals, Sequences, FiniteSets

CONSTANTS
  Users, NoUser,
  Founders,    \* the moderators at the start
  Outsiders,   \* those who have no account at the start
  Sessions,    \* the processes of the web server
  MaxMentees,  \* settings.MAX_MENTEES
  MaxStarts    \* bound: how many web requests there are

ASSUME MentorshipAssumption ==
  /\ IsFiniteSet(Users) /\ NoUser \notin Users
  /\ Founders \subseteq Users /\ Outsiders \subseteq Users /\ Founders \cap Outsiders = {}
  /\ IsFiniteSet(Sessions)
  /\ MaxMentees \in Nat \ {0} /\ MaxStarts \in Nat

VARIABLES
  profile,     \* the table of profiles
  leadership,  \* the table of requests, in the order they were filed
  job,         \* what the web request of each process holds, and does next
  starts,      \* how many web requests there were
  overlapped,  \* history: some web request began before another had ended
  cutOff       \* history: requests whose answer was saved, and its effect was not

vars == <<profile, leadership, job, starts, overlapped, cutOff>>

Statuses == {"NONE", "PENDING", "APPROVED", "DENIED"}
Flags == {"is_leader", "is_moderator"}
Profiles == [status : Statuses, flags : SUBSET Flags, leader : Users \union {NoUser}]
Kinds == {"JOIN", "LEAD", "PAIR"}
Responses == {"PENDING", "APPROVED", "DENIED", "ACTIVE", "CANCELED"}
Requests == [kind : Kinds, owner : Users, response : Responses, by : Users \union {NoUser}]
Steps == {"idle", "insert", "answer", "join", "store", "demote", "mentees", "free", "pair"}

Blank == [status |-> "NONE", flags |-> {}, leader |-> NoUser]

\* A process that serves nothing.
Idle == [at |-> "idle", actor |-> NoUser, user |-> NoUser, kind |-> "JOIN",
         request |-> 0, answer |-> "PENDING", writes |-> <<>>,
         mentees |-> {}, seen |-> [u \in Users |-> Blank], freed |-> NoUser]

IsLeader(p) == "is_leader" \in p.flags
CanModerate(p) == Flags \subseteq p.flags
Mentees(l) == {u \in Users : profile[u].leader = l}
HasRoom(l) == Cardinality(Mentees(l)) < MaxMentees
HasRequested(u, k) ==
  \E i \in DOMAIN leadership :
    leadership[i].owner = u /\ leadership[i].kind = k /\ leadership[i].response = "PENDING"

Filed(u, k) == [kind |-> k, owner |-> u, response |-> "PENDING", by |-> NoUser]

Init ==
  /\ profile = [u \in Users |->
       [status |-> IF u \in Outsiders THEN "NONE" ELSE "APPROVED",
        flags |-> IF u \in Founders THEN Flags ELSE {}, leader |-> NoUser]]
  /\ leadership = <<>>
  /\ job = [s \in Sessions |-> Idle]
  /\ starts = 0 /\ overlapped = FALSE /\ cutOff = {}

\* A web request is past its checks, with what it loaded for them in hand.
Begin(s, j) ==
  /\ job[s] = Idle /\ starts < MaxStarts
  /\ job' = [job EXCEPT ![s] = j]
  /\ starts' = starts + 1
  /\ overlapped' = (overlapped \/ \E t \in Sessions \ {s} : job[t] # Idle)
  /\ UNCHANGED <<leadership, cutOff>>

Start(s, j) == Begin(s, j) /\ UNCHANGED profile

Continue(s, j) ==
  /\ job' = [job EXCEPT ![s] = j]
  /\ UNCHANGED <<starts, overlapped, cutOff>>

\* The saves of one profile that are left to do, one after the other.
Saving(u, saves) == [Idle EXCEPT !.at = "store", !.user = u, !.writes = saves]
-----------------------------------------------------------------------------
(* Requests. *)

\* An account is created, and its application filed next.
Apply(s, u) ==
  /\ profile[u].status = "NONE"
  /\ Begin(s, [Idle EXCEPT !.at = "insert", !.user = u, !.kind = "JOIN"])
  /\ profile' = [profile EXCEPT ![u].status = "PENDING"]

\* A member asks to become a leader, or for another leader.
Request(s, u, k) ==
  /\ profile[u].status = "APPROVED"
  /\ k \in {"LEAD", "PAIR"}
  /\ ~IsLeader(profile[u]) /\ ~HasRequested(u, k)
  /\ Start(s, [Idle EXCEPT !.at = "insert", !.user = u, !.kind = k])

Insert(s) ==
  /\ job[s].at = "insert"
  /\ leadership' = Append(leadership, Filed(job[s].user, job[s].kind))
  /\ Continue(s, Idle)
  /\ UNCHANGED profile
-----------------------------------------------------------------------------
(* Answers. *)

\* What the form of the request says of it when the answer comes.
StillValid(r) ==
  CASE r.kind = "JOIN" -> profile[r.owner].status = "PENDING"
    [] r.kind = "LEAD" -> ~IsLeader(profile[r.owner])
    [] r.kind = "PAIR" -> TRUE

\* Variant: nobody looks whether the request was answered.
RespondAgain(s, a, i, answer) ==
  LET r == leadership[i] IN
  /\ IsLeader(profile[a]) /\ answer # "PENDING"
  /\ r.kind = "PAIR" => HasRoom(a)
  /\ Start(s, [Idle EXCEPT !.at = "answer", !.actor = a, !.user = r.owner, !.request = i,
                           !.answer = IF StillValid(r) THEN answer ELSE "CANCELED",
                           !.writes = IF r.kind = "PAIR" THEN <<>> ELSE <<profile[r.owner]>>])

\* Variant: a leader with all the mentees there may be takes another.
RespondFull(s, a, i, answer) ==
  LET r == leadership[i] IN
  /\ IsLeader(profile[a]) /\ answer # "PENDING"
  /\ r.response \in {"PENDING", "ACTIVE"}
  /\ Start(s, [Idle EXCEPT !.at = "answer", !.actor = a, !.user = r.owner, !.request = i,
                           !.answer = IF StillValid(r) THEN answer ELSE "CANCELED",
                           !.writes = IF r.kind = "PAIR" THEN <<>> ELSE <<profile[r.owner]>>])

\* A leader opens a request and answers it.  The forms of applications and
\* volunteers load the profile of the owner here.
Respond(s, a, i, answer) ==
  LET r == leadership[i] IN
  /\ IsLeader(profile[a])
  /\ r.response \in {"PENDING", "ACTIVE"}
  /\ answer # "PENDING"
  /\ r.kind = "PAIR" => HasRoom(a)
  /\ Start(s, [Idle EXCEPT !.at = "answer", !.actor = a, !.user = r.owner, !.request = i,
                           !.answer = IF StillValid(r) THEN answer ELSE "CANCELED",
                           !.writes = IF r.kind = "PAIR" THEN <<>> ELSE <<profile[r.owner]>>])

\* Variant: the new leader keeps the old one.
PromotedLed(p) == [p EXCEPT !.flags = @ \union {"is_leader"}]

Promoted(p) == [p EXCEPT !.flags = @ \union {"is_leader"}, !.leader = NoUser]

\* What is saved in the profile p of the owner once the answer is.
Effect(k, answer, p, a) ==
  CASE k = "JOIN" /\ answer = "DENIED"   -> <<[p EXCEPT !.status = "DENIED"]>>
    [] k = "LEAD" /\ answer = "APPROVED" -> <<Promoted(p)>>
    [] k = "PAIR" /\ answer = "APPROVED" -> <<[p EXCEPT !.leader = a]>>
    [] OTHER -> <<>>

\* The answer is saved whole.  The form of a pair request loads the profile now.
Answer(s) ==
  LET j == job[s]
      k == leadership[j.request].kind
      p == IF k = "PAIR" THEN profile[j.user] ELSE j.writes[1]
      saves == Effect(k, j.answer, p, j.actor) IN
  /\ j.at = "answer"
  /\ leadership' = [leadership EXCEPT ![j.request].response = j.answer,
                                      ![j.request].by = j.actor]
  /\ \/ k = "JOIN" /\ j.answer = "APPROVED" /\ Continue(s, [j EXCEPT !.at = "join"])
     \/ saves # <<>> /\ Continue(s, [j EXCEPT !.at = "store", !.writes = saves])
     \/ (k # "JOIN" \/ j.answer # "APPROVED") /\ saves = <<>> /\ Continue(s, Idle)
  /\ UNCHANGED profile

\* The new member is given to the leader who answered, if there is room.
Activate(s) ==
  LET j == job[s]
      l == IF HasRoom(j.actor) THEN j.actor ELSE NoUser IN
  /\ j.at = "join"
  /\ Continue(s, [j EXCEPT !.at = "store",
       !.writes = <<[j.writes[1] EXCEPT !.status = "APPROVED", !.leader = l]>>])
  /\ UNCHANGED <<profile, leadership>>

\* All the fields of the copy are saved.
Store(s) ==
  LET j == job[s] IN
  /\ j.at = "store"
  /\ profile' = [profile EXCEPT ![j.user] = j.writes[1]]
  /\ Continue(s, IF Len(j.writes) = 1 THEN Idle ELSE [j EXCEPT !.writes = Tail(@)])
  /\ UNCHANGED leadership
-----------------------------------------------------------------------------
(* Stepping down. *)

Demoted(p) == [p EXCEPT !.flags = @ \ {"is_moderator"}]

\* Variant: resign_moderation is not called.
ResigningOnly(u, commit) ==
  [Idle EXCEPT !.at = "mentees", !.user = u,
     !.writes = IF commit THEN <<[profile[u] EXCEPT !.flags = @ \ {"is_leader"}]>> ELSE <<>>]

\* resign_leadership: a moderator is saved without that flag first, and the
\* leader without the other one last, unless the caller wants to save.
Resigning(u, commit) ==
  LET p == profile[u]
      d == IF CanModerate(p) THEN Demoted(p) ELSE p IN
  [Idle EXCEPT !.at = IF CanModerate(p) THEN "demote" ELSE "mentees", !.user = u,
     !.writes = (IF CanModerate(p) THEN <<d>> ELSE <<>>)
                \o (IF commit THEN <<[d EXCEPT !.flags = @ \ {"is_leader"}]>> ELSE <<>>)]

Resign(s, u) == IsLeader(profile[u]) /\ Start(s, Resigning(u, TRUE))

Demote(s) ==
  /\ job[s].at = "demote"
  /\ profile' = [profile EXCEPT ![job[s].user] = job[s].writes[1]]
  /\ Continue(s, [job[s] EXCEPT !.at = "mentees", !.writes = Tail(@)])
  /\ UNCHANGED leadership

\* What follows when the mentees that are left are those of j.
NextMentee(j) ==
  CASE j.mentees # {} -> [j EXCEPT !.at = "free", !.freed = NoUser]
    [] j.mentees = {} /\ j.writes # <<>> -> Saving(j.user, j.writes)
    [] OTHER -> Idle

\* The profiles of all mentees are loaded at once.
LoadMentees(s) ==
  /\ job[s].at = "mentees"
  /\ LET ms == Mentees(job[s].user) IN
     Continue(s, NextMentee([job[s] EXCEPT !.mentees = ms,
       !.seen = [u \in Users |-> IF u \in ms THEN profile[u] ELSE Blank]]))
  /\ UNCHANGED <<profile, leadership>>

Free(s) ==
  /\ job[s].at = "free"
  /\ \E m \in job[s].mentees :
       /\ profile' = [profile EXCEPT ![m] = [job[s].seen[m] EXCEPT !.leader = NoUser]]
       /\ Continue(s, [job[s] EXCEPT !.at = "pair", !.freed = m,
                                     !.mentees = @ \ {m}, !.seen[m] = Blank])
  /\ UNCHANGED leadership

\* create_pair_request: for the mentee, unless the form refuses.
Pair(s) ==
  LET m == job[s].freed IN
  /\ job[s].at = "pair"
  /\ leadership' = IF HasRequested(m, "PAIR") \/ IsLeader(profile[m]) THEN leadership
                   ELSE Append(leadership, Filed(m, "PAIR"))
  /\ Continue(s, NextMentee(job[s]))
  /\ UNCHANGED profile

\* A ban frees the mentees of a leader, and ends when the missing chapter is
\* refused by the field, before the profile is saved.
Ban(s, a, u) ==
  /\ IsLeader(profile[a]) /\ IsLeader(profile[u])
  /\ Start(s, Resigning(u, FALSE))
-----------------------------------------------------------------------------
(* What leaders and moderators decide without a request. *)

MayGuide(a, u) ==
  CanModerate(profile[a]) \/ (IsLeader(profile[a]) /\ profile[u].leader = a)

Guide(s, a, u) ==
  /\ MayGuide(a, u) /\ profile[u].status # "NONE"
  /\ \/ ~IsLeader(profile[u]) /\ Start(s, Saving(u, <<Promoted(profile[u])>>))
     \/ IsLeader(profile[u]) /\ Start(s, Resigning(u, TRUE))

\* become_moderator saves twice when the user was no leader.
Moderator(s, a, u) ==
  LET p == profile[u]
      l == IF IsLeader(p) THEN p ELSE Promoted(p)
      m == [l EXCEPT !.flags = @ \union {"is_moderator"}] IN
  /\ CanModerate(profile[a]) /\ p.status # "NONE"
  /\ \/ CanModerate(p) /\ Start(s, Saving(u, <<Demoted(p)>>))
     \/ ~CanModerate(p) /\ IsLeader(p) /\ Start(s, Saving(u, <<m>>))
     \/ ~IsLeader(p) /\ Start(s, Saving(u, <<l, m>>))

\* Variant: anybody may be given mentees.
TransferToAnybody(s, a, u, l) ==
  /\ CanModerate(profile[a])
  /\ ~IsLeader(profile[u]) /\ profile[u].status # "NONE" /\ l # u /\ HasRoom(l)
  /\ Start(s, Saving(u, <<[profile[u] EXCEPT !.leader = l]>>))

Transfer(s, a, u, l) ==
  /\ CanModerate(profile[a])
  /\ ~IsLeader(profile[u]) /\ profile[u].status # "NONE"
  /\ IsLeader(profile[l]) /\ HasRoom(l)
  /\ Start(s, Saving(u, <<[profile[u] EXCEPT !.leader = l]>>))

Abandon(s, a, u) ==
  /\ profile[u].leader = a /\ IsLeader(profile[a])
  /\ Start(s, Saving(u, <<[profile[u] EXCEPT !.leader = NoUser]>>))

\* Settings and notices: a user saves the own profile, with fields of no
\* interest here changed.
Settings(s, u) ==
  /\ profile[u].status # "NONE"
  /\ Start(s, Saving(u, <<profile[u]>>))
-----------------------------------------------------------------------------
(* A mail that cannot be sent, a failed query or a killed process ends a     *)
(* request between its steps.                                                *)
Die(s) ==
  LET j == job[s] IN
  /\ j # Idle
  /\ job' = [job EXCEPT ![s] = Idle]
  /\ cutOff' = cutOff \union IF j.at \in {"join", "store"} /\ j.request > 0
                            THEN {j.request} ELSE {}
  /\ UNCHANGED <<profile, leadership, starts, overlapped>>

Decide(s, a) ==
  \/ \E i \in DOMAIN leadership, answer \in Responses : Respond(s, a, i, answer)
  \/ \E u \in Users : Ban(s, a, u) \/ Guide(s, a, u) \/ Moderator(s, a, u) \/ Abandon(s, a, u)
  \/ \E u, l \in Users : Transfer(s, a, u, l)

Ask(s, u) ==
  \/ Apply(s, u) \/ Resign(s, u) \/ Settings(s, u)
  \/ \E k \in {"LEAD", "PAIR"} : Request(s, u, k)

Serve(s) ==
  \/ Insert(s) \/ Answer(s) \/ Activate(s) \/ Store(s) \/ Demote(s)
  \/ LoadMentees(s) \/ Free(s) \/ Pair(s)

Next ==
  \E s \in Sessions :
    \/ Serve(s) \/ Die(s)
    \/ \E u \in Users : Ask(s, u) \/ Decide(s, u)

Spec == Init /\ [][Next]_vars
-----------------------------------------------------------------------------
\* What every variable holds, when the profiles are those of P.
TypedWith(P) ==
  /\ profile \in [Users -> P]
  /\ leadership \in Seq(Requests)
  /\ job \in [Sessions ->
       [at : Steps, actor : Users \union {NoUser}, user : Users \union {NoUser},
        kind : Kinds, request : Nat, answer : Responses, writes : Seq(P),
        mentees : SUBSET Users, seen : [Users -> P], freed : Users \union {NoUser}]]
  /\ starts \in 0 .. MaxStarts
  /\ overlapped \in BOOLEAN
  /\ cutOff \subseteq Nat

TypeOK == TypedWith(Profiles)

\* A moderator is a leader, whatever overlaps and whatever fails: the two flags
\* are saved together, and a leader loses the flag of a moderator before the
\* other one (resign_leadership; can_moderate asks for both).
ModeratorsLead ==
  \A u \in Users : "is_moderator" \in profile[u].flags => IsLeader(profile[u])

\* As long as web requests do not overlap, and whichever of them fails, a mentee
\* has a leader who is one: mentees are freed before their leader steps down.
\* But a leader who answered the own pair request is a mentee of himself, and
\* resigns with that field unchanged.
MenteesAreLed ==
  ~overlapped =>
    \A u \in Users : LET l == profile[u].leader IN
      l = NoUser \/ l = u \/ IsLeader(profile[l])

\* Nobody leads more than MAX_MENTEES; requests that overlap exceed the limit by
\* at most one each, because each checks it once and brings one mentee
\* (available_to_lead, read before the answer and the profile are saved).
LimitIsKept ==
  \A l \in Users :
    Cardinality(Mentees(l)) <= MaxMentees + IF overlapped THEN Cardinality(Sessions) - 1 ELSE 0

\* When web requests do not overlap, the answer to an application and the status
\* of the applicant agree, but for answers whose request failed after they were
\* saved (approve mails the owner before the profile is touched).
AnswerStands ==
  ~overlapped =>
    \A i \in DOMAIN leadership : LET r == leadership[i] IN
      (r.kind = "JOIN" /\ i \notin cutOff /\ \A s \in Sessions : job[s].request # i) =>
        profile[r.owner].status =
          IF r.response \in {"APPROVED", "DENIED"} THEN r.response ELSE "PENDING"

\* The web request of j carries out the request of u that the leader l approved.
CarriesOut(j, u, l) ==
  /\ j.request \in DOMAIN leadership
  /\ LET r == leadership[j.request] IN
     r.kind # "LEAD" /\ r.owner = u /\ r.response = "APPROVED" /\ r.by = l

\* When web requests do not overlap, whichever of them fails, no promotion leaves
\* a leader with a leader (become_leader clears it), and a leader is given one
\* only by the answer to an own application or pair request, by who approved it:
\* "Leaders cannot seek new mentors" is asked when a pair request is filed and
\* not again when it is answered, and the approval of an applicant whom a
\* moderator made a leader meanwhile does not ask at all.
LedLeadersAsked ==
  [][~overlapped' =>
       \A u \in Users : LET old == profile[u]  new == profile'[u] IN
         (IsLeader(new) /\ new.leader # NoUser) =>
           /\ IsLeader(old)
           /\ \/ new.leader = old.leader
              \/ \E s \in Sessions : CarriesOut(job[s], u, new.leader)]_vars
=============================================================================
