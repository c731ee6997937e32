--------------------------- MODULE AnnounceProofs ---------------------------
(***************************************************************************)
(* Proofs about Announce, for any users, topics, processes and bounds that *)
(* satisfy AnnounceAssumption.                                             *)
(*                                                                         *)
(* While requests and the dispatcher overlap, are killed and fail to       *)
(* write, every write still comes whole from one copy of the database, so  *)
(* what relates the fields of one database to each other survives: that    *)
(* is Inv, and VotesConserved, SpoolMatchesAnnouncements and CoolDownIsKept*)
(* follow from it.  What relates the database to the mails that left and   *)
(* the links that were answered needs one process at a time that nobody    *)
(* kills: that is SerialInv under Alone, from which TokenVotesOnce,        *)
(* NoDuplicateMail and TotalsCountTries follow.                            *)
(***************************************************************************)
EXTENDS Announce, SequenceTheorems, FiniteSetTheorems, TLAPS

\* The values of the fields.  Announce.TypeOK also bounds the votes by MaxVotes,
\* a bound of the runs that no write of the code keeps.
Scores == UNION {{Score[good, bad] : good \in Nat} : bad \in Nat}
Rises == UNION {{a - b : a \in Scores} : b \in Scores}
Queued == [id : Nat \ {0}, ttl : Nat, score : Scores, users : SUBSET Users]
Letters == [id : Nat \ {0}, user : Users, to : Users, left : BOOLEAN, ttl : Nat,
            rise : Rises, wanted : BOOLEAN]
Databases == [good : [Users -> Nat], bad : [Users -> Nat], total : [Users -> Nat],
              topics : [Users -> SUBSET Topics], tokens : SUBSET Tokens,
              announcements : Seq(Announcements), spool : Seq(Queued)]
Jobs == [kind : {"none", "view", "unknown", "dispatch"}]
          \union [kind : {"announce", "save_topics"}, user : Users,
                  topics : SUBSET Topics]
          \union [kind : {"vote"}, token : Tokens]

\* Where the variables are.
Shape ==
  /\ file # Torn => file \in Databases
  /\ pc \in [Procs -> Steps]
  /\ job \in [Procs -> Jobs]
  /\ db \in [Procs -> Databases]
  /\ cursor \in [Procs -> Nat \ {0}]
  /\ clock \in Nat
  /\ sent \in Seq(Letters)

\* The vote links of one author.
Of(tokens, u) == {t \in tokens : t.user = u}

\* Nothing in a database is of a mail or of a moment that did not come yet.
Dated(d, n, now) ==
  /\ IsFiniteSet(d.tokens)
  /\ \A t \in d.tokens : t.mail <= n
  /\ \A i \in DOMAIN d.announcements : d.announcements[i].at <= now

\* VotesConserved of one database.
Conserved(d) ==
  \A u \in Users :
    d.good[u] + d.bad[u] + Cardinality(Of(d.tokens, u))
      = Empty.good[u] + 2 * d.total[u]

\* SpoolMatchesAnnouncements of one database: its tasks, their ids, and both.
Fits(task, d) ==
  /\ task.id \in DOMAIN d.announcements
  /\ d.announcements[task.id].user \in task.users
  /\ Cardinality(task.users) - 1 <= d.total[d.announcements[task.id].user]

Distinct(spool) ==
  \A i, j \in DOMAIN spool : spool[i].id = spool[j].id => i = j

Matched(d) ==
  /\ \A i \in DOMAIN d.spool : Fits(d.spool[i], d)
  /\ Distinct(d.spool)

\* CoolDownIsKept of one database.
Spaced(announcements) ==
  \A i, j \in DOMAIN announcements :
    i < j /\ announcements[i].user = announcements[j].user =>
      announcements[j].at - announcements[i].at >= CoolDown

\* What a database must be to be written, after n mails and at the moment now.
Sound(d, n, now) ==
  Dated(d, n, now) /\ Conserved(d) /\ Matched(d) /\ Spaced(d.announcements)

\* The file, unless it is torn, and every process's copy are sound.
Inv ==
  /\ Shape
  /\ file # Torn => Sound(file, Len(sent), clock)
  /\ \A p \in Procs : Sound(db[p], Len(sent), clock)

\* One process at a time, and it runs to its end.
Alone == (\E p : Procs = {p}) /\ MaxKills = 0

\* The links that were answered are no longer valid.
Spent(d, answered) == \A i \in DOMAIN answered : answered[i] \notin d.tokens

\* Whoever got a mail is a recipient in the task, while that is queued.
Reached(d, letters) ==
  \A k \in DOMAIN letters :
    /\ letters[k].id \in DOMAIN d.announcements
    /\ \A i \in DOMAIN d.spool :
         d.spool[i].id = letters[k].id => letters[k].to \in d.spool[i].users

\* The mails of one author, and that the totals count them.
By(letters, u) == {k \in DOMAIN letters : letters[k].user = u}

Counted(d, letters) ==
  \A u \in Users : d.total[u] = Cardinality(By(letters, u))

\* A process that has read the database and not finished writing it.
Working(p) == pc[p] \in {"lock", "handle", "dispatch", "truncate", "write"}

\* A dispatch that may have sent mails the file does not know of yet.
Stale(p) == pc[p] \in {"dispatch", "lock", "truncate"} /\ job[p].kind = "dispatch"

\* The copy knows what left.
CopyOK(p) ==
  /\ pc[p] = "write" => file = Torn
  /\ pc[p] = "handle" => job[p].kind # "dispatch"
  /\ pc[p] = "dispatch" => job[p].kind = "dispatch"
  /\ Working(p) => /\ Spent(db[p], votes)
                   /\ Reached(db[p], sent)
                   /\ Counted(db[p], sent)

\* So does the file, unless a dispatch is under way.
FileOK(p) ==
  file # Torn =>
    /\ pc[p] # "truncate" => Spent(file, votes)
    /\ ~Stale(p) => Reached(file, sent) /\ Counted(file, sent)

\* What left, and what was answered.
History ==
  /\ kills \in Nat
  /\ votes \in Seq(Tokens)
  /\ \A i \in DOMAIN votes : votes[i].mail <= Len(sent)
  /\ TokenVotesOnce
  /\ NoDuplicateMail

\* Inductive for one process, together with Inv.
SerialInv == History /\ \A p \in Procs : CopyOK(p) /\ FileOK(p)
-----------------------------------------------------------------------------
\* Facts about counting.

\* One kind of link of the mails m + 1 .. m + n.
Links(a, g, m, n) == {[mail |-> k, user |-> a, good |-> g] : k \in m + 1 .. m + n}

\* As many links of a kind as mails.
LEMMA LinkCount ==
  ASSUME NEW a, NEW g, NEW m \in Nat, NEW n \in Nat
  PROVE  IsFiniteSet(Links(a, g, m, n)) /\ Cardinality(Links(a, g, m, n)) = n
<1> DEFINE S == m + 1 .. m + n
           T == Links(a, g, m, n)
           f == [k \in S |-> [mail |-> k, user |-> a, good |-> g]]
<1>1. IsFiniteSet(S) /\ Cardinality(S) = n
  BY FS_Interval
<1>2. f \in [S -> T]
  BY DEF Links
<1>3. \A j, k \in S : f[j] = f[k] => j = k
  <2>1. \A k \in S : f[k].mail = k
    OBVIOUS
  <2>2. QED
    BY <2>1
<1>4. \A t \in T : \E k \in S : f[k] = t
  BY DEF Links
<1>5. f \in Bijection(S, T)
  <2> HIDE DEF f, S, T
  <2>1. DOMAIN f = S
    BY <1>2
  <2>2. QED
    BY <1>2, <1>3, <1>4, <2>1 DEF Bijection, Injection, Surjection, IsInjective
<1>6. ExistsBijection(S, T)
  BY <1>5 DEF ExistsBijection
<1>7. QED
  BY <1>1, <1>6, FS_Bijection

\* The tokens of the mails m + 1 .. m + n.
LinksOf(a, m, n) == UNION {TokensOf(k, a) : k \in m + 1 .. m + n}

\* Two tokens for every mail, and all of them new.
LEMMA NewTokens ==
  ASSUME NEW a, NEW m \in Nat, NEW n \in Nat
  PROVE  /\ IsFiniteSet(LinksOf(a, m, n)) /\ Cardinality(LinksOf(a, m, n)) = 2 * n
         /\ \A t \in LinksOf(a, m, n) : t.mail \in m + 1 .. m + n /\ t.user = a
         /\ a \in Users => LinksOf(a, m, n) \subseteq Tokens
<1> DEFINE new == LinksOf(a, m, n)
<1>0. \A k \in m + 1 .. m + n : k \in Nat
  OBVIOUS
<1>1. new = Links(a, TRUE, m, n) \union Links(a, FALSE, m, n)
  <2>1. ASSUME NEW t \in new
        PROVE  t \in Links(a, TRUE, m, n) \union Links(a, FALSE, m, n)
    <3>1. PICK k \in m + 1 .. m + n : t \in TokensOf(k, a)
      BY DEF LinksOf
    <3>2. PICK g \in BOOLEAN : t = [mail |-> k, user |-> a, good |-> g]
      BY <3>1 DEF TokensOf
    <3>3. g = TRUE \/ g = FALSE
      BY <3>2
    <3>4. QED
      BY <3>2, <3>3 DEF Links
  <2>2. ASSUME NEW g \in BOOLEAN, NEW t \in Links(a, g, m, n)
        PROVE  t \in new
    <3>1. PICK k \in m + 1 .. m + n : t = [mail |-> k, user |-> a, good |-> g]
      BY DEF Links
    <3>2. t \in TokensOf(k, a)
      BY <3>1 DEF TokensOf
    <3>3. QED
      BY <3>2 DEF LinksOf
  <2>3. QED
    BY <2>1, <2>2
<1> HIDE DEF new
<1>2. Links(a, TRUE, m, n) \cap Links(a, FALSE, m, n) = {}
  BY DEF Links
<1>3. \A g \in BOOLEAN :
        IsFiniteSet(Links(a, g, m, n)) /\ Cardinality(Links(a, g, m, n)) = n
  BY LinkCount
<1>4. IsFiniteSet(new) /\ Cardinality(new) = 2 * n
  <2>1. Cardinality({}) = 0
    BY FS_EmptySet
  <2> DEFINE A == Links(a, TRUE, m, n)
             B == Links(a, FALSE, m, n)
  <2>2. IsFiniteSet(A) /\ IsFiniteSet(B)
    BY <1>3
  <2>3. Cardinality(A) = n /\ Cardinality(B) = n
    BY <1>3
  <2> HIDE DEF A, B
  <2>4. IsFiniteSet(A \union B) /\ Cardinality(A \union B)
          = Cardinality(A) + Cardinality(B) - Cardinality(A \cap B)
    BY <2>2, FS_Union
  <2>5. A \cap B = {} /\ new = A \union B
    BY <1>1, <1>2 DEF A, B
  <2>6. Cardinality(new) = n + n - 0
    BY <2>1, <2>3, <2>4, <2>5
  <2>7. Cardinality(new) = 2 * n
    BY <2>6
  <2>8. IsFiniteSet(new)
    BY <2>4, <2>5, Zenon
  <2>9. QED
    BY <2>7, <2>8
<1>5. \A t \in new : t.mail \in m + 1 .. m + n /\ t.user = a
  BY <1>1 DEF Links
<1>6. ASSUME a \in Users PROVE new \subseteq Tokens
  <2>1. ASSUME NEW k \in m + 1 .. m + n, NEW t \in TokensOf(k, a)
        PROVE  t \in Tokens
    BY <1>0, <1>6, Zenon DEF TokensOf, Tokens
  <2>2. QED
    BY <2>1, Zenon DEF new, LinksOf
<1>7. QED
  BY <1>4, <1>5, <1>6 DEF new

\* The links of one user are among all of them, so there are finitely many.
LEMMA FiniteOf ==
  ASSUME NEW tokens, IsFiniteSet(tokens), NEW u
  PROVE  IsFiniteSet(Of(tokens, u)) /\ Cardinality(Of(tokens, u)) \in Nat
<1>1. Of(tokens, u) \in SUBSET tokens
  BY DEF Of
<1>2. IsFiniteSet(Of(tokens, u))
  BY <1>1, FS_Subset
<1>3. QED
  BY <1>2, FS_CardinalityType

\* Two tokens for a mail balance the account.
LEMMA Balance ==
  ASSUME NEW start \in Nat, NEW good \in Nat, NEW bad \in Nat, NEW c \in Nat,
         NEW total \in Nat, NEW n \in Nat, good + bad + c = start + 2 * total
  PROVE  good + bad + (c + 2 * n) = start + 2 * (total + n)
OBVIOUS
-----------------------------------------------------------------------------
\* What each operation of lib.js does to the fields of a database.

\* What a vote changes.
LEMMA VoteFields ==
  ASSUME NEW d \in Databases, NEW t \in d.tokens, NEW e, e = WithVote(d, t)
  PROVE  /\ e \in Databases
         /\ e.tokens = d.tokens \ {t}
         /\ \A u \in Users : e.good[u] + e.bad[u]
              = d.good[u] + d.bad[u] + (IF u = t.user THEN 1 ELSE 0)
         /\ e.total = d.total /\ e.announcements = d.announcements
         /\ e.spool = d.spool
<1>1. t \in Tokens
  BY DEF Databases
<1>2. t.user \in Users /\ t.good \in BOOLEAN
  BY <1>1 DEF Tokens
<1>3. CASE t.good
  <2>1. e = [d EXCEPT !.tokens = d.tokens \ {t},
                      !.good = [d.good EXCEPT ![t.user] = @ + 1]]
    BY <1>3 DEF WithVote, Databases
  <2>2. /\ e.tokens = d.tokens \ {t} /\ e.total = d.total
        /\ e.announcements = d.announcements /\ e.spool = d.spool
        /\ e.good = [d.good EXCEPT ![t.user] = @ + 1] /\ e.bad = d.bad
    BY <2>1 DEF Databases
  <2>3. d.good \in [Users -> Nat] /\ d.bad \in [Users -> Nat]
    BY DEF Databases
  <2>4. [d.good EXCEPT ![t.user] = @ + 1] \in [Users -> Nat]
    BY <1>2, <2>3
  <2>5. e \in Databases
    BY <2>1, <2>4 DEF Databases
  <2>6. \A u \in Users : e.good[u] + e.bad[u]
          = d.good[u] + d.bad[u] + (IF u = t.user THEN 1 ELSE 0)
    BY <1>2, <2>2, <2>3
  <2>7. QED
    BY <2>2, <2>5, <2>6
<1>4. CASE ~t.good
  <2>1. e = [d EXCEPT !.tokens = d.tokens \ {t},
                      !.bad = [d.bad EXCEPT ![t.user] = @ + 1]]
    BY <1>4 DEF WithVote, Databases
  <2>2. /\ e.tokens = d.tokens \ {t} /\ e.total = d.total
        /\ e.announcements = d.announcements /\ e.spool = d.spool
        /\ e.bad = [d.bad EXCEPT ![t.user] = @ + 1] /\ e.good = d.good
    BY <2>1 DEF Databases
  <2>3. d.good \in [Users -> Nat] /\ d.bad \in [Users -> Nat]
    BY DEF Databases
  <2>4. [d.bad EXCEPT ![t.user] = @ + 1] \in [Users -> Nat]
    BY <1>2, <2>3
  <2>5. e \in Databases
    BY <2>1, <2>4 DEF Databases
  <2>6. \A u \in Users : e.good[u] + e.bad[u]
          = d.good[u] + d.bad[u] + (IF u = t.user THEN 1 ELSE 0)
    BY <1>2, <2>2, <2>3
  <2>7. QED
    BY <2>2, <2>5, <2>6
<1>5. QED
  BY <1>3, <1>4

\* What saving one's topics changes.
LEMMA TopicsFields ==
  ASSUME NEW d \in Databases, NEW u \in Users, NEW topics \in SUBSET Topics,
         NEW e, e = [d EXCEPT !.topics[u] = topics]
  PROVE  /\ e \in Databases
         /\ e.good = d.good /\ e.bad = d.bad /\ e.total = d.total
         /\ e.tokens = d.tokens /\ e.announcements = d.announcements
         /\ e.spool = d.spool
BY DEF Databases

\* A score is a score.
LEMMA ScoreIsScore ==
  ASSUME NEW d \in Databases, NEW u \in Users
  PROVE  ScoreOf(d, u) \in Scores
<1>1. ASSUME NEW x \in Nat, NEW y \in Nat
      PROVE  Score[x, y] \in Scores
  <2>1. Score[x, y] \in {Score[good, y] : good \in Nat}
    BY Zenon
  <2>2. {Score[good, y] : good \in Nat}
          \in {{Score[good, bad] : good \in Nat} : bad \in Nat}
    BY Zenon
  <2>3. QED
    BY <2>1, <2>2, Zenon DEF Scores
<1>2. d.good[u] \in Nat /\ d.bad[u] \in Nat
  BY DEF Databases
<1>3. ScoreOf(d, u) = Score[d.good[u], d.bad[u]]
  BY Zenon DEF ScoreOf
<1>4. QED
  BY <1>1, <1>2, <1>3, Zenon

\* What an announcement changes.
LEMMA AnnounceFields ==
  ASSUME NEW d \in Databases, NEW u \in Users, NEW topics \in SUBSET Topics,
         clock \in Nat, NEW e, e = WithAnnouncement(d, u, topics)
  PROVE  /\ e \in Databases
         /\ e.good = d.good /\ e.bad = d.bad /\ e.total = d.total
         /\ e.tokens = d.tokens
         /\ Len(e.announcements) = Len(d.announcements) + 1
         /\ \A i \in 1 .. Len(d.announcements) :
              e.announcements[i] = d.announcements[i]
         /\ e.announcements[Len(d.announcements) + 1].user = u
         /\ e.announcements[Len(d.announcements) + 1].at = clock
         /\ Len(e.spool) = Len(d.spool) + 1
         /\ \A i \in 1 .. Len(d.spool) : e.spool[i] = d.spool[i]
         /\ e.spool[Len(d.spool) + 1].id = Len(d.announcements) + 1
         /\ e.spool[Len(d.spool) + 1].users = {u}
<1> DEFINE a == [user |-> u, topics |-> topics, at |-> clock]
           q == [id |-> Len(d.announcements) + 1, ttl |-> TTL,
                 score |-> ScoreOf(d, u), users |-> {u}]
<1>1. d.announcements \in Seq(Announcements) /\ d.spool \in Seq(Queued)
  BY DEF Databases
<1>2. Len(d.announcements) \in Nat
  BY <1>1, LenProperties
<1>3. a \in Announcements
  BY DEF Announcements
<1>4. q \in Queued
  BY <1>2, ScoreIsScore DEF Queued, TTL
<1>5. e = [d EXCEPT !.announcements = Append(d.announcements, a),
                    !.spool = Append(d.spool, q)]
  BY DEF WithAnnouncement, Databases
<1>6. /\ a.user = u /\ a.at = clock
      /\ q.id = Len(d.announcements) + 1 /\ q.users = {u}
  OBVIOUS
<1> HIDE DEF a, q
<1>7. /\ Append(d.announcements, a) \in Seq(Announcements)
      /\ Len(Append(d.announcements, a)) = Len(d.announcements) + 1
      /\ \A i \in 1 .. Len(d.announcements) :
           Append(d.announcements, a)[i] = d.announcements[i]
      /\ Append(d.announcements, a)[Len(d.announcements) + 1] = a
  BY <1>1, <1>3, AppendProperties
<1>8. /\ Append(d.spool, q) \in Seq(Queued)
      /\ Len(Append(d.spool, q)) = Len(d.spool) + 1
      /\ \A i \in 1 .. Len(d.spool) : Append(d.spool, q)[i] = d.spool[i]
      /\ Append(d.spool, q)[Len(d.spool) + 1] = q
  BY <1>1, <1>4, AppendProperties
<1>9. /\ e.announcements = Append(d.announcements, a)
      /\ e.spool = Append(d.spool, q)
      /\ e.good = d.good /\ e.bad = d.bad /\ e.total = d.total
      /\ e.tokens = d.tokens
  BY <1>5 DEF Databases
<1>10. e \in Databases
  BY <1>5, <1>7, <1>8 DEF Databases
<1>11. QED
  BY <1>6, <1>7, <1>8, <1>9, <1>10

\* A sequence without its i-th element.
LEMMA Removed ==
  ASSUME NEW S, NEW s \in Seq(S), NEW i \in 1 .. Len(s)
  PROVE  /\ RemoveAt(s, i) \in Seq(S)
         /\ Len(RemoveAt(s, i)) = Len(s) - 1
         /\ \A j \in 1 .. Len(s) - 1 :
              RemoveAt(s, i)[j] = IF j < i THEN s[j] ELSE s[j + 1]
<1> DEFINE a == SubSeq(s, 1, i - 1)
           b == SubSeq(s, i + 1, Len(s))
<1>1. Len(s) \in Nat /\ \A j \in 1 .. Len(s) : s[j] \in S
  BY LenProperties, ElementOfSeq
<1>2. /\ a \in Seq(S) /\ Len(a) = i - 1
      /\ \A j \in 1 .. i - 1 : a[j] = s[j]
  <2>1. \A j \in 1 .. i - 1 : s[j] \in S
    BY <1>1
  <2>2. /\ a \in Seq(S) /\ Len(a) = (IF 1 <= i - 1 THEN i - 1 - 1 + 1 ELSE 0)
        /\ \A j \in 1 .. i - 1 - 1 + 1 : a[j] = s[1 + j - 1]
    BY <1>1, <2>1, SubSeqProperties
  <2> HIDE DEF a
  <2>3. QED
    BY <1>1, <2>2
<1>3. /\ b \in Seq(S) /\ Len(b) = Len(s) - i
      /\ \A j \in 1 .. Len(s) - i : b[j] = s[i + j]
  <2>1. \A j \in i + 1 .. Len(s) : s[j] \in S
    BY <1>1
  <2>2. /\ b \in Seq(S)
        /\ Len(b) = (IF i + 1 <= Len(s) THEN Len(s) - (i + 1) + 1 ELSE 0)
        /\ \A j \in 1 .. Len(s) - (i + 1) + 1 : b[j] = s[i + 1 + j - 1]
    BY <1>1, <2>1, SubSeqProperties
  <2> HIDE DEF b
  <2>3. QED
    BY <1>1, <2>2
<1>4. RemoveAt(s, i) = a \o b
  BY DEF RemoveAt
<1> HIDE DEF a, b
<1>5. /\ a \o b \in Seq(S) /\ Len(a \o b) = Len(a) + Len(b)
      /\ \A j \in 1 .. Len(a) + Len(b) :
           (a \o b)[j] = IF j <= Len(a) THEN a[j] ELSE b[j - Len(a)]
  BY <1>2, <1>3, ConcatProperties
<1>6. ASSUME NEW j \in 1 .. Len(s) - 1
      PROVE  RemoveAt(s, i)[j] = IF j < i THEN s[j] ELSE s[j + 1]
  <2>1. RemoveAt(s, i)[j] = IF j <= i - 1 THEN a[j] ELSE b[j - (i - 1)]
    BY <1>1, <1>2, <1>3, <1>4, <1>5
  <2>2. CASE j < i
    BY <1>1, <1>2, <2>1, <2>2
  <2>3. CASE ~(j < i)
    <3>1. j - (i - 1) \in 1 .. Len(s) - i /\ i + (j - (i - 1)) = j + 1
      BY <1>1, <2>3
    <3>2. QED
      BY <1>1, <1>3, <2>1, <2>3, <3>1
  <2>4. QED
    BY <2>2, <2>3
<1>7. QED
  BY <1>1, <1>2, <1>3, <1>4, <1>5, <1>6

\* An expired task is spliced out.
Expired(d, i) == [d EXCEPT !.spool = RemoveAt(@, i)]

\* What splicing out an expired task changes.
LEMMA ExpiredFields ==
  ASSUME NEW d \in Databases, NEW i \in 1 .. Len(d.spool),
         NEW e, e = Expired(d, i)
  PROVE  /\ e \in Databases
         /\ e.good = d.good /\ e.bad = d.bad /\ e.total = d.total
         /\ e.tokens = d.tokens /\ e.announcements = d.announcements
         /\ Len(e.spool) = Len(d.spool) - 1
         /\ \A j \in 1 .. Len(d.spool) - 1 :
              e.spool[j] = IF j < i THEN d.spool[j] ELSE d.spool[j + 1]
<1>1. d.spool \in Seq(Queued)
  BY DEF Databases
<1>2. RemoveAt(d.spool, i) \in Seq(Queued)
  BY <1>1, Removed
<1>3. e = [d EXCEPT !.spool = RemoveAt(d.spool, i)]
  BY DEF Databases, Expired
<1>4. /\ e \in Databases /\ e.spool = RemoveAt(d.spool, i)
      /\ e.good = d.good /\ e.bad = d.bad /\ e.total = d.total
      /\ e.tokens = d.tokens /\ e.announcements = d.announcements
  BY <1>2, <1>3 DEF Databases
<1>5. /\ Len(RemoveAt(d.spool, i)) = Len(d.spool) - 1
      /\ \A j \in 1 .. Len(d.spool) - 1 : RemoveAt(d.spool, i)[j]
           = IF j < i THEN d.spool[j] ELSE d.spool[j + 1]
  BY <1>1, Removed
<1>6. QED
  BY <1>4, <1>5

\* The recipients of a task are users, and finitely many.
LEMMA SampleFacts ==
  ASSUME NEW d, NEW task, NEW rcpt \in Samples(d, task)
  PROVE  /\ rcpt \subseteq Users /\ IsFiniteSet(rcpt)
         /\ Cardinality(rcpt) \in Nat /\ rcpt \cap task.users = {}
<1>1. rcpt \subseteq Users /\ rcpt \cap task.users = {}
  BY DEF Samples, TargetUsers, kSubset
<1>2. IsFiniteSet(rcpt)
  BY <1>1, AnnounceAssumption, FS_Subset
<1>3. QED
  BY <1>1, <1>2, FS_CardinalityType

\* What a broadcast of the task at i to rcpt changes, when m mails had left.
Broadcasts(d, i, rcpt, author, m, n, e) ==
  /\ e \in Databases
  /\ e.good = d.good /\ e.bad = d.bad
  /\ e.tokens = d.tokens \union LinksOf(author, m, n)
  /\ e.total = [d.total EXCEPT ![author] = @ + n]
  /\ e.announcements = d.announcements
  /\ Len(e.spool) = Len(d.spool)
  /\ \A j \in 1 .. Len(d.spool) :
       /\ e.spool[j].id = d.spool[j].id /\ e.spool[j].ttl = d.spool[j].ttl
       /\ e.spool[j].users
            = IF j = i THEN d.spool[j].users \union rcpt ELSE d.spool[j].users

\* It does change these.
LEMMA BroadcastFields ==
  ASSUME NEW d \in Databases, NEW i \in 1 .. Len(d.spool),
         NEW rcpt \in SUBSET Users, Cardinality(rcpt) \in Nat,
         Len(sent) \in Nat,
         NEW author \in Users, author = d.announcements[d.spool[i].id].user,
         NEW e, e = WithBroadcast(d, i, rcpt)
  PROVE  Broadcasts(d, i, rcpt, author, Len(sent), Cardinality(rcpt), e)
<1> DEFINE n == Cardinality(rcpt)
           new == LinksOf(author, Len(sent), Cardinality(rcpt))
           q == [d.spool[i] EXCEPT !.users = @ \union rcpt]
           total == [d.total EXCEPT ![author] = @ + n]
           spool == [d.spool EXCEPT ![i] = q]
<1>1. d.spool \in Seq(Queued) /\ d.spool[i] \in Queued
  BY ElementOfSeq DEF Databases
<1>2. /\ q \in Queued /\ q.id = d.spool[i].id /\ q.ttl = d.spool[i].ttl
      /\ q.users = d.spool[i].users \union rcpt
  <2>1. PICK t \in Queued : t = d.spool[i]
    BY <1>1
  <2>2. /\ q.id = t.id /\ q.ttl = t.ttl /\ q.users = t.users \union rcpt
        /\ q \in Queued
    BY <2>1 DEF Queued
  <2>3. QED
    BY <2>1, <2>2
<1>3. total \in [Users -> Nat]
  BY DEF Databases
<1>4. new \subseteq Tokens
  BY NewTokens
<1>5. e = [d EXCEPT !.tokens = d.tokens \union new, !.total = total,
                    !.spool = spool]
  BY DEF WithBroadcast, Databases, LinksOf
<1> HIDE DEF q, total, spool, n, new
<1>6. /\ spool \in Seq(Queued) /\ Len(spool) = Len(d.spool)
      /\ \A j \in 1 .. Len(d.spool) : spool[j] = IF j = i THEN q ELSE d.spool[j]
  BY <1>1, <1>2, ExceptSeq DEF spool
<1>7. /\ e \in Databases
      /\ e.good = d.good /\ e.bad = d.bad /\ e.tokens = d.tokens \union new
      /\ e.total = total /\ e.announcements = d.announcements
      /\ e.spool = spool
  BY <1>3, <1>4, <1>5, <1>6 DEF Databases
<1>8. QED
  BY <1>2, <1>6, <1>7 DEF total, n, new, Broadcasts

\* A task that ages.
Older(d, i, now) == [d EXCEPT !.spool[i].ttl = @ - 1, !.spool[i].score = now]

\* What aging changes.
LEMMA OlderFields ==
  ASSUME NEW d \in Databases, NEW i \in 1 .. Len(d.spool), NEW now \in Scores,
         d.spool[i].ttl > 0,
         NEW e, e = Older(d, i, now)
  PROVE  /\ e \in Databases
         /\ e.good = d.good /\ e.bad = d.bad /\ e.total = d.total
         /\ e.tokens = d.tokens /\ e.announcements = d.announcements
         /\ Len(e.spool) = Len(d.spool)
         /\ \A j \in 1 .. Len(d.spool) : /\ e.spool[j].id = d.spool[j].id
                                         /\ e.spool[j].users = d.spool[j].users
<1> DEFINE q == [d.spool[i] EXCEPT !.ttl = @ - 1, !.score = now]
           spool == [d.spool EXCEPT ![i] = q]
<1>1. d.spool \in Seq(Queued) /\ d.spool[i] \in Queued
  BY ElementOfSeq DEF Databases
<1>2. q \in Queued /\ q.id = d.spool[i].id /\ q.users = d.spool[i].users
  <2> DEFINE r == [d.spool[i] EXCEPT !.ttl = @ - 1]
  <2>1. d.spool[i].ttl - 1 \in Nat
    BY <1>1 DEF Queued
  <2>2. r \in Queued /\ r.id = d.spool[i].id /\ r.users = d.spool[i].users
    BY <1>1, <2>1 DEF Queued
  <2>3. q = [r EXCEPT !.score = now]
    BY <1>1 DEF Queued
  <2> HIDE DEF r, q
  <2>4. QED
    BY <2>2, <2>3 DEF Queued
<1>3. e = [d EXCEPT !.spool = spool]
  <2>1. i \in DOMAIN d.spool
    BY <1>1, LenProperties
  <2>2. e = [d EXCEPT !.spool = [[d.spool EXCEPT ![i].ttl = @ - 1]
                                    EXCEPT ![i].score = now]]
    BY DEF Older, Databases
  <2>3. [[d.spool EXCEPT ![i].ttl = @ - 1] EXCEPT ![i].score = now] = spool
    BY <2>1
  <2>4. QED
    BY <2>2, <2>3
<1> HIDE DEF q, spool
<1>4. /\ spool \in Seq(Queued) /\ Len(spool) = Len(d.spool)
      /\ \A j \in 1 .. Len(d.spool) : spool[j] = IF j = i THEN q ELSE d.spool[j]
  BY <1>1, <1>2, ExceptSeq DEF spool
<1>5. /\ e \in Databases /\ e.spool = spool
      /\ e.good = d.good /\ e.bad = d.bad /\ e.total = d.total
      /\ e.tokens = d.tokens /\ e.announcements = d.announcements
  BY <1>3, <1>4 DEF Databases
<1>6. QED
  BY <1>2, <1>4, <1>5
-----------------------------------------------------------------------------
\* What each operation keeps.

\* Where a field of a database is.
LEMMA Indices ==
  ASSUME NEW d \in Databases
  PROVE  /\ d.announcements \in Seq(Announcements)
         /\ Len(d.announcements) \in Nat
         /\ DOMAIN d.announcements = 1 .. Len(d.announcements)
         /\ \A i \in 1 .. Len(d.announcements) :
              d.announcements[i] \in Announcements
         /\ d.spool \in Seq(Queued)
         /\ Len(d.spool) \in Nat
         /\ DOMAIN d.spool = 1 .. Len(d.spool)
         /\ \A i \in 1 .. Len(d.spool) : d.spool[i] \in Queued
BY LenProperties, ElementOfSeq DEF Databases

\* A copy stays sound while mails leave and time passes.
LEMMA SoundStays ==
  ASSUME NEW d \in Databases, NEW m \in Nat, NEW n \in Nat, m <= n,
         NEW then \in Nat, NEW now \in Nat, then <= now, Sound(d, m, then)
  PROVE  Sound(d, n, now)
<1>1. \A t \in d.tokens : t.mail \in Nat
  BY DEF Databases, Tokens
<1>2. \A i \in DOMAIN d.announcements : d.announcements[i].at \in Nat
  BY Indices DEF Announcements
<1>3. Dated(d, n, now)
  BY <1>1, <1>2 DEF Sound, Dated
<1>4. QED
  BY <1>3 DEF Sound

\* A finite set without one of its elements.
LEMMA OneLess ==
  ASSUME NEW S, IsFiniteSet(S), NEW x \in S, NEW R, R = S \ {x}
  PROVE  Cardinality(R) = Cardinality(S) - 1
BY FS_RemoveElement

\* A vote uses up one token.
LEMMA VoteSound ==
  ASSUME NEW d \in Databases, NEW t \in d.tokens, NEW n \in Nat, NEW now \in Nat,
         Sound(d, n, now), NEW e, e = WithVote(d, t)
  PROVE  Sound(e, n, now)
<1>1. /\ e \in Databases
      /\ e.tokens = d.tokens \ {t}
      /\ \A u \in Users : e.good[u] + e.bad[u]
           = d.good[u] + d.bad[u] + (IF u = t.user THEN 1 ELSE 0)
      /\ e.total = d.total /\ e.announcements = d.announcements
      /\ e.spool = d.spool
  BY VoteFields
<1>2. Dated(e, n, now)
  <2>1. IsFiniteSet(e.tokens)
    BY <1>1, FS_RemoveElement DEF Sound, Dated
  <2>2. QED
    BY <1>1, <2>1 DEF Sound, Dated
<1>3. ASSUME NEW u \in Users
      PROVE  e.good[u] + e.bad[u] + Cardinality(Of(e.tokens, u))
               = Empty.good[u] + 2 * e.total[u]
  <2>1. /\ IsFiniteSet(Of(d.tokens, u)) /\ Cardinality(Of(d.tokens, u)) \in Nat
    BY FiniteOf DEF Sound, Dated
  <2>2. Cardinality(Of(e.tokens, u)) =
          Cardinality(Of(d.tokens, u)) - (IF u = t.user THEN 1 ELSE 0)
    <3>1. CASE u = t.user
      <4>1. Of(e.tokens, u) = Of(d.tokens, u) \ {t} /\ t \in Of(d.tokens, u)
        BY <1>1, <3>1 DEF Of
      <4>2. Cardinality(Of(e.tokens, u)) = Cardinality(Of(d.tokens, u)) - 1
        BY <2>1, <4>1, OneLess
      <4>3. QED
        BY <3>1, <4>2
    <3>2. CASE u # t.user
      <4>1. Of(e.tokens, u) = Of(d.tokens, u)
        BY <1>1, <3>2 DEF Of
      <4>2. QED
        BY <2>1, <3>2, <4>1
    <3>3. QED
      BY <3>1, <3>2
  <2>3. d.good[u] + d.bad[u] + Cardinality(Of(d.tokens, u))
          = Empty.good[u] + 2 * d.total[u]
    BY DEF Sound, Conserved
  <2>4. d.good[u] \in Nat /\ d.bad[u] \in Nat
    BY DEF Databases
  <2>5. e.good[u] + e.bad[u]
          = d.good[u] + d.bad[u] + (IF u = t.user THEN 1 ELSE 0)
    BY <1>1
  <2>6. e.total[u] = d.total[u]
    BY <1>1
  <2>7. e.good[u] \in Nat /\ e.bad[u] \in Nat
    BY <1>1 DEF Databases
  <2>8. QED
    BY <2>1, <2>2, <2>3, <2>4, <2>5, <2>6, <2>7
<1>4. Matched(e) /\ Spaced(e.announcements)
  BY <1>1 DEF Sound, Matched, Fits
<1>5. QED
  BY <1>2, <1>3, <1>4 DEF Sound, Conserved

\* Topics are in none of the properties.
LEMMA TopicsSound ==
  ASSUME NEW d \in Databases, NEW u \in Users, NEW topics \in SUBSET Topics,
         NEW n, NEW now, Sound(d, n, now),
         NEW e, e = [d EXCEPT !.topics[u] = topics]
  PROVE  Sound(e, n, now)
<1>1. /\ e.good = d.good /\ e.bad = d.bad /\ e.total = d.total
      /\ e.tokens = d.tokens /\ e.announcements = d.announcements
      /\ e.spool = d.spool
  BY TopicsFields
<1>2. QED
  BY <1>1 DEF Sound, Dated, Conserved, Matched, Fits

\* An announcement is queued with an id of its own, a cool-down after the last.
LEMMA AnnounceSound ==
  ASSUME NEW d \in Databases, NEW u \in Users, NEW topics \in SUBSET Topics,
         NEW n, clock \in Nat, Sound(d, n, clock), ~CoolingDown(d, u),
         NEW e, e = WithAnnouncement(d, u, topics)
  PROVE  Sound(e, n, clock)
<1> DEFINE a == Len(d.announcements)
           s == Len(d.spool)
<1>1. /\ e \in Databases
      /\ e.good = d.good /\ e.bad = d.bad /\ e.total = d.total
      /\ e.tokens = d.tokens
      /\ Len(e.announcements) = a + 1
      /\ \A i \in 1 .. a : e.announcements[i] = d.announcements[i]
      /\ e.announcements[a + 1].user = u /\ e.announcements[a + 1].at = clock
      /\ Len(e.spool) = s + 1
      /\ \A i \in 1 .. s : e.spool[i] = d.spool[i]
      /\ e.spool[s + 1].id = a + 1 /\ e.spool[s + 1].users = {u}
  BY AnnounceFields
<1>2. /\ a \in Nat /\ DOMAIN d.announcements = 1 .. a
      /\ \A i \in 1 .. a : d.announcements[i] \in Announcements
      /\ s \in Nat /\ DOMAIN d.spool = 1 .. s
  BY Indices
<1>3. /\ DOMAIN e.announcements = 1 .. a + 1
      /\ DOMAIN e.spool = 1 .. s + 1
  BY <1>1, Indices
<1>4. ASSUME NEW i \in 1 .. a + 1, i \notin 1 .. a PROVE i = a + 1
  BY <1>2, <1>4
<1>5. ASSUME NEW i \in 1 .. s + 1, i \notin 1 .. s PROVE i = s + 1
  BY <1>2, <1>5
<1>6. \A i \in 1 .. a : d.announcements[i].at \in Nat
  BY <1>2 DEF Announcements
<1> HIDE DEF a, s
<1>7. Dated(e, n, clock)
  <2>1. \A i \in 1 .. a : e.announcements[i].at <= clock
    BY <1>1, <1>2 DEF Sound, Dated
  <2>2. \A i \in 1 .. a + 1 : e.announcements[i].at <= clock
    BY <1>1, <1>4, <2>1
  <2>3. QED
    BY <1>1, <1>3, <2>2 DEF Sound, Dated
<1>8. Conserved(e)
  BY <1>1 DEF Sound, Conserved
<1>9. ASSUME NEW i \in DOMAIN e.spool PROVE Fits(e.spool[i], e)
  <2>1. CASE i \in 1 .. s
    <3>1. /\ d.spool[i].id \in 1 .. a
          /\ d.announcements[d.spool[i].id].user \in d.spool[i].users
          /\ Cardinality(d.spool[i].users) - 1
               <= d.total[d.announcements[d.spool[i].id].user]
      BY <1>2, <2>1 DEF Sound, Matched, Fits
    <3>2. d.spool[i].id \in 1 .. a + 1
      BY <1>2, <3>1
    <3>3. /\ e.spool[i] = d.spool[i] /\ e.total = d.total
          /\ e.announcements[d.spool[i].id] = d.announcements[d.spool[i].id]
      <4>1. e.spool[i] = d.spool[i] /\ e.total = d.total
        BY <1>1, <2>1
      <4>2. e.announcements[d.spool[i].id] = d.announcements[d.spool[i].id]
        BY <1>1, <3>1
      <4>3. QED
        BY <4>1, <4>2
    <3>4. QED
      BY <1>3, <3>1, <3>2, <3>3 DEF Fits
  <2>2. CASE i \notin 1 .. s
    <3>1. i = s + 1
      BY <1>3, <1>5, <2>2
    <3>2. Cardinality({u}) = 1
      BY FS_Singleton
    <3>3. e.total[u] \in Nat
      BY <1>1 DEF Databases
    <3>4. a + 1 \in 1 .. a + 1
      BY <1>2
    <3>5. /\ e.spool[i].id = a + 1 /\ e.spool[i].users = {u}
          /\ e.announcements[e.spool[i].id].user = u
      BY <1>1, <3>1
    <3>6. QED
      BY <1>3, <3>2, <3>3, <3>4, <3>5 DEF Fits
  <2>3. QED
    BY <2>1, <2>2
<1>10. Distinct(e.spool)
  <2>1. ASSUME NEW i \in 1 .. s + 1, NEW j \in 1 .. s + 1,
               e.spool[i].id = e.spool[j].id, i # j, j \notin 1 .. s
        PROVE  FALSE
    <3>1. j = s + 1 /\ i \in 1 .. s
      BY <1>2, <1>5, <2>1
    <3>2. d.spool[i].id \in 1 .. a
      BY <1>2, <3>1 DEF Sound, Matched, Fits
    <3>3. d.spool[i].id = a + 1
      BY <1>1, <2>1, <3>1
    <3>4. QED
      BY <1>2, <3>2, <3>3
  <2>2. ASSUME NEW i \in 1 .. s, NEW j \in 1 .. s, e.spool[i].id = e.spool[j].id
        PROVE  i = j
    BY <1>1, <1>2, <2>2 DEF Sound, Matched, Distinct
  <2>3. QED
    BY <1>3, <2>1, <2>2 DEF Distinct
<1>11. Spaced(e.announcements)
  <2>1. ASSUME NEW i \in 1 .. a, NEW j \in 1 .. a, i < j,
               e.announcements[i].user = e.announcements[j].user
        PROVE  e.announcements[j].at - e.announcements[i].at >= CoolDown
    BY <1>1, <1>2, <2>1 DEF Sound, Spaced
  <2>2. ASSUME NEW i \in 1 .. a, e.announcements[i].user = u
        PROVE  clock - e.announcements[i].at >= CoolDown
    BY <1>1, <1>2, <1>6, <2>2 DEF CoolingDown, CoolDown
  <2>3. ASSUME NEW i \in 1 .. a + 1, NEW j \in 1 .. a + 1, i < j,
               e.announcements[i].user = e.announcements[j].user
        PROVE  e.announcements[j].at - e.announcements[i].at >= CoolDown
    <3>1. i \in 1 .. a
      BY <1>2, <2>3
    <3>2. CASE j \in 1 .. a
      BY <2>1, <2>3, <3>1, <3>2
    <3>3. CASE j \notin 1 .. a
      <4>1. j = a + 1
        BY <1>4, <3>3
      <4>2. QED
        BY <1>1, <2>2, <2>3, <3>1, <4>1
    <3>4. QED
      BY <3>2, <3>3
  <2>4. QED
    BY <1>3, <2>3 DEF Spaced
<1>12. QED
  BY <1>7, <1>8, <1>9, <1>10, <1>11 DEF Sound, Matched

\* A task that is spliced out takes nothing with it.
LEMMA ExpiredSound ==
  ASSUME NEW d \in Databases, NEW i \in 1 .. Len(d.spool), NEW n, NEW now,
         Sound(d, n, now), NEW e, e = Expired(d, i)
  PROVE  Sound(e, n, now)
<1> DEFINE s == Len(d.spool)
           At(j) == IF j < i THEN j ELSE j + 1
<1>1. /\ e \in Databases
      /\ e.good = d.good /\ e.bad = d.bad /\ e.total = d.total
      /\ e.tokens = d.tokens /\ e.announcements = d.announcements
      /\ Len(e.spool) = s - 1
      /\ \A j \in 1 .. s - 1 : e.spool[j] = IF j < i THEN d.spool[j]
                                                      ELSE d.spool[j + 1]
  BY ExpiredFields
<1>2. s \in Nat /\ DOMAIN d.spool = 1 .. s /\ DOMAIN e.spool = 1 .. s - 1
  BY <1>1, Indices
<1>3. ASSUME NEW j \in 1 .. s - 1
      PROVE  At(j) \in 1 .. s /\ e.spool[j] = d.spool[At(j)]
  <2>1. s \in Nat
    BY <1>2
  <2>2. At(j) \in 1 .. s
    BY <2>1
  <2>3. e.spool[j] = IF j < i THEN d.spool[j] ELSE d.spool[j + 1]
    BY <1>1
  <2>4. e.spool[j] = d.spool[At(j)]
    BY <2>3
  <2>5. QED
    BY <2>2, <2>4
<1>4. ASSUME NEW j \in 1 .. s - 1, NEW k \in 1 .. s - 1, At(j) = At(k)
      PROVE  j = k
  BY <1>2, <1>4
<1> HIDE DEF At, s
<1>5. ASSUME NEW j \in DOMAIN e.spool PROVE Fits(e.spool[j], e)
  <2>1. At(j) \in DOMAIN d.spool /\ e.spool[j] = d.spool[At(j)]
    BY <1>2, <1>3
  <2>2. Fits(d.spool[At(j)], d)
    BY <2>1 DEF Sound, Matched
  <2>3. QED
    BY <1>1, <2>1, <2>2 DEF Fits
<1>6. ASSUME NEW j \in DOMAIN e.spool, NEW k \in DOMAIN e.spool,
             e.spool[j].id = e.spool[k].id
      PROVE  j = k
  <2>1. /\ At(j) \in DOMAIN d.spool /\ e.spool[j] = d.spool[At(j)]
        /\ At(k) \in DOMAIN d.spool /\ e.spool[k] = d.spool[At(k)]
    BY <1>2, <1>3
  <2>2. At(j) = At(k)
    BY <1>6, <2>1 DEF Sound, Matched, Distinct
  <2>3. QED
    BY <1>2, <1>4, <2>2
<1>7. Matched(e)
  BY <1>5, <1>6 DEF Matched, Distinct
<1>8. Dated(e, n, now) /\ Conserved(e) /\ Spaced(e.announcements)
  BY <1>1 DEF Sound, Dated, Conserved
<1>9. QED
  BY <1>7, <1>8 DEF Sound

\* A broadcast adds two tokens for every mail, and counts it.
LEMMA BroadcastSound ==
  ASSUME NEW d \in Databases, NEW i \in 1 .. Len(d.spool), NEW now,
         NEW rcpt \in SUBSET Users, IsFiniteSet(rcpt),
         NEW m \in Nat, m = Len(sent),
         NEW n \in Nat, n = Cardinality(rcpt), Sound(d, m, now),
         NEW e, e = WithBroadcast(d, i, rcpt)
  PROVE  Sound(e, m + n, now)
<1> DEFINE s == Len(d.spool)
<1>1. PICK author : author = d.announcements[d.spool[i].id].user
  OBVIOUS
<1>2. author \in Users /\ \A j \in 1 .. s :
        d.announcements[d.spool[j].id].user \in Users
  <2>1. \A j \in 1 .. s : d.announcements[d.spool[j].id] \in Announcements
    BY Indices DEF Sound, Matched, Fits
  <2>2. QED
    BY <1>1, <2>1 DEF Announcements
<1>3. PICK new : new = LinksOf(author, m, n)
  OBVIOUS
<1>4. /\ e \in Databases
      /\ e.good = d.good /\ e.bad = d.bad
      /\ e.tokens = d.tokens \union new
      /\ e.total = [d.total EXCEPT ![author] = @ + n]
      /\ e.announcements = d.announcements
      /\ Len(e.spool) = s
      /\ \A j \in 1 .. s : e.spool[j].id = d.spool[j].id
      /\ \A j \in 1 .. s : e.spool[j].users
           = IF j = i THEN d.spool[j].users \union rcpt ELSE d.spool[j].users
  <2>1. Broadcasts(d, i, rcpt, author, Len(sent), Cardinality(rcpt), e)
    BY <1>1, <1>2, BroadcastFields
  <2>2. Broadcasts(d, i, rcpt, author, m, n, e)
    BY <2>1
  <2>3. QED
    BY <1>3, <2>2 DEF Broadcasts
<1>5. /\ IsFiniteSet(new) /\ Cardinality(new) = 2 * n
      /\ \A t \in new : t.mail \in m + 1 .. m + n /\ t.user = author
  BY <1>3, NewTokens
<1>6. s \in Nat /\ DOMAIN d.spool = 1 .. s /\ DOMAIN e.spool = 1 .. s
  BY <1>4, Indices
<1> HIDE DEF s
<1>7. \A t \in d.tokens : t.mail \in Nat /\ t.mail <= m
  BY DEF Databases, Tokens, Sound, Dated
<1>8. Dated(e, m + n, now)
  <2>1. IsFiniteSet(e.tokens)
    <3>1. IsFiniteSet(d.tokens)
      BY DEF Sound, Dated
    <3>2. IsFiniteSet(d.tokens \union new)
      BY <1>5, <3>1, FS_Union
    <3>3. QED
      BY <1>4, <3>2
  <2>2. \A t \in e.tokens : t.mail <= m + n
    BY <1>4, <1>5, <1>7
  <2>3. QED
    BY <1>4, <2>1, <2>2 DEF Sound, Dated
<1>9. ASSUME NEW u \in Users
      PROVE  e.good[u] + e.bad[u] + Cardinality(Of(e.tokens, u))
               = Empty.good[u] + 2 * e.total[u]
  <2>1. IsFiniteSet(Of(d.tokens, u)) /\ Cardinality(Of(d.tokens, u)) \in Nat
    BY FiniteOf DEF Sound, Dated
  <2>2. d.good[u] + d.bad[u] + Cardinality(Of(d.tokens, u))
          = Empty.good[u] + 2 * d.total[u]
    BY DEF Sound, Conserved
  <2>3. /\ d.good[u] \in Nat /\ d.bad[u] \in Nat /\ d.total[u] \in Nat
        /\ d.total \in [Users -> Nat]
    BY DEF Databases
  <2>4. CASE u = author
    <3>1. Of(e.tokens, u) = Of(d.tokens, u) \union new
      BY <1>4, <1>5, <2>4 DEF Of
    <3>2. Of(d.tokens, u) \cap new = {}
      BY <1>5, <1>7 DEF Of
    <3>3. Cardinality(Of(d.tokens, u) \union new)
            = Cardinality(Of(d.tokens, u)) + Cardinality(new)
                - Cardinality(Of(d.tokens, u) \cap new)
      BY <1>5, <2>1, FS_Union
    <3>4. Cardinality(Of(d.tokens, u) \cap new) = 0
      BY <3>2, FS_EmptySet
    <3>5. Cardinality(Of(e.tokens, u)) = Cardinality(Of(d.tokens, u)) + 2 * n
      BY <1>5, <2>1, <3>1, <3>3, <3>4
    <3>6. e.total[u] = d.total[u] + n
      BY <1>4, <2>3, <2>4
    <3>7. e.good[u] = d.good[u] /\ e.bad[u] = d.bad[u]
      BY <1>4
    <3>8. Empty.good[u] \in Nat
      BY AnnounceAssumption DEF Empty
    <3>9. d.good[u] + d.bad[u] + (Cardinality(Of(d.tokens, u)) + 2 * n)
            = Empty.good[u] + 2 * (d.total[u] + n)
      <4>1. PICK good \in Nat, bad \in Nat, c \in Nat, total \in Nat, start \in Nat :
              /\ good = d.good[u] /\ bad = d.bad[u]
              /\ c = Cardinality(Of(d.tokens, u))
              /\ total = d.total[u] /\ start = Empty.good[u]
        BY <2>1, <2>3, <3>8
      <4>2. good + bad + c = start + 2 * total
        BY <2>2, <4>1
      <4>3. \A k \in Nat : good + bad + (c + 2 * k) = start + 2 * (total + k)
        BY <4>2
      <4>4. QED
        BY <4>1, <4>3
    <3>10. QED
      BY <3>5, <3>6, <3>7, <3>9
  <2>5. CASE u # author
    <3>1. Of(e.tokens, u) = Of(d.tokens, u)
      BY <1>4, <1>5, <2>5 DEF Of
    <3>2. e.total[u] = d.total[u]
      BY <1>4, <2>3, <2>5
    <3>3. QED
      BY <1>4, <2>2, <3>1, <3>2
  <2>6. QED
    BY <2>4, <2>5
<1>10. \A u \in Users : d.total[u] <= e.total[u]
  BY <1>4 DEF Databases
<1>11. ASSUME NEW j \in DOMAIN e.spool PROVE Fits(e.spool[j], e)
  <2>1. PICK a : a = d.announcements[d.spool[j].id].user
    OBVIOUS
  <2>2. j \in 1 .. s /\ a \in Users
    BY <1>2, <1>6, <2>1
  <2>3. /\ d.spool[j].id \in DOMAIN d.announcements /\ a \in d.spool[j].users
        /\ Cardinality(d.spool[j].users) - 1 <= d.total[a]
    BY <1>6, <2>1 DEF Sound, Matched, Fits
  <2>4. /\ e.spool[j].id = d.spool[j].id
        /\ e.announcements[e.spool[j].id].user = a
        /\ e.spool[j].id \in DOMAIN e.announcements
    BY <1>4, <2>1, <2>2, <2>3
  <2>5. /\ d.spool[j].users \subseteq Users /\ IsFiniteSet(d.spool[j].users)
        /\ Cardinality(d.spool[j].users) \in Nat
    <3>1. d.spool[j].users \in SUBSET Users
      BY <2>2, Indices DEF Queued, s
    <3>2. QED
      BY <3>1, AnnounceAssumption, FS_Subset, FS_CardinalityType
  <2>6. d.total[a] \in Nat /\ e.total[a] \in Nat
    BY <1>4, <2>2 DEF Databases
  <2>7. CASE j = i
    <3>1. e.spool[j].users = d.spool[j].users \union rcpt /\ a = author
      BY <1>1, <1>4, <2>1, <2>2, <2>7
    <3>2. IsFiniteSet(d.spool[j].users \cap rcpt)
      BY <2>5, FS_Intersection
    <3>3. Cardinality(d.spool[j].users \cap rcpt) \in Nat
      BY <3>2, FS_CardinalityType
    <3>4. Cardinality(d.spool[j].users \union rcpt)
            = Cardinality(d.spool[j].users) + Cardinality(rcpt)
                - Cardinality(d.spool[j].users \cap rcpt)
      BY <2>5, FS_Union
    <3>5. Cardinality(e.spool[j].users) <= Cardinality(d.spool[j].users) + n
      BY <2>5, <3>1, <3>3, <3>4
    <3>6. Cardinality(e.spool[j].users) \in Int
      BY <2>5, <3>1, <3>3, <3>4
    <3>7. e.total[a] = d.total[a] + n
      BY <1>2, <1>4, <3>1 DEF Databases
    <3>8. Cardinality(e.spool[j].users) - 1 <= e.total[a]
      BY <2>3, <2>5, <2>6, <3>5, <3>6, <3>7
    <3>9. QED
      BY <2>3, <2>4, <3>1, <3>8 DEF Fits
  <2>8. CASE j # i
    <3>1. e.spool[j].users = d.spool[j].users
      BY <1>4, <2>2, <2>8
    <3>2. Cardinality(e.spool[j].users) - 1 <= e.total[a]
      BY <1>10, <2>2, <2>3, <2>5, <2>6, <3>1
    <3>3. QED
      BY <2>3, <2>4, <3>1, <3>2 DEF Fits
  <2>9. QED
    BY <2>7, <2>8
<1>12. Distinct(e.spool)
  BY <1>4, <1>6 DEF Sound, Matched, Distinct
<1>13. Spaced(e.announcements)
  BY <1>4 DEF Sound
<1>14. QED
  BY <1>8, <1>9, <1>11, <1>12, <1>13 DEF Sound, Conserved, Matched

\* Age is in none of the properties.
LEMMA OlderSound ==
  ASSUME NEW d \in Databases, NEW i \in 1 .. Len(d.spool), NEW score \in Scores,
         d.spool[i].ttl > 0, NEW n, NEW now, Sound(d, n, now),
         NEW e, e = Older(d, i, score)
  PROVE  Sound(e, n, now)
<1>1. /\ e \in Databases
      /\ e.good = d.good /\ e.bad = d.bad /\ e.total = d.total
      /\ e.tokens = d.tokens /\ e.announcements = d.announcements
      /\ Len(e.spool) = Len(d.spool)
      /\ \A j \in 1 .. Len(d.spool) : /\ e.spool[j].id = d.spool[j].id
                                      /\ e.spool[j].users = d.spool[j].users
  BY OlderFields
<1>2. /\ DOMAIN d.spool = 1 .. Len(d.spool)
      /\ DOMAIN e.spool = 1 .. Len(d.spool)
  BY <1>1, Indices
<1>3. Dated(e, n, now) /\ Conserved(e) /\ Spaced(e.announcements)
  BY <1>1 DEF Sound, Dated, Conserved
<1>4. ASSUME NEW j \in DOMAIN e.spool PROVE Fits(e.spool[j], e)
  <2>1. Fits(d.spool[j], d)
    BY <1>2 DEF Sound, Matched
  <2>2. /\ e.spool[j].id = d.spool[j].id
        /\ e.spool[j].users = d.spool[j].users
    BY <1>1, <1>2
  <2>3. QED
    BY <1>1, <2>1, <2>2 DEF Fits
<1>5. Distinct(e.spool)
  <2>1. Distinct(d.spool)
    BY DEF Sound, Matched
  <2>2. QED
    BY <1>1, <1>2, <2>1 DEF Distinct
<1>6. QED
  BY <1>3, <1>4, <1>5 DEF Sound, Matched
-----------------------------------------------------------------------------
\* The mails of a broadcast.

\* A finite set as a sequence: each element at one place.
LEMMA Listed ==
  ASSUME NEW S, IsFiniteSet(S)
  PROVE  /\ SetToSeq(S) \in [1 .. Cardinality(S) -> S]
         /\ \A j, k \in 1 .. Cardinality(S) :
              SetToSeq(S)[j] = SetToSeq(S)[k] => j = k
<1>1. ExistsBijection(1 .. Cardinality(S), S)
  BY FS_CardinalityType
<1>2. PICK f \in [1 .. Cardinality(S) -> S] : IsInjective(f)
  BY <1>1 DEF ExistsBijection, Bijection, Injection
<1>3. SetToSeq(S) \in [1 .. Cardinality(S) -> S] /\ IsInjective(SetToSeq(S))
  BY <1>2, Zenon DEF SetToSeq
<1>4. QED
  BY <1>3 DEF IsInjective

\* What leaves when the task at index i of d is broadcast to rcpt.
Mailed(d, i, rcpt, failed) ==
  [k \in 1 .. Cardinality(rcpt) |-> Mail(d, d.spool[i], SetToSeq(rcpt)[k], failed)]

\* A mail is a mail.
LEMMA MailIsLetter ==
  ASSUME NEW d \in Databases, NEW task \in Queued, NEW to \in Users,
         task.id \in DOMAIN d.announcements, NEW failed
  PROVE  /\ Mail(d, task, to, failed) \in Letters
         /\ Mail(d, task, to, failed).id = task.id /\ Mail(d, task, to, failed).to = to
         /\ Mail(d, task, to, failed).user = d.announcements[task.id].user
<1> DEFINE a == d.announcements[task.id]
           rise == ScoreOf(d, a.user) - task.score
           wanted == d.topics[to] \cap a.topics # {}
           left == to \notin failed
<1>1. a.user \in Users
  BY Indices DEF Announcements
<1>2. task.id \in Nat \ {0} /\ task.ttl \in Nat /\ task.score \in Scores
  BY DEF Queued
<1>3. ScoreOf(d, a.user) \in Scores
  BY <1>1, ScoreIsScore
<1>4. ASSUME NEW x \in Scores, NEW y \in Scores
      PROVE  x - y \in Rises
  <2>1. x - y \in {a1 - y : a1 \in Scores}
    BY Zenon
  <2>2. {a1 - y : a1 \in Scores} \in {{a1 - b1 : a1 \in Scores} : b1 \in Scores}
    BY Zenon
  <2>3. QED
    BY <2>1, <2>2, Zenon DEF Rises
<1>5. rise \in Rises
  BY <1>2, <1>3, <1>4
<1>6. wanted \in BOOLEAN /\ left \in BOOLEAN
  OBVIOUS
<1>7. Mail(d, task, to, failed) = [id |-> task.id, user |-> a.user, to |-> to,
                                   left |-> left, ttl |-> task.ttl,
                                   rise |-> rise, wanted |-> wanted]
  BY DEF Mail
<1> HIDE DEF a, rise, wanted, left
<1>8. Mail(d, task, to, failed) \in Letters
  <2>1. [id |-> task.id, user |-> a.user, to |-> to, left |-> left,
         ttl |-> task.ttl, rise |-> rise, wanted |-> wanted] \in Letters
    <3>1. PICK w \in BOOLEAN, v \in BOOLEAN : w = wanted /\ v = left
      BY <1>6
    <3>2. PICK r \in Rises : r = rise
      BY <1>5
    <3>3. PICK k \in Nat \ {0}, l \in Nat : k = task.id /\ l = task.ttl
      BY <1>2
    <3>4. [id |-> k, user |-> a.user, to |-> to, left |-> v, ttl |-> l,
           rise |-> r, wanted |-> w] \in Letters
      BY <1>1, Zenon DEF Letters
    <3>5. QED
      BY <3>1, <3>2, <3>3, <3>4, Zenon
  <2>2. QED
    BY <1>7, <2>1
<1>9. /\ Mail(d, task, to, failed).id = task.id /\ Mail(d, task, to, failed).to = to
      /\ Mail(d, task, to, failed).user = a.user
  BY <1>7
<1>10. QED
  BY <1>8, <1>9 DEF a

\* The mails of a broadcast go to its recipients, one to each.
LEMMA MailedFacts ==
  ASSUME NEW d \in Databases, NEW i \in 1 .. Len(d.spool),
         NEW rcpt \in SUBSET Users, IsFiniteSet(rcpt),
         d.spool[i].id \in DOMAIN d.announcements, NEW failed
  PROVE  /\ Mailed(d, i, rcpt, failed) \in Seq(Letters)
         /\ Len(Mailed(d, i, rcpt, failed)) = Cardinality(rcpt)
         /\ \A k \in 1 .. Cardinality(rcpt) :
              /\ Mailed(d, i, rcpt, failed)[k].id = d.spool[i].id
              /\ Mailed(d, i, rcpt, failed)[k].user
                   = d.announcements[d.spool[i].id].user
              /\ Mailed(d, i, rcpt, failed)[k].to \in rcpt
         /\ \A j, k \in 1 .. Cardinality(rcpt) :
              Mailed(d, i, rcpt, failed)[j].to = Mailed(d, i, rcpt, failed)[k].to => j = k
<1> DEFINE n == Cardinality(rcpt)
<1>1. n \in Nat
  BY FS_CardinalityType
<1>2. d.spool[i] \in Queued
  BY Indices
<1>3. /\ \A k \in 1 .. n : SetToSeq(rcpt)[k] \in rcpt
      /\ \A j, k \in 1 .. n : SetToSeq(rcpt)[j] = SetToSeq(rcpt)[k] => j = k
  BY Listed
<1>4. ASSUME NEW k \in 1 .. n
      PROVE  /\ Mailed(d, i, rcpt, failed)[k] \in Letters
             /\ Mailed(d, i, rcpt, failed)[k].id = d.spool[i].id
             /\ Mailed(d, i, rcpt, failed)[k].to = SetToSeq(rcpt)[k]
             /\ Mailed(d, i, rcpt, failed)[k].user
                  = d.announcements[d.spool[i].id].user
  <2>1. SetToSeq(rcpt)[k] \in Users
    BY <1>3
  <2>2. Mailed(d, i, rcpt, failed)[k] = Mail(d, d.spool[i], SetToSeq(rcpt)[k], failed)
    BY DEF Mailed
  <2>3. QED
    BY <1>2, <2>1, <2>2, MailIsLetter
<1>5. DOMAIN Mailed(d, i, rcpt, failed) = 1 .. n
      /\ Mailed(d, i, rcpt, failed) = [k \in 1 .. n |-> Mailed(d, i, rcpt, failed)[k]]
  BY DEF Mailed
<1> HIDE DEF n
<1>6. Mailed(d, i, rcpt, failed) \in [1 .. n -> Letters]
  BY <1>4, <1>5
<1>7. Mailed(d, i, rcpt, failed) \in Seq(Letters) /\ Len(Mailed(d, i, rcpt, failed)) = n
  BY <1>1, <1>5, <1>6
<1>8. QED
  BY <1>3, <1>4, <1>7 DEF n

\* They are as many as its recipients.
LEMMA MailedLength ==
  ASSUME NEW d \in Databases, NEW i \in 1 .. Len(d.spool),
         NEW rcpt \in SUBSET Users, IsFiniteSet(rcpt),
         d.spool[i].id \in DOMAIN d.announcements, NEW failed
  PROVE  /\ Mailed(d, i, rcpt, failed) \in Seq(Letters)
         /\ Len(Mailed(d, i, rcpt, failed)) = Cardinality(rcpt)
BY MailedFacts

\* What an age and maybe a broadcast of the task at index i do.
MailStep(p, d, i, score, rcpt, failed) ==
  \/ /\ db' = [db EXCEPT ![p] = Older(WithBroadcast(d, i, rcpt), i, score)]
     /\ sent' = sent \o Mailed(d, i, rcpt, failed)
  \/ /\ db' = [db EXCEPT ![p] = Older(d, i, score)]
     /\ UNCHANGED sent

\* MailTask in these words.
LEMMA MailTaskSteps ==
  ASSUME NEW p \in Procs, MailTask(p), NEW d, d = db[p], NEW i, i = cursor[p]
  PROVE  /\ pc[p] = "dispatch" /\ i <= Len(d.spool) /\ d.spool[i].ttl > 0
         /\ cursor' = [cursor EXCEPT ![p] = i + 1]
         /\ UNCHANGED <<file, lockFile, pc, job, dirty, held, clock, votes,
                        promised, web, kills, faults>>
         /\ \E rcpt \in Samples(d, d.spool[i]) : \E failed \in SUBSET rcpt :
              MailStep(p, d, i, ScoreOf(d, d.announcements[d.spool[i].id].user),
                       rcpt, failed)
<1>1. /\ pc[p] = "dispatch" /\ i <= Len(d.spool) /\ d.spool[i].ttl > 0
      /\ cursor' = [cursor EXCEPT ![p] = i + 1]
      /\ UNCHANGED <<file, lockFile, pc, job, dirty, held, clock, votes,
                     promised, web, kills, faults>>
  BY Zenon DEF MailTask
<1>2. \E rcpt \in Samples(d, d.spool[i]) : \E failed \in SUBSET rcpt :
        MailStep(p, d, i, ScoreOf(d, d.announcements[d.spool[i].id].user),
                 rcpt, failed)
  BY Zenon DEF MailTask, MailStep, Older, Mailed
<1>3. QED
  BY <1>1, <1>2, Zenon
-----------------------------------------------------------------------------
\* Every copy and the file are sound, whoever overlaps and whatever fails.

\* A request is a job.
LEMMA RequestIsJob ==
  ASSUME NEW q \in Requests PROVE q \in Jobs
<1>1. CASE q \in {[kind |-> "view"], [kind |-> "unknown"]}
  BY <1>1 DEF Jobs
<1>2. CASE q \in [kind : {"announce"}, user : Authors,
                  topics : SUBSET Topics \ {{}}]
  BY <1>2, AnnounceAssumption DEF Jobs
<1>3. CASE q \in [kind : {"save_topics"}, user : Authors, topics : SUBSET Topics]
  BY <1>3, AnnounceAssumption DEF Jobs
<1>4. CASE q \in [kind : {"vote"}, token : {t \in Token : /\ t.user = sent[t.mail].user
                                                       /\ sent[t.mail].left}]
  <2>1. \A t \in Token : t \in Tokens
    <3>1. \A k \in 1 .. Len(sent) : k \in Nat
      OBVIOUS
    <3>2. QED
      BY <3>1, Zenon DEF Token, Tokens
  <2>2. QED
    BY <1>4, <2>1, Zenon DEF Jobs
<1>5. QED
  BY <1>1, <1>2, <1>3, <1>4, Zenon DEF Requests

\* The database nobody used yet is sound.
LEMMA EmptySound ==
  ASSUME NEW n \in Nat, NEW now \in Nat
  PROVE  Empty \in Databases /\ Sound(Empty, n, now)
<1>1. /\ Empty.tokens = {} /\ Empty.announcements = <<>> /\ Empty.spool = <<>>
      /\ \A u \in Users : /\ Empty.good[u] \in Nat /\ Empty.bad[u] = 0
                          /\ Empty.total[u] = 0
  BY AnnounceAssumption DEF Empty
<1>2. Empty \in Databases
  <2>1. <<>> \in Seq(Announcements) /\ <<>> \in Seq(Queued)
    BY EmptySeq
  <2>2. [u \in Users |-> IF u \in Authors THEN StartGood ELSE 0] \in [Users -> Nat]
    BY AnnounceAssumption
  <2>3. [u \in Users |-> {"general"}] \in [Users -> SUBSET Topics]
    BY AnnounceAssumption
  <2>4. QED
    BY <2>1, <2>2, <2>3 DEF Empty, Databases
<1>3. DOMAIN Empty.announcements = {} /\ DOMAIN Empty.spool = {}
  BY <1>1
<1>4. Dated(Empty, n, now)
  BY <1>1, <1>3, FS_EmptySet DEF Dated
<1>5. Conserved(Empty)
  <2>1. \A u : Of(Empty.tokens, u) = {}
    BY <1>1 DEF Of
  <2>2. \A u : Cardinality(Of(Empty.tokens, u)) = 0
    BY <2>1, FS_EmptySet
  <2>3. QED
    BY <1>1, <2>2 DEF Conserved
<1>6. Matched(Empty) /\ Spaced(Empty.announcements)
  BY <1>3 DEF Matched, Distinct, Spaced
<1>7. QED
  BY <1>2, <1>4, <1>5, <1>6 DEF Sound

\* The invariant holds at the start.
LEMMA InvInit == Init => Inv
<1> SUFFICES ASSUME Init PROVE Inv
  OBVIOUS
<1>1. clock \in Nat /\ sent \in Seq(Letters) /\ Len(sent) \in Nat
  BY EmptySeq DEF Init
<1>2. Empty \in Databases /\ Sound(Empty, Len(sent), clock)
  BY <1>1, EmptySound
<1>3. file = Empty /\ \A p \in Procs : db[p] = Empty
  BY DEF Init
<1>4. Shape
  <2>1. job \in [Procs -> Jobs]
    BY DEF Init, NoTask, Jobs
  <2>2. pc \in [Procs -> Steps] /\ cursor \in [Procs -> Nat \ {0}]
    BY DEF Init, Steps
  <2>3. db \in [Procs -> Databases]
    BY <1>2 DEF Init
  <2>4. QED
    BY <1>1, <1>2, <1>3, <2>1, <2>2, <2>3 DEF Shape
<1>5. QED
  BY <1>2, <1>3, <1>4 DEF Inv

\* What is sound stays so while mails leave and time passes.
LEMMA StillSound ==
  ASSUME Inv, sent' \in Seq(Letters), Len(sent) <= Len(sent'),
         clock' \in Nat, clock <= clock'
  PROVE  /\ file # Torn => Sound(file, Len(sent'), clock')
         /\ \A p \in Procs : Sound(db[p], Len(sent'), clock')
<1>1. Len(sent) \in Nat /\ Len(sent') \in Nat /\ clock \in Nat
  BY LenProperties DEF Inv, Shape
<1>2. /\ file # Torn => file \in Databases /\ Sound(file, Len(sent), clock)
      /\ \A p \in Procs : db[p] \in Databases /\ Sound(db[p], Len(sent), clock)
  BY DEF Inv, Shape
<1>3. QED
  BY <1>1, <1>2, SoundStays

\* A step that leaves everything but one copy, or nothing but it.
LEMMA OneCopy ==
  ASSUME Inv, NEW p \in Procs, NEW e \in Databases,
         db' = [db EXCEPT ![p] = e], Sound(e, Len(sent'), clock'),
         sent' \in Seq(Letters), Len(sent) <= Len(sent'),
         UNCHANGED <<file, clock>>,
         pc' \in [Procs -> Steps], job' \in [Procs -> Jobs],
         cursor' \in [Procs -> Nat \ {0}]
  PROVE  Inv'
<1>1. clock \in Nat /\ db \in [Procs -> Databases]
  BY DEF Inv, Shape
<1>2. /\ file # Torn => Sound(file, Len(sent'), clock')
      /\ \A q \in Procs : Sound(db[q], Len(sent'), clock')
  BY <1>1, StillSound
<1>3. Shape'
  BY <1>1 DEF Inv, Shape
<1>4. \A q \in Procs : db'[q] = IF q = p THEN e ELSE db[q]
  BY <1>1
<1>5. \A q \in Procs : Sound(db'[q], Len(sent'), clock')
  BY <1>2, <1>4
<1>6. QED
  BY <1>2, <1>3, <1>5 DEF Inv

\* A step that changes neither a copy nor the file nor the world.
LEMMA NoCopy ==
  ASSUME Inv, UNCHANGED <<file, db, sent>>,
         clock' \in Nat, clock <= clock',
         pc' \in [Procs -> Steps], job' \in [Procs -> Jobs],
         cursor' \in [Procs -> Nat \ {0}]
  PROVE  Inv'
<1>1. sent \in Seq(Letters) /\ Len(sent) <= Len(sent)
  BY LenProperties DEF Inv, Shape
<1>2. /\ file # Torn => Sound(file, Len(sent'), clock')
      /\ \A q \in Procs : Sound(db[q], Len(sent'), clock')
  BY <1>1, StillSound
<1>3. Shape'
  BY DEF Inv, Shape
<1>4. QED
  BY <1>2, <1>3 DEF Inv

\* Two lengths, in the forms the two kinds of step give.
LEMMA NotShorter ==
  ASSUME NEW m \in Nat, NEW k, NEW n, k = m \/ (n \in Nat /\ k = m + n)
  PROVE  m <= k
OBVIOUS

\* A mail step, from a copy that is sound to one that is.
LEMMA MailSound ==
  ASSUME Inv, NEW p \in Procs, NEW i \in 1 .. Len(db[p].spool),
         db[p].spool[i].ttl > 0, NEW rcpt \in Samples(db[p], db[p].spool[i]),
         NEW d, d = db[p], NEW score,
         score = ScoreOf(d, d.announcements[d.spool[i].id].user),
         NEW failed, MailStep(p, d, i, score, rcpt, failed)
  PROVE  /\ sent' \in Seq(Letters) /\ Len(sent) <= Len(sent')
         /\ \E e \in Databases : /\ db' = [db EXCEPT ![p] = e]
                                 /\ Sound(e, Len(sent'), clock)
<1>1. /\ d \in Databases /\ Sound(d, Len(sent), clock) /\ sent \in Seq(Letters)
      /\ i \in 1 .. Len(d.spool)
  BY DEF Inv, Shape
<1>0. d.spool[i].ttl > 0
  OBVIOUS
<1>2. Len(sent) \in Nat
  BY <1>1, LenProperties
<1>3. rcpt \in SUBSET Users /\ IsFiniteSet(rcpt) /\ Cardinality(rcpt) \in Nat
  BY SampleFacts
<1>4. d.spool[i].id \in DOMAIN d.announcements
  BY <1>1, Indices DEF Sound, Matched, Fits
<1>5. PICK author : author = d.announcements[d.spool[i].id].user
  OBVIOUS
<1>6. author \in Users
  BY <1>1, <1>4, <1>5, Indices DEF Announcements
<1>7. score \in Scores
  BY <1>1, <1>5, <1>6, ScoreIsScore
<1>8. CASE db' = [db EXCEPT ![p] = Older(d, i, score)] /\ UNCHANGED sent
  <2>1. PICK e : e = Older(d, i, score)
    OBVIOUS
  <2>2. e \in Databases
    BY <1>0, <1>1, <1>7, <2>1, OlderFields
  <2>3. Sound(e, Len(sent), clock)
    BY <1>0, <1>1, <1>7, <2>1, OlderSound
  <2>4. sent' = sent /\ db' = [db EXCEPT ![p] = e]
    BY <1>8, <2>1
  <2>5. Sound(e, Len(sent'), clock)
    BY <2>3, <2>4
  <2>6. sent' \in Seq(Letters) /\ Len(sent) <= Len(sent')
    <3>1. sent' \in Seq(Letters) /\ Len(sent') = Len(sent)
      BY <1>1, <2>4, Zenon
    <3>2. QED
      BY <1>2, <3>1, NotShorter
  <2>7. QED
    BY <2>2, <2>4, <2>5, <2>6, Zenon
<1>9. CASE /\ db' = [db EXCEPT ![p] = Older(WithBroadcast(d, i, rcpt), i, score)]
           /\ sent' = sent \o Mailed(d, i, rcpt, failed)
  <2>1. /\ sent' \in Seq(Letters)
        /\ Len(sent') = Len(sent) + Cardinality(rcpt)
    <3>1. /\ Mailed(d, i, rcpt, failed) \in Seq(Letters)
          /\ Len(Mailed(d, i, rcpt, failed)) = Cardinality(rcpt)
      BY <1>1, <1>3, <1>4, MailedLength
    <3>2. PICK new : new = Mailed(d, i, rcpt, failed)
      OBVIOUS
    <3>3. /\ sent \o new \in Seq(Letters)
          /\ Len(sent \o new) = Len(sent) + Len(new)
      BY <1>1, <3>1, <3>2, ConcatProperties, Zenon
    <3>4. sent' = sent \o new
      BY <1>9, <3>2, Zenon
    <3>5. QED
      BY <3>1, <3>2, <3>3, <3>4, Zenon
  <2>2. PICK b : b = WithBroadcast(d, i, rcpt)
    OBVIOUS
  <2>3. Broadcasts(d, i, rcpt, author, Len(sent), Cardinality(rcpt), b)
    BY <1>1, <1>2, <1>3, <1>5, <1>6, <2>2, BroadcastFields
  <2>4. /\ b \in Databases /\ i \in 1 .. Len(b.spool) /\ b.spool[i].ttl > 0
    BY <1>1, <2>3 DEF Broadcasts
  <2>5. Sound(b, Len(sent) + Cardinality(rcpt), clock)
    BY <1>1, <1>2, <1>3, <2>2, BroadcastSound
  <2>6. PICK e : e = Older(b, i, score)
    OBVIOUS
  <2>7. e \in Databases
    BY <1>7, <2>4, <2>6, OlderFields
  <2>8. Sound(e, Len(sent) + Cardinality(rcpt), clock)
    BY <1>7, <2>4, <2>5, <2>6, OlderSound
  <2>9. db' = [db EXCEPT ![p] = e]
    BY <1>9, <2>2, <2>6
  <2>10. Sound(e, Len(sent'), clock)
    BY <2>1, <2>8
  <2>11. Len(sent) <= Len(sent')
    BY <1>2, <1>3, <2>1, NotShorter
  <2>12. QED
    BY <2>1, <2>7, <2>9, <2>10, <2>11, Zenon
<1>10. QED
  BY <1>8, <1>9 DEF MailStep

\* Every step keeps the invariant.
LEMMA InvStep == Inv /\ [Next]_vars => Inv'
<1> SUFFICES ASSUME Inv, [Next]_vars PROVE Inv'
  OBVIOUS
<1> USE DEF Goto
<1>0. /\ pc \in [Procs -> Steps] /\ job \in [Procs -> Jobs]
      /\ cursor \in [Procs -> Nat \ {0}] /\ clock \in Nat
      /\ sent \in Seq(Letters) /\ Len(sent) \in Nat /\ db \in [Procs -> Databases]
      /\ Len(sent) <= Len(sent)
  BY LenProperties DEF Inv, Shape
<1>00. /\ NoTask \in Jobs /\ [kind |-> "dispatch"] \in Jobs
       /\ Empty \in Databases /\ Sound(Empty, Len(sent), clock)
  BY <1>0, EmptySound DEF NoTask, Jobs
<1>1. ASSUME NEW p \in Procs, BeginWeb(p) PROVE Inv'
  <2>1. UNCHANGED <<file, cursor, clock, sent>>
    BY <1>1 DEF BeginWeb
  <2>2. CASE file = Torn
    <3>1. UNCHANGED <<pc, job, db>>
      BY <1>1, <2>2 DEF BeginWeb
    <3>2. QED
      BY <1>0, <2>1, <3>1, NoCopy
  <2>3. CASE file # Torn
    <3>1. PICK q \in Requests : /\ pc' = [pc EXCEPT ![p] = "lock"]
                                /\ job' = [job EXCEPT ![p] = q]
                                /\ db' = [db EXCEPT ![p] = file]
      BY <1>1, <2>3 DEF BeginWeb
    <3>2. q \in Jobs
      BY RequestIsJob
    <3>3. pc' \in [Procs -> Steps] /\ job' \in [Procs -> Jobs]
      BY <1>0, <3>1, <3>2 DEF Steps
    <3>4. file \in Databases /\ Sound(file, Len(sent), clock)
      BY <2>3 DEF Inv, Shape
    <3>5. QED
      BY <1>0, <2>1, <3>1, <3>3, <3>4, OneCopy
  <2>4. QED
    BY <2>2, <2>3
<1>2. ASSUME NEW p \in Procs, BeginDispatch(p) PROVE Inv'
  <2>1. /\ file # Torn /\ UNCHANGED <<file, clock, sent>>
        /\ pc' = [pc EXCEPT ![p] = "dispatch"]
        /\ job' = [job EXCEPT ![p] = [kind |-> "dispatch"]]
        /\ db' = [db EXCEPT ![p] = file]
        /\ cursor' = [cursor EXCEPT ![p] = 1]
    BY <1>2 DEF BeginDispatch
  <2>2. file \in Databases /\ Sound(file, Len(sent), clock)
    BY <2>1 DEF Inv, Shape
  <2>3. /\ pc' \in [Procs -> Steps] /\ job' \in [Procs -> Jobs]
        /\ cursor' \in [Procs -> Nat \ {0}]
    BY <1>0, <1>00, <2>1 DEF Steps
  <2>4. QED
    BY <1>0, <2>1, <2>2, <2>3, OneCopy
<1>3. ASSUME NEW p \in Procs, Lock(p) PROVE Inv'
  <2>1. /\ UNCHANGED <<file, job, db, cursor, clock, sent>>
        /\ pc' \in [Procs -> Steps]
    BY <1>0, <1>3 DEF Lock, Steps
  <2>2. QED
    BY <1>0, <2>1, NoCopy
<1>4. ASSUME NEW p \in Procs, HandleView(p) \/ HandleUnknown(p) PROVE Inv'
  <2>1. /\ UNCHANGED <<file, job, db, cursor, clock, sent>>
        /\ pc' \in [Procs -> Steps]
    BY <1>0, <1>4 DEF HandleView, HandleUnknown, Finish, Steps
  <2>2. QED
    BY <1>0, <2>1, NoCopy
<1>5. ASSUME NEW p \in Procs, HandleVote(p) PROVE Inv'
  <2>1. /\ UNCHANGED <<file, job, cursor, clock, sent>>
        /\ pc' \in [Procs -> Steps]
    BY <1>0, <1>5 DEF HandleVote, Finish, Steps
  <2>2. CASE job[p].token \in db[p].tokens
    <3>1. PICK e : e = WithVote(db[p], job[p].token)
      OBVIOUS
    <3>2. db' = [db EXCEPT ![p] = e]
      BY <1>5, <2>2, <3>1 DEF HandleVote
    <3>3. db[p] \in Databases /\ Sound(db[p], Len(sent), clock)
      BY DEF Inv, Shape
    <3>4. e \in Databases
      BY <2>2, <3>1, <3>3, VoteFields
    <3>5. Sound(e, Len(sent), clock)
      BY <1>0, <2>2, <3>1, <3>3, VoteSound
    <3>6. QED
      BY <1>0, <2>1, <3>2, <3>4, <3>5, OneCopy
  <2>3. CASE job[p].token \notin db[p].tokens
    <3>1. UNCHANGED db
      BY <1>5, <2>3 DEF HandleVote
    <3>2. QED
      BY <1>0, <2>1, <3>1, NoCopy
  <2>4. QED
    BY <2>2, <2>3
<1>6. ASSUME NEW p \in Procs, HandleAnnounce(p) PROVE Inv'
  <2>1. /\ UNCHANGED <<file, job, cursor, clock, sent>>
        /\ pc' \in [Procs -> Steps]
    BY <1>0, <1>6 DEF HandleAnnounce, Finish, Steps
  <2>2. job[p].user \in Users /\ job[p].topics \in SUBSET Topics
    BY <1>0, <1>6 DEF HandleAnnounce, Jobs
  <2>3. CASE CoolingDown(db[p], job[p].user)
    <3>1. UNCHANGED db
      BY <1>6, <2>3 DEF HandleAnnounce
    <3>2. QED
      BY <1>0, <2>1, <3>1, NoCopy
  <2>4. CASE ~CoolingDown(db[p], job[p].user)
    <3>1. PICK e : e = WithAnnouncement(db[p], job[p].user, job[p].topics)
      OBVIOUS
    <3>2. db' = [db EXCEPT ![p] = e]
      BY <1>6, <2>4, <3>1 DEF HandleAnnounce
    <3>3. db[p] \in Databases /\ Sound(db[p], Len(sent), clock)
      BY DEF Inv, Shape
    <3>4. e \in Databases
      BY <1>0, <2>2, <3>1, <3>3, AnnounceFields
    <3>5. Sound(e, Len(sent), clock)
      BY <1>0, <2>2, <2>4, <3>1, <3>3, AnnounceSound
    <3>6. QED
      BY <1>0, <2>1, <3>2, <3>4, <3>5, OneCopy
  <2>5. QED
    BY <2>3, <2>4
<1>7. ASSUME NEW p \in Procs, HandleSaveTopics(p) PROVE Inv'
  <2>1. /\ UNCHANGED <<file, job, cursor, clock, sent>>
        /\ pc' \in [Procs -> Steps]
    BY <1>0, <1>7 DEF HandleSaveTopics, Finish, Steps
  <2>2. job[p].user \in Users /\ job[p].topics \in SUBSET Topics
    BY <1>0, <1>7 DEF HandleSaveTopics, Jobs
  <2>3. PICK e : e = [db[p] EXCEPT !.topics[job[p].user] = job[p].topics]
    OBVIOUS
  <2>4. db' = [db EXCEPT ![p] = e]
    BY <1>0, <1>7, <2>3 DEF HandleSaveTopics
  <2>5. db[p] \in Databases /\ Sound(db[p], Len(sent), clock)
    BY DEF Inv, Shape
  <2>6. e \in Databases
    BY <2>2, <2>3, <2>5, TopicsFields
  <2>7. Sound(e, Len(sent), clock)
    BY <2>2, <2>3, <2>5, TopicsSound
  <2>8. QED
    BY <1>0, <2>1, <2>4, <2>6, <2>7, OneCopy
<1>8. ASSUME NEW p \in Procs, SkipExpired(p) PROVE Inv'
  <2>1. /\ UNCHANGED <<file, pc, job, clock, sent>>
        /\ cursor[p] \in 1 .. Len(db[p].spool)
        /\ cursor' \in [Procs -> Nat \ {0}]
    <3>1. Len(db[p].spool) \in Nat
      BY <1>0, Indices
    <3>2. QED
      BY <1>0, <1>8, <3>1 DEF SkipExpired
  <2>2. PICK e : e = Expired(db[p], cursor[p])
    OBVIOUS
  <2>3. db' = [db EXCEPT ![p] = e]
    BY <1>0, <1>8, <2>2 DEF SkipExpired, Expired
  <2>4. db[p] \in Databases /\ Sound(db[p], Len(sent), clock)
    BY DEF Inv, Shape
  <2>5. e \in Databases
    BY <2>1, <2>2, <2>4, ExpiredFields
  <2>6. Sound(e, Len(sent), clock)
    BY <2>1, <2>2, <2>4, ExpiredSound
  <2>7. QED
    BY <1>0, <2>1, <2>3, <2>5, <2>6, OneCopy
<1>9. ASSUME NEW p \in Procs, MailTask(p) PROVE Inv'
  <2>1. PICK d, i : d = db[p] /\ i = cursor[p]
    OBVIOUS
  <2>2. /\ i <= Len(d.spool) /\ d.spool[i].ttl > 0
        /\ cursor' = [cursor EXCEPT ![p] = i + 1]
        /\ UNCHANGED <<file, pc, job, clock>>
    BY <1>9, <2>1, MailTaskSteps
  <2>0. PICK rcpt \in Samples(d, d.spool[i]) : \E failed \in SUBSET rcpt :
          MailStep(p, d, i, ScoreOf(d, d.announcements[d.spool[i].id].user),
                   rcpt, failed)
    BY <1>9, <2>1, MailTaskSteps
  <2>3. PICK failed \in SUBSET rcpt :
          MailStep(p, d, i, ScoreOf(d, d.announcements[d.spool[i].id].user),
                   rcpt, failed)
    BY <2>0
  <2>4. Len(d.spool) \in Nat /\ i \in 1 .. Len(d.spool)
    BY <1>0, <2>1, <2>2, Indices
  <2>5. /\ sent' \in Seq(Letters) /\ Len(sent) <= Len(sent')
        /\ \E e \in Databases : /\ db' = [db EXCEPT ![p] = e]
                                /\ Sound(e, Len(sent'), clock)
    BY <2>1, <2>2, <2>3, <2>4, MailSound
  <2>6. PICK e \in Databases : /\ db' = [db EXCEPT ![p] = e]
                               /\ Sound(e, Len(sent'), clock)
    BY <2>5
  <2>7. cursor' \in [Procs -> Nat \ {0}]
    BY <1>0, <2>2, <2>4
  <2>8. QED
    BY <1>0, <2>2, <2>5, <2>6, <2>7, OneCopy
<1>10. ASSUME NEW p \in Procs, EndQueue(p) PROVE Inv'
  <2>1. /\ UNCHANGED <<file, job, db, cursor, clock, sent>>
        /\ pc' \in [Procs -> Steps]
    BY <1>0, <1>10 DEF EndQueue, Steps
  <2>2. QED
    BY <1>0, <2>1, NoCopy
<1>11. ASSUME NEW p \in Procs, Truncate(p) PROVE Inv'
  <2>1. /\ UNCHANGED <<job, db, cursor, clock, sent>> /\ file' = Torn
        /\ pc' \in [Procs -> Steps]
    BY <1>0, <1>11 DEF Truncate, Steps
  <2>2. QED
    BY <2>1 DEF Inv, Shape
<1>12. ASSUME NEW p \in Procs, Write(p) PROVE Inv'
  <2>1. /\ UNCHANGED <<job, db, cursor, clock, sent>> /\ file' = db[p]
        /\ pc' \in [Procs -> Steps]
    BY <1>0, <1>12 DEF Write, Steps
  <2>2. QED
    BY <1>0, <2>1 DEF Inv, Shape
<1>13. ASSUME NEW p \in Procs, WriteFails(p) PROVE Inv'
  <2>1. /\ UNCHANGED <<file, job, db, cursor, clock, sent>>
        /\ pc' \in [Procs -> Steps]
    BY <1>0, <1>13 DEF WriteFails, Steps
  <2>2. QED
    BY <1>0, <2>1, NoCopy
<1>14. ASSUME NEW p \in Procs, Unlock(p) \/ Exit(p) \/ Kill(p) PROVE Inv'
  <2>1. /\ UNCHANGED <<file, cursor, clock, sent>>
        /\ pc' \in [Procs -> Steps] /\ job' \in [Procs -> Jobs]
        /\ db' = [db EXCEPT ![p] = Empty]
    <3>1. CASE Unlock(p)
      BY <1>0, <1>00, <3>1 DEF Unlock, Steps
    <3>2. CASE Exit(p)
      BY <1>0, <1>00, <3>2 DEF Exit, Steps
    <3>3. CASE Kill(p)
      BY <1>0, <1>00, <3>3 DEF Kill, Steps
    <3>4. QED
      BY <1>14, <3>1, <3>2, <3>3
  <2>2. QED
    BY <1>0, <1>00, <2>1, OneCopy
<1>15. CASE Tick
  <2>1. /\ UNCHANGED <<file, pc, job, db, cursor, sent>>
        /\ clock' \in Nat /\ clock <= clock'
    BY <1>0, <1>15 DEF Tick
  <2>2. QED
    BY <1>0, <2>1, NoCopy
<1>16. CASE UNCHANGED vars
  <2>1. UNCHANGED <<file, pc, job, db, cursor, sent, clock>>
    BY <1>16 DEF vars
  <2>2. QED
    BY <1>0, <2>1, NoCopy
<1>17. QED
  BY <1>1, <1>2, <1>3, <1>4, <1>5, <1>6, <1>7, <1>8, <1>9, <1>10, <1>11, <1>12,
     <1>13, <1>14, <1>15, <1>16 DEF Next, Dispatch, Run, Rest

\* The invariant holds always.
LEMMA InvHolds == Spec => []Inv
BY InvInit, InvStep, PTL DEF Spec

\* Every mail gave its author two tokens, and each of them is either still valid
\* or was turned into one vote, whatever processes overlap, are killed or fail
\* to write (dispatch 30-31, lib.js 218-236, index.cgi 105-118).
THEOREM VotesConservedHolds == Spec => []VotesConserved
<1>1. Inv => VotesConserved
  BY DEF Inv, Sound, Conserved, Of, VotesConserved
<1>2. QED
  BY <1>1, InvHolds, PTL

\* A queued task belongs to an announcement, no two tasks to the same one, its
\* author counts as reached and the others are in the author's total (lib.js
\* 169-195, dispatch 19-56).
THEOREM SpoolMatchesAnnouncementsHolds == Spec => []SpoolMatchesAnnouncements
<1>1. Inv => SpoolMatchesAnnouncements
  BY DEF Inv, Sound, Matched, Fits, Distinct, SpoolMatchesAnnouncements
<1>2. QED
  BY <1>1, InvHolds, PTL

\* Two announcements of one user are a cool-down apart, also when two requests
\* overlap (index.cgi 68-74).
THEOREM CoolDownIsKeptHolds == Spec => []CoolDownIsKept
<1>1. Inv => CoolDownIsKept
  BY DEF Inv, Sound, Spaced, CoolDownIsKept
<1>2. QED
  BY <1>1, InvHolds, PTL
-----------------------------------------------------------------------------
\* What one process at a time keeps.

\* These mails are of one author.
AllBy(letters, author) == \A k \in 1 .. Len(letters) : letters[k].user = author

\* The mails of an author are counted as they leave.
LEMMA ByAuthor ==
  ASSUME NEW s \in Seq(Letters), NEW t \in Seq(Letters), NEW author,
         AllBy(t, author), NEW u
  PROVE  /\ Cardinality(By(s, u)) \in Nat
         /\ Cardinality(By(s \o t, u))
              = Cardinality(By(s, u)) + (IF u = author THEN Len(t) ELSE 0)
<1> DEFINE m == Len(s)
           n == Len(t)
           new == m + 1 .. m + n
<1>1. m \in Nat /\ n \in Nat /\ DOMAIN s = 1 .. m
  BY LenProperties
<1>2. /\ s \o t \in Seq(Letters) /\ Len(s \o t) = m + n
      /\ \A k \in 1 .. m + n : (s \o t)[k] = IF k <= m THEN s[k] ELSE t[k - m]
  BY ConcatProperties
<1>3. DOMAIN (s \o t) = 1 .. m + n
  BY <1>2, LenProperties
<1> HIDE DEF m, n
<1>4. \A k \in 1 .. m : k \in 1 .. m + n /\ (s \o t)[k] = s[k]
  BY <1>1, <1>2
<1>5. \A k \in new : k \in 1 .. m + n /\ (s \o t)[k].user = author
  <2>1. ASSUME NEW k \in new
        PROVE  k \in 1 .. m + n /\ k - m \in 1 .. n /\ ~(k <= m)
    BY <1>1
  <2>2. QED
    BY <1>2, <2>1 DEF n, AllBy
<1>6. \A k \in 1 .. m + n : k \in 1 .. m \/ k \in new
  BY <1>1
<1>7. IsFiniteSet(By(s, u)) /\ Cardinality(By(s, u)) \in Nat
  <2>1. IsFiniteSet(1 .. m)
    BY <1>1, FS_Interval
  <2>2. By(s, u) \in SUBSET (1 .. m)
    BY <1>1 DEF By
  <2>3. IsFiniteSet(By(s, u))
    BY <2>1, <2>2, FS_Subset
  <2>4. QED
    BY <2>3, FS_CardinalityType
<1>8. CASE u = author
  <2>1. By(s \o t, u) = By(s, u) \union new
    BY <1>1, <1>3, <1>4, <1>5, <1>6, <1>8 DEF By
  <2>2. By(s, u) \cap new = {}
    BY <1>1 DEF By
  <2>3. IsFiniteSet(new) /\ Cardinality(new) = n
    <3>1. PICK a \in Int, b \in Int : a = m + 1 /\ b = m + n
      BY <1>1
    <3>2. IsFiniteSet(a .. b) /\ Cardinality(a .. b) = IF a > b THEN 0 ELSE b - a + 1
      BY <3>1, FS_Interval
    <3>3. IF a > b THEN n = 0 ELSE b - a + 1 = n
      BY <1>1, <3>1
    <3>4. QED
      BY <3>1, <3>2, <3>3
  <2> HIDE DEF new
  <2>4. Cardinality(By(s, u) \union new) = Cardinality(By(s, u))
          + Cardinality(new) - Cardinality(By(s, u) \cap new)
    BY <1>7, <2>3, FS_Union
  <2>5. Cardinality(By(s, u) \cap new) = 0
    BY <2>2, FS_EmptySet
  <2>6. QED
    BY <1>1, <1>7, <1>8, <2>1, <2>3, <2>4, <2>5 DEF n
<1>9. CASE u # author
  <2>1. By(s \o t, u) = By(s, u)
    BY <1>1, <1>3, <1>4, <1>5, <1>6, <1>9 DEF By
  <2>2. QED
    BY <1>7, <1>9, <2>1
<1>10. QED
  BY <1>7, <1>8, <1>9

\* What one process keeps is all there is to keep.
LEMMA OneSlot ==
  ASSUME Alone, NEW p \in Procs, History', CopyOK(p)', FileOK(p)'
  PROVE  SerialInv'
<1>1. Procs = {p}
  BY DEF Alone
<1>2. QED
  BY <1>1 DEF SerialInv

\* A step that answers no vote and sends no mail adds nothing to the history.
LEMMA SameHistory ==
  ASSUME History, UNCHANGED <<votes, sent>>, kills' \in Nat
  PROVE  History'
BY DEF History, TokenVotesOnce, NoDuplicateMail

\* The properties hold at the start.
LEMMA SerialInit == Init => SerialInv
<1> SUFFICES ASSUME Init PROVE SerialInv
  OBVIOUS
<1>1. /\ votes = <<>> /\ sent = <<>> /\ kills = 0 /\ file = Empty
      /\ \A p \in Procs : pc[p] = "idle"
  BY DEF Init
<1>2. DOMAIN votes = {} /\ DOMAIN sent = {}
  BY <1>1
<1>3. History
  <2>1. votes \in Seq(Tokens)
    BY <1>1, EmptySeq
  <2>2. QED
    BY <1>1, <1>2, <2>1 DEF History, TokenVotesOnce, NoDuplicateMail
<1>4. Spent(file, votes) /\ Reached(file, sent)
  BY <1>2 DEF Spent, Reached
<1>5. Counted(file, sent)
  <2>1. \A u : By(sent, u) = {}
    BY <1>2 DEF By
  <2>2. \A u \in Users : file.total[u] = 0
    BY <1>1 DEF Empty
  <2>3. QED
    BY <2>1, <2>2, FS_EmptySet DEF Counted
<1>6. QED
  BY <1>1, <1>3, <1>4, <1>5 DEF SerialInv, CopyOK, FileOK, Working

\* Appending a recipient's token that was never answered.
LEMMA VoteSerial ==
  ASSUME NEW d \in Databases, NEW t \in d.tokens, NEW e, e = WithVote(d, t),
         votes \in Seq(Tokens), votes' = Append(votes, t),
         Spent(d, votes), TokenVotesOnce, \A x \in d.tokens : x.mail <= Len(sent),
         \A i \in DOMAIN votes : votes[i].mail <= Len(sent),
         Reached(d, sent), Counted(d, sent)
  PROVE  /\ votes' \in Seq(Tokens) /\ TokenVotesOnce' /\ Spent(e, votes')
         /\ \A i \in DOMAIN votes' : votes'[i].mail <= Len(sent)
         /\ Reached(e, sent) /\ Counted(e, sent)
<1> DEFINE n == Len(votes)
<1>1. t \in Tokens
  BY DEF Databases
<1>2. /\ e.tokens = d.tokens \ {t} /\ e.total = d.total
      /\ e.announcements = d.announcements /\ e.spool = d.spool
  BY VoteFields
<1>3. n \in Nat /\ DOMAIN votes = 1 .. n
  BY LenProperties
<1>4. /\ votes' \in Seq(Tokens) /\ Len(votes') = n + 1
      /\ \A i \in 1 .. n : votes'[i] = votes[i]
      /\ votes'[n + 1] = t
  BY <1>1, AppendProperties
<1>5. DOMAIN votes' = 1 .. n + 1
  BY <1>4, LenProperties
<1> HIDE DEF n
<1>6. ASSUME NEW i \in DOMAIN votes'
      PROVE  \/ i \in 1 .. n /\ votes'[i] = votes[i]
             \/ i = n + 1 /\ votes'[i] = t
  BY <1>3, <1>4, <1>5
<1>7. \A i \in 1 .. n : votes[i] # t /\ votes[i] \notin d.tokens
  BY <1>3 DEF Spent
<1>8. Spent(e, votes')
  BY <1>2, <1>6, <1>7 DEF Spent
<1>9. TokenVotesOnce'
  <2>1. ASSUME NEW i \in DOMAIN votes', NEW j \in DOMAIN votes',
               votes'[i] = votes'[j]
        PROVE  i = j
    <3>1. CASE i \in 1 .. n /\ j \in 1 .. n
      BY <1>3, <1>4, <2>1, <3>1 DEF TokenVotesOnce
    <3>2. CASE ~(i \in 1 .. n /\ j \in 1 .. n)
      BY <1>6, <1>7, <2>1, <3>2
    <3>3. QED
      BY <3>1, <3>2
  <2>2. QED
    BY <2>1 DEF TokenVotesOnce
<1>10. \A i \in DOMAIN votes' : votes'[i].mail <= Len(sent)
  BY <1>3, <1>6
<1>11. Reached(e, sent) /\ Counted(e, sent)
  BY <1>2 DEF Reached, Counted
<1>12. QED
  BY <1>4, <1>8, <1>9, <1>10, <1>11

\* A new announcement has an id under which no mail left.
LEMMA AnnounceSerial ==
  ASSUME NEW d \in Databases, NEW u \in Users, NEW topics \in SUBSET Topics,
         clock \in Nat, NEW e, e = WithAnnouncement(d, u, topics),
         Spent(d, votes), Reached(d, sent), Counted(d, sent)
  PROVE  Spent(e, votes) /\ Reached(e, sent) /\ Counted(e, sent)
<1> DEFINE a == Len(d.announcements)
           s == Len(d.spool)
<1>1. /\ e \in Databases /\ e.total = d.total /\ e.tokens = d.tokens
      /\ Len(e.announcements) = a + 1
      /\ Len(e.spool) = s + 1
      /\ \A i \in 1 .. s : e.spool[i] = d.spool[i]
      /\ e.spool[s + 1].id = a + 1
  BY AnnounceFields
<1>2. /\ a \in Nat /\ DOMAIN d.announcements = 1 .. a
      /\ s \in Nat /\ DOMAIN d.spool = 1 .. s
  BY Indices
<1>3. DOMAIN e.announcements = 1 .. a + 1 /\ DOMAIN e.spool = 1 .. s + 1
  BY <1>1, Indices
<1> HIDE DEF a, s
<1>4. ASSUME NEW k \in DOMAIN sent
      PROVE  /\ sent[k].id \in DOMAIN e.announcements
             /\ \A i \in DOMAIN e.spool :
                  e.spool[i].id = sent[k].id => sent[k].to \in e.spool[i].users
  <2>1. sent[k].id \in 1 .. a
    BY <1>2 DEF Reached
  <2>2. ASSUME NEW i \in 1 .. s, e.spool[i].id = sent[k].id
        PROVE  sent[k].to \in e.spool[i].users
    BY <1>1, <1>2, <2>2 DEF Reached
  <2>3. ASSUME NEW i \in 1 .. s + 1, i \notin 1 .. s
        PROVE  e.spool[i].id # sent[k].id
    <3>1. i = s + 1
      BY <1>2, <2>3
    <3>2. QED
      BY <1>1, <1>2, <2>1, <3>1
  <2>4. QED
    BY <1>2, <1>3, <2>1, <2>2, <2>3
<1>5. QED
  BY <1>1, <1>4 DEF Spent, Reached, Counted

\* What is no longer queued was not forgotten.
LEMMA ExpiredSerial ==
  ASSUME NEW d \in Databases, NEW i \in 1 .. Len(d.spool),
         NEW e, e = Expired(d, i),
         Spent(d, votes), Reached(d, sent), Counted(d, sent)
  PROVE  Spent(e, votes) /\ Reached(e, sent) /\ Counted(e, sent)
<1> DEFINE s == Len(d.spool)
<1>1. /\ e \in Databases /\ e.total = d.total
      /\ e.tokens = d.tokens /\ e.announcements = d.announcements
      /\ Len(e.spool) = s - 1
      /\ \A j \in 1 .. s - 1 : e.spool[j] = IF j < i THEN d.spool[j]
                                                      ELSE d.spool[j + 1]
  BY ExpiredFields
<1>2. s \in Nat /\ DOMAIN d.spool = 1 .. s /\ DOMAIN e.spool = 1 .. s - 1
  BY <1>1, Indices
<1> HIDE DEF s
<1>3. ASSUME NEW j \in DOMAIN e.spool
      PROVE  \E l \in DOMAIN d.spool : e.spool[j] = d.spool[l]
  <2>1. j \in 1 .. s /\ j + 1 \in 1 .. s
    BY <1>2
  <2>2. QED
    BY <1>1, <1>2, <2>1
<1>4. Reached(e, sent)
  BY <1>1, <1>3 DEF Reached
<1>5. QED
  BY <1>1, <1>4 DEF Spent, Counted

\* Age is in none of these.
LEMMA OlderSerial ==
  ASSUME NEW d \in Databases, NEW i \in 1 .. Len(d.spool), NEW score \in Scores,
         d.spool[i].ttl > 0, NEW e, e = Older(d, i, score),
         NEW letters, Spent(d, votes), Reached(d, letters), Counted(d, letters)
  PROVE  Spent(e, votes) /\ Reached(e, letters) /\ Counted(e, letters)
<1>1. /\ e \in Databases /\ e.total = d.total
      /\ e.tokens = d.tokens /\ e.announcements = d.announcements
      /\ Len(e.spool) = Len(d.spool)
      /\ \A j \in 1 .. Len(d.spool) : /\ e.spool[j].id = d.spool[j].id
                                      /\ e.spool[j].users = d.spool[j].users
  BY OlderFields
<1>2. /\ DOMAIN d.spool = 1 .. Len(d.spool)
      /\ DOMAIN e.spool = 1 .. Len(d.spool)
  BY <1>1, Indices
<1>3. Reached(e, letters)
  BY <1>1, <1>2 DEF Reached
<1>4. QED
  BY <1>1, <1>3 DEF Spent, Counted

\* No two of these mails are of one announcement to one user.
Unrepeated(letters) ==
  \A j, k \in DOMAIN letters :
    letters[j].id = letters[k].id /\ letters[j].to = letters[k].to => j = k

\* A broadcast reaches whom the task did not reach yet, and counts them.
LEMMA BroadcastSerial ==
  ASSUME NEW d \in Databases, NEW i \in 1 .. Len(d.spool), NEW now,
         Sound(d, Len(sent), now), sent \in Seq(Letters), Len(sent) \in Nat,
         NEW rcpt \in SUBSET Users, IsFiniteSet(rcpt), Cardinality(rcpt) \in Nat,
         rcpt \cap d.spool[i].users = {}, NEW failed,
         History, Spent(d, votes), Reached(d, sent), Counted(d, sent)
  PROVE  /\ Spent(WithBroadcast(d, i, rcpt), votes)
         /\ Reached(WithBroadcast(d, i, rcpt), sent \o Mailed(d, i, rcpt, failed))
         /\ Counted(WithBroadcast(d, i, rcpt), sent \o Mailed(d, i, rcpt, failed))
         /\ Unrepeated(sent \o Mailed(d, i, rcpt, failed))
<1>0. PICK e, letters : /\ e = WithBroadcast(d, i, rcpt)
                        /\ letters = sent \o Mailed(d, i, rcpt, failed)
  OBVIOUS
<1> DEFINE m == Len(sent)
           n == Cardinality(rcpt)
           s == Len(d.spool)
           new == Mailed(d, i, rcpt, failed)
           id == d.spool[i].id
<1>1. id \in DOMAIN d.announcements
  BY Indices DEF Sound, Matched, Fits
<1>2. PICK author : author = d.announcements[id].user
  OBVIOUS
<1>3. author \in Users
  BY <1>1, <1>2, Indices DEF Announcements
<1>4. /\ new \in Seq(Letters) /\ Len(new) = n
      /\ \A k \in 1 .. n : /\ new[k].id = id /\ new[k].user = author
                           /\ new[k].to \in rcpt
      /\ \A j, k \in 1 .. n : new[j].to = new[k].to => j = k
  BY <1>1, <1>2, MailedFacts
<1>5. Broadcasts(d, i, rcpt, author, m, n, e)
  BY <1>0, <1>2, <1>3, BroadcastFields
<1>6. /\ e \in Databases /\ e.tokens = d.tokens \union LinksOf(author, m, n)
      /\ e.total = [d.total EXCEPT ![author] = @ + n]
      /\ e.announcements = d.announcements
      /\ \A j \in 1 .. s : /\ e.spool[j].id = d.spool[j].id
                           /\ d.spool[j].users \subseteq e.spool[j].users
      /\ e.spool[i].users = d.spool[i].users \union rcpt
  BY <1>5 DEF Broadcasts
<1>7. s \in Nat /\ DOMAIN d.spool = 1 .. s /\ DOMAIN e.spool = 1 .. s
  BY <1>5, Indices DEF Broadcasts
<1>8. /\ letters \in Seq(Letters) /\ Len(letters) = m + n
      /\ \A k \in 1 .. m + n :
           letters[k] = IF k <= m THEN sent[k] ELSE new[k - m]
  <2> HIDE DEF new, m, n
  <2>0. new \in Seq(Letters)
    BY <1>4
  <2>1. /\ sent \o new \in Seq(Letters)
        /\ Len(sent \o new) = Len(sent) + Len(new)
        /\ \A k \in 1 .. Len(sent) + Len(new) : (sent \o new)[k]
             = IF k <= Len(sent) THEN sent[k] ELSE new[k - Len(sent)]
    BY <2>0, ConcatProperties
  <2>2. letters = sent \o new
    BY <1>0 DEF new
  <2>3. Len(sent) = m /\ Len(new) = n
    BY <1>4 DEF m
  <2>4. QED
    BY <2>1, <2>2, <2>3
<1>9. DOMAIN letters = 1 .. m + n /\ DOMAIN sent = 1 .. m
  BY <1>8, LenProperties
<1>10. m \in Nat /\ n \in Nat /\ i \in 1 .. s
  OBVIOUS
<1>11. \A l \in LinksOf(author, m, n) : l.mail \in m + 1 .. m + n
  BY <1>10, NewTokens
<1> HIDE DEF m, n, s, new, id
<1>12. ASSUME NEW k \in DOMAIN letters
       PROVE  \/ k \in DOMAIN sent /\ letters[k] = sent[k]
              \/ /\ k \notin DOMAIN sent /\ k - m \in 1 .. n
                 /\ letters[k] = new[k - m]
  <2>1. k \in 1 .. m + n
    BY <1>9
  <2>2. CASE k <= m
    BY <1>8, <1>9, <1>10, <2>1, <2>2
  <2>3. CASE ~(k <= m)
    <3>1. k \notin 1 .. m /\ k - m \in 1 .. n
      BY <1>10, <2>1, <2>3
    <3>2. QED
      BY <1>8, <1>9, <2>1, <2>3, <3>1
  <2>4. QED
    BY <2>2, <2>3
<1>13. Spent(e, votes)
  <2>1. ASSUME NEW j \in DOMAIN votes, votes[j] \in LinksOf(author, m, n)
        PROVE  FALSE
    <3>1. votes[j].mail <= m
      BY DEF m, History
    <3>2. votes[j].mail \in m + 1 .. m + n
      BY <1>11, <2>1
    <3>3. QED
      BY <1>10, <3>1, <3>2
  <2>2. QED
    BY <1>6, <2>1 DEF Spent
<1>14. Reached(e, letters)
  <2>1. ASSUME NEW k \in DOMAIN sent
        PROVE  /\ sent[k].id \in DOMAIN e.announcements
               /\ \A j \in DOMAIN e.spool :
                    e.spool[j].id = sent[k].id => sent[k].to \in e.spool[j].users
    BY <1>6, <1>7 DEF Reached
  <2>2. ASSUME NEW k \in 1 .. n
        PROVE  /\ new[k].id \in DOMAIN e.announcements
               /\ \A j \in DOMAIN e.spool :
                    e.spool[j].id = new[k].id => new[k].to \in e.spool[j].users
    <3>1. new[k].id = id /\ new[k].to \in e.spool[i].users
      BY <1>4, <1>6
    <3>2. \A j \in DOMAIN e.spool : e.spool[j].id = id => j = i
      BY <1>6, <1>7, <1>10 DEF Sound, Matched, Distinct, id
    <3>3. QED
      BY <1>1, <1>6, <3>1, <3>2
  <2>3. ASSUME NEW k \in DOMAIN letters
        PROVE  /\ letters[k].id \in DOMAIN e.announcements
               /\ \A j \in DOMAIN e.spool : e.spool[j].id = letters[k].id =>
                    letters[k].to \in e.spool[j].users
    <3>1. CASE k \in DOMAIN sent /\ letters[k] = sent[k]
      BY <2>1, <3>1
    <3>2. CASE k - m \in 1 .. n /\ letters[k] = new[k - m]
      BY <2>2, <3>2
    <3>3. QED
      BY <1>12, <3>1, <3>2
  <2>4. QED
    BY <2>3 DEF Reached
<1>15. ASSUME NEW u \in Users PROVE e.total[u] = Cardinality(By(letters, u))
  <2>1. /\ Cardinality(By(sent, u)) \in Nat
        /\ Cardinality(By(sent \o new, u))
             = Cardinality(By(sent, u)) + (IF u = author THEN Len(new) ELSE 0)
    <3>1. AllBy(new, author)
      BY <1>4 DEF AllBy
    <3>2. QED
      BY <1>4, <3>1, ByAuthor
  <2>2. letters = sent \o new
    BY <1>0 DEF new
  <2>3. d.total[u] = Cardinality(By(sent, u)) /\ d.total \in [Users -> Nat]
    BY DEF Counted, Databases
  <2>4. e.total[u] = d.total[u] + (IF u = author THEN n ELSE 0)
    BY <1>3, <1>6, <1>10, <2>3
  <2>5. QED
    BY <1>4, <1>10, <2>1, <2>2, <2>3, <2>4
<1>16. ASSUME NEW j \in DOMAIN letters, NEW k \in DOMAIN letters,
              letters[j].id = letters[k].id, letters[j].to = letters[k].to
       PROVE  j = k
  <2>1. ASSUME NEW x \in DOMAIN sent, NEW y \in 1 .. n,
               sent[x].id = new[y].id, sent[x].to = new[y].to
        PROVE  FALSE
    <3>1. sent[x].id = d.spool[i].id
      BY <1>4, <2>1 DEF id
    <3>2. sent[x].to \in d.spool[i].users
      BY <1>7, <1>10, <3>1 DEF Reached
    <3>3. QED
      BY <1>4, <2>1, <3>2
  <2>2. CASE j \in DOMAIN sent /\ k \in DOMAIN sent
    BY <1>12, <1>16, <2>2 DEF NoDuplicateMail, History
  <2>3. CASE j \in DOMAIN sent /\ k \notin DOMAIN sent
    BY <1>12, <1>16, <2>1, <2>3
  <2>4. CASE j \notin DOMAIN sent /\ k \in DOMAIN sent
    BY <1>12, <1>16, <2>1, <2>4
  <2>5. CASE j \notin DOMAIN sent /\ k \notin DOMAIN sent
    <3>1. /\ j - m \in 1 .. n /\ letters[j] = new[j - m]
          /\ k - m \in 1 .. n /\ letters[k] = new[k - m]
      BY <1>12, <2>5
    <3>2. j - m = k - m
      BY <1>4, <1>16, <3>1
    <3>3. QED
      BY <1>9, <1>10, <3>2
  <2>6. QED
    BY <2>2, <2>3, <2>4, <2>5
<1>17. Counted(e, letters) /\ Unrepeated(letters)
  BY <1>15, <1>16 DEF Counted, Unrepeated
<1>18. QED
  BY <1>0, <1>13, <1>14, <1>17

\* Every step of one process keeps the properties.
LEMMA SerialStep ==
  ASSUME Alone, Inv, Inv', SerialInv, [Next]_vars PROVE SerialInv'
<1> USE DEF Goto
<1>0. /\ pc \in [Procs -> Steps] /\ job \in [Procs -> Jobs]
      /\ cursor \in [Procs -> Nat \ {0}] /\ clock \in Nat
      /\ sent \in Seq(Letters) /\ Len(sent) \in Nat /\ db \in [Procs -> Databases]
      /\ History /\ kills \in Nat /\ MaxKills = 0
  BY LenProperties DEF Inv, Shape, SerialInv, History, Alone
<1>1. ASSUME NEW p \in Procs, BeginWeb(p) PROVE SerialInv'
  <2>1. /\ pc[p] = "idle" /\ UNCHANGED <<file, sent, votes, kills>>
        /\ CopyOK(p) /\ FileOK(p)
    BY <1>1 DEF BeginWeb, SerialInv
  <2>2. History'
    BY <1>0, <2>1, SameHistory
  <2>3. CASE file = Torn
    <3>1. UNCHANGED <<pc, job, db>>
      BY <1>1, <2>3 DEF BeginWeb
    <3>2. CopyOK(p)' /\ FileOK(p)'
      BY <2>1, <2>3, <3>1 DEF CopyOK, FileOK, Working
    <3>3. QED
      BY <2>2, <3>2, OneSlot
  <2>4. CASE file # Torn
    <3>1. pc'[p] = "lock" /\ db'[p] = file
      BY <1>0, <1>1, <2>4 DEF BeginWeb
    <3>2. Spent(file, votes) /\ Reached(file, sent) /\ Counted(file, sent)
      BY <2>1, <2>4 DEF FileOK, Stale
    <3>3. CopyOK(p)' /\ FileOK(p)'
      BY <2>1, <3>1, <3>2 DEF CopyOK, FileOK
    <3>4. QED
      BY <2>2, <3>3, OneSlot
  <2>5. QED
    BY <2>3, <2>4
<1>2. ASSUME NEW p \in Procs, BeginDispatch(p) PROVE SerialInv'
  <2>1. /\ pc[p] = "idle" /\ UNCHANGED <<file, sent, votes, kills>>
        /\ file # Torn /\ CopyOK(p) /\ FileOK(p)
        /\ pc'[p] = "dispatch" /\ db'[p] = file /\ job'[p].kind = "dispatch"
    BY <1>0, <1>2 DEF BeginDispatch, SerialInv
  <2>2. History'
    BY <1>0, <2>1, SameHistory
  <2>3. Spent(file, votes) /\ Reached(file, sent) /\ Counted(file, sent)
    BY <2>1 DEF FileOK, Stale
  <2>4. CopyOK(p)' /\ FileOK(p)'
    BY <2>1, <2>3 DEF CopyOK, FileOK
  <2>5. QED
    BY <2>2, <2>4, OneSlot
<1>3. ASSUME NEW p \in Procs, Lock(p) PROVE SerialInv'
  <2>1. /\ pc[p] = "lock" /\ UNCHANGED <<file, sent, votes, kills, job, db>>
        /\ pc'[p] = IF job[p].kind = "dispatch" THEN "truncate" ELSE "handle"
        /\ CopyOK(p) /\ FileOK(p)
    BY <1>0, <1>3 DEF Lock, SerialInv
  <2>2. History'
    BY <1>0, <2>1, SameHistory
  <2>3. CopyOK(p)'
    BY <2>1 DEF CopyOK, Working
  <2>4. FileOK(p)'
    BY <2>1 DEF FileOK, Stale
  <2>5. QED
    BY <2>2, <2>3, <2>4, OneSlot
<1>4. ASSUME NEW p \in Procs, HandleView(p) \/ HandleUnknown(p) PROVE SerialInv'
  <2>1. /\ pc[p] = "handle" /\ UNCHANGED <<file, sent, votes, kills, job, db>>
        /\ pc'[p] \in {"unlock", "exit"} /\ CopyOK(p) /\ FileOK(p)
    BY <1>0, <1>4 DEF HandleView, HandleUnknown, Finish, SerialInv
  <2>2. History'
    BY <1>0, <2>1, SameHistory
  <2>3. CopyOK(p)' /\ FileOK(p)'
    BY <2>1 DEF CopyOK, FileOK, Working, Stale
  <2>4. QED
    BY <2>2, <2>3, OneSlot
<1>5. ASSUME NEW p \in Procs, HandleVote(p) PROVE SerialInv'
  <2>1. /\ pc[p] = "handle" /\ pc'[p] = "truncate"
        /\ UNCHANGED <<file, sent, kills, job>> /\ CopyOK(p) /\ FileOK(p)
    BY <1>0, <1>5 DEF HandleVote, Finish, SerialInv
  <2>2. /\ job[p].kind # "dispatch" /\ Spent(db[p], votes)
        /\ Reached(db[p], sent) /\ Counted(db[p], sent)
    BY <2>1 DEF CopyOK, Working
  <2>3. CASE job[p].token \notin db[p].tokens
    <3>1. UNCHANGED <<db, votes>>
      BY <1>5, <2>3 DEF HandleVote
    <3>2. History'
      BY <1>0, <2>1, <3>1, SameHistory
    <3>3. CopyOK(p)' /\ FileOK(p)'
      BY <2>1, <2>2, <3>1 DEF CopyOK, FileOK, Stale
    <3>4. QED
      BY <3>2, <3>3, OneSlot
  <2>4. CASE job[p].token \in db[p].tokens
    <3>1. PICK d, t, e : d = db[p] /\ t = job[p].token /\ e = WithVote(d, t)
      OBVIOUS
    <3>2. db'[p] = e /\ votes' = Append(votes, t)
      BY <1>0, <1>5, <2>4, <3>1 DEF HandleVote
    <3>3. d \in Databases /\ t \in d.tokens /\ \A x \in d.tokens : x.mail <= Len(sent)
      BY <1>0, <2>4, <3>1 DEF Inv, Sound, Dated
    <3>4. /\ votes \in Seq(Tokens) /\ TokenVotesOnce
          /\ \A i \in DOMAIN votes : votes[i].mail <= Len(sent)
      BY <1>0 DEF History
    <3>5. /\ votes' \in Seq(Tokens) /\ TokenVotesOnce' /\ Spent(e, votes')
          /\ \A i \in DOMAIN votes' : votes'[i].mail <= Len(sent)
          /\ Reached(e, sent) /\ Counted(e, sent)
      BY <2>2, <3>1, <3>2, <3>3, <3>4, VoteSerial
    <3>6. NoDuplicateMail' /\ kills' \in Nat
      BY <1>0, <2>1 DEF History, NoDuplicateMail
    <3>7. History'
      BY <2>1, <3>5, <3>6 DEF History
    <3>8. CopyOK(p)' /\ FileOK(p)'
      BY <2>1, <2>2, <3>2, <3>5 DEF CopyOK, FileOK, Stale
    <3>9. QED
      BY <3>7, <3>8, OneSlot
  <2>5. QED
    BY <2>3, <2>4
<1>6. ASSUME NEW p \in Procs, HandleAnnounce(p) PROVE SerialInv'
  <2>1. /\ pc[p] = "handle" /\ pc'[p] \in {"truncate", "unlock"}
        /\ UNCHANGED <<file, sent, votes, kills, job>> /\ CopyOK(p) /\ FileOK(p)
    BY <1>0, <1>6 DEF HandleAnnounce, Finish, SerialInv
  <2>2. /\ job[p].kind # "dispatch" /\ Spent(db[p], votes)
        /\ Reached(db[p], sent) /\ Counted(db[p], sent)
    BY <2>1 DEF CopyOK, Working
  <2>3. History'
    BY <1>0, <2>1, SameHistory
  <2>4. Spent(db'[p], votes) /\ Reached(db'[p], sent) /\ Counted(db'[p], sent)
    <3>1. CASE CoolingDown(db[p], job[p].user)
      <4>1. UNCHANGED db
        BY <1>6, <3>1 DEF HandleAnnounce
      <4>2. QED
        BY <2>2, <4>1
    <3>2. CASE ~CoolingDown(db[p], job[p].user)
      <4>1. PICK e : e = WithAnnouncement(db[p], job[p].user, job[p].topics)
        OBVIOUS
      <4>2. db'[p] = e
        BY <1>0, <1>6, <3>2, <4>1 DEF HandleAnnounce
      <4>3. job[p].user \in Users /\ job[p].topics \in SUBSET Topics
        BY <1>0, <1>6 DEF HandleAnnounce, Jobs
      <4>4. db[p] \in Databases
        BY <1>0
      <4>5. QED
        BY <1>0, <2>2, <4>1, <4>2, <4>3, <4>4, AnnounceSerial
    <3>3. QED
      BY <3>1, <3>2
  <2>5. CASE pc'[p] = "truncate"
    <3>1. CopyOK(p)' /\ FileOK(p)'
      BY <2>1, <2>2, <2>4, <2>5 DEF CopyOK, FileOK, Stale
    <3>2. QED
      BY <2>3, <3>1, OneSlot
  <2>6. CASE pc'[p] = "unlock"
    <3>1. CopyOK(p)' /\ FileOK(p)'
      BY <2>1, <2>2, <2>6 DEF CopyOK, FileOK, Stale, Working
    <3>2. QED
      BY <2>3, <3>1, OneSlot
  <2>7. QED
    BY <2>1, <2>5, <2>6
<1>7. ASSUME NEW p \in Procs, HandleSaveTopics(p) PROVE SerialInv'
  <2>1. /\ pc[p] = "handle" /\ pc'[p] \in {"truncate", "unlock"}
        /\ UNCHANGED <<file, sent, votes, kills, job>> /\ CopyOK(p) /\ FileOK(p)
    BY <1>0, <1>7 DEF HandleSaveTopics, Finish, SerialInv
  <2>2. /\ job[p].kind # "dispatch" /\ Spent(db[p], votes)
        /\ Reached(db[p], sent) /\ Counted(db[p], sent)
    BY <2>1 DEF CopyOK, Working
  <2>3. History'
    BY <1>0, <2>1, SameHistory
  <2>4. Spent(db'[p], votes) /\ Reached(db'[p], sent) /\ Counted(db'[p], sent)
    <3>1. PICK d, e : /\ d = db[p]
                      /\ e = [d EXCEPT !.topics[job[p].user] = job[p].topics]
      OBVIOUS
    <3>2. db'[p] = e
      BY <1>0, <1>7, <3>1 DEF HandleSaveTopics
    <3>3. job[p].user \in Users /\ job[p].topics \in SUBSET Topics
      BY <1>0, <1>7 DEF HandleSaveTopics, Jobs
    <3>4. d \in Databases
      BY <1>0, <3>1
    <3>5. /\ e.total = d.total /\ e.tokens = d.tokens
          /\ e.announcements = d.announcements /\ e.spool = d.spool
      BY <3>1, <3>3, <3>4, TopicsFields
    <3>6. QED
      BY <2>2, <3>1, <3>2, <3>5 DEF Spent, Reached, Counted
  <2>5. CASE pc'[p] = "truncate"
    <3>1. CopyOK(p)' /\ FileOK(p)'
      BY <2>1, <2>2, <2>4, <2>5 DEF CopyOK, FileOK, Stale
    <3>2. QED
      BY <2>3, <3>1, OneSlot
  <2>6. CASE pc'[p] = "unlock"
    <3>1. CopyOK(p)' /\ FileOK(p)'
      BY <2>1, <2>2, <2>6 DEF CopyOK, FileOK, Stale, Working
    <3>2. QED
      BY <2>3, <3>1, OneSlot
  <2>7. QED
    BY <2>1, <2>5, <2>6
<1>8. ASSUME NEW p \in Procs, SkipExpired(p) PROVE SerialInv'
  <2>1. /\ pc[p] = "dispatch" /\ UNCHANGED <<file, sent, votes, kills, job, pc>>
        /\ CopyOK(p) /\ FileOK(p)
        /\ cursor[p] \in 1 .. Len(db[p].spool)
    <3>1. Len(db[p].spool) \in Nat
      BY <1>0, Indices
    <3>2. QED
      BY <1>0, <1>8, <3>1 DEF SkipExpired, SerialInv
  <2>2. /\ job[p].kind = "dispatch" /\ Spent(db[p], votes)
        /\ Reached(db[p], sent) /\ Counted(db[p], sent)
    BY <2>1 DEF CopyOK, Working
  <2>3. History'
    BY <1>0, <2>1, SameHistory
  <2>4. PICK e : e = Expired(db[p], cursor[p])
    OBVIOUS
  <2>5. db'[p] = e /\ db[p] \in Databases
    BY <1>0, <1>8, <2>4 DEF SkipExpired, Expired
  <2>6. Spent(e, votes) /\ Reached(e, sent) /\ Counted(e, sent)
    BY <2>1, <2>2, <2>4, <2>5, ExpiredSerial
  <2>7. CopyOK(p)' /\ FileOK(p)'
    BY <2>1, <2>2, <2>5, <2>6 DEF CopyOK, FileOK, Stale
  <2>8. QED
    BY <2>3, <2>7, OneSlot
<1>9. ASSUME NEW p \in Procs, MailTask(p) PROVE SerialInv'
  <2>1. PICK d, i : d = db[p] /\ i = cursor[p]
    OBVIOUS
  <2>2. PICK score : score = ScoreOf(d, d.announcements[d.spool[i].id].user)
    OBVIOUS
  <2>3. /\ pc[p] = "dispatch" /\ i <= Len(d.spool) /\ d.spool[i].ttl > 0
        /\ UNCHANGED <<file, pc, job, votes, kills>>
        /\ CopyOK(p) /\ FileOK(p)
    BY <1>9, <2>1, MailTaskSteps DEF SerialInv
  <2>0. PICK rcpt \in Samples(d, d.spool[i]) : \E failed \in SUBSET rcpt :
          MailStep(p, d, i, score, rcpt, failed)
    BY <1>9, <2>1, <2>2, MailTaskSteps
  <2>4. PICK failed \in SUBSET rcpt : MailStep(p, d, i, score, rcpt, failed)
    BY <2>0
  <2>5. /\ d \in Databases /\ Sound(d, Len(sent), clock)
        /\ Len(d.spool) \in Nat /\ i \in 1 .. Len(d.spool)
    BY <1>0, <2>1, <2>3, Indices DEF Inv
  <2>6. /\ job[p].kind = "dispatch" /\ Spent(d, votes)
        /\ Reached(d, sent) /\ Counted(d, sent)
    BY <2>1, <2>3 DEF CopyOK, Working
  <2>7. /\ rcpt \in SUBSET Users /\ IsFiniteSet(rcpt)
        /\ Cardinality(rcpt) \in Nat /\ rcpt \cap d.spool[i].users = {}
    BY SampleFacts
  <2>8. score \in Scores
    <3>1. d.spool[i].id \in DOMAIN d.announcements
      BY <2>5, Indices DEF Sound, Matched, Fits
    <3>2. d.announcements[d.spool[i].id].user \in Users
      BY <2>5, <3>1, Indices DEF Announcements
    <3>3. QED
      BY <2>2, <2>5, <3>2, ScoreIsScore
  <2>9. /\ Spent(db'[p], votes) /\ Reached(db'[p], sent') /\ Counted(db'[p], sent')
        /\ NoDuplicateMail' /\ Len(sent) <= Len(sent') /\ Len(sent') \in Nat
    <3>1. CASE db' = [db EXCEPT ![p] = Older(d, i, score)] /\ UNCHANGED sent
      <4>1. PICK e : e = Older(d, i, score)
        OBVIOUS
      <4>2. db'[p] = e
        BY <1>0, <3>1, <4>1
      <4>3. Spent(e, votes) /\ Reached(e, sent) /\ Counted(e, sent)
        BY <2>3, <2>5, <2>6, <2>8, <4>1, OlderSerial
      <4>4. NoDuplicateMail'
        BY <1>0, <3>1 DEF History, NoDuplicateMail
      <4>5. QED
        BY <1>0, <3>1, <4>2, <4>3, <4>4
    <3>2. CASE /\ db' = [db EXCEPT ![p] = Older(WithBroadcast(d, i, rcpt), i, score)]
               /\ sent' = sent \o Mailed(d, i, rcpt, failed)
      <4>1. PICK b, letters : /\ b = WithBroadcast(d, i, rcpt)
                              /\ letters = sent \o Mailed(d, i, rcpt, failed)
        OBVIOUS
      <4>2. /\ Spent(b, votes) /\ Reached(b, letters) /\ Counted(b, letters)
            /\ Unrepeated(letters)
        BY <1>0, <2>5, <2>6, <2>7, <4>1, BroadcastSerial
      <4>3. PICK author \in Users : author = d.announcements[d.spool[i].id].user
        <5>1. d.spool[i].id \in DOMAIN d.announcements
          BY <2>5, Indices DEF Sound, Matched, Fits
        <5>2. QED
          BY <2>5, <5>1, Indices DEF Announcements
      <4>4. Broadcasts(d, i, rcpt, author, Len(sent), Cardinality(rcpt), b)
        BY <1>0, <2>5, <2>7, <4>1, <4>3, BroadcastFields
      <4>5. b \in Databases /\ i \in 1 .. Len(b.spool) /\ b.spool[i].ttl > 0
        BY <2>3, <2>5, <4>4 DEF Broadcasts
      <4>6. PICK e : e = Older(b, i, score)
        OBVIOUS
      <4>7. Spent(e, votes) /\ Reached(e, letters) /\ Counted(e, letters)
        BY <2>8, <4>2, <4>5, <4>6, OlderSerial
      <4>8. db'[p] = e /\ sent' = letters
        BY <1>0, <3>2, <4>1, <4>6
      <4>9. NoDuplicateMail'
        BY <4>2, <4>8 DEF NoDuplicateMail, Unrepeated
      <4>10. Len(sent) <= Len(sent') /\ Len(sent') \in Nat
        <5>1. d.spool[i].id \in DOMAIN d.announcements
          BY <2>5, Indices DEF Sound, Matched, Fits
        <5>2. /\ Mailed(d, i, rcpt, failed) \in Seq(Letters)
              /\ Len(Mailed(d, i, rcpt, failed)) = Cardinality(rcpt)
          BY <2>5, <2>7, <5>1, MailedFacts
        <5>3. Len(sent') = Len(sent) + Cardinality(rcpt)
          BY <1>0, <3>2, <5>2, ConcatProperties
        <5>4. QED
          BY <1>0, <2>7, <5>3
      <4>11. QED
        BY <4>7, <4>8, <4>9, <4>10
    <3>3. QED
      BY <2>4, <3>1, <3>2 DEF MailStep
  <2>10. History'
    <3>1. \A j \in DOMAIN votes : votes[j].mail \in Nat
      <4>1. votes \in Seq(Tokens)
        BY <1>0 DEF History
      <4>2. \A j \in DOMAIN votes : votes[j] \in Tokens
        BY <4>1, ElementOfSeq, LenProperties
      <4>3. QED
        BY <4>2 DEF Tokens
    <3>2. \A j \in DOMAIN votes : votes[j].mail <= Len(sent')
      BY <1>0, <2>9, <3>1 DEF History
    <3>3. TokenVotesOnce'
      BY <1>0, <2>3 DEF History, TokenVotesOnce
    <3>4. QED
      BY <1>0, <2>3, <2>9, <3>2, <3>3 DEF History
  <2>11. CopyOK(p)' /\ FileOK(p)'
    BY <2>3, <2>6, <2>9 DEF CopyOK, FileOK, Stale
  <2>12. QED
    BY <2>10, <2>11, OneSlot
<1>10. ASSUME NEW p \in Procs, EndQueue(p) PROVE SerialInv'
  <2>1. /\ pc[p] = "dispatch" /\ UNCHANGED <<file, sent, votes, kills, job, db>>
        /\ pc'[p] = "lock" /\ CopyOK(p) /\ FileOK(p)
    BY <1>0, <1>10 DEF EndQueue, SerialInv
  <2>2. History'
    BY <1>0, <2>1, SameHistory
  <2>3. CopyOK(p)' /\ FileOK(p)'
    BY <2>1 DEF CopyOK, FileOK, Working, Stale
  <2>4. QED
    BY <2>2, <2>3, OneSlot
<1>11. ASSUME NEW p \in Procs, Truncate(p) PROVE SerialInv'
  <2>1. /\ pc[p] = "truncate" /\ UNCHANGED <<sent, votes, kills, job, db>>
        /\ pc'[p] = "write" /\ file' = Torn /\ CopyOK(p)
    BY <1>0, <1>11 DEF Truncate, SerialInv
  <2>2. History'
    BY <1>0, <2>1, SameHistory
  <2>3. CopyOK(p)' /\ FileOK(p)'
    BY <2>1 DEF CopyOK, FileOK, Working
  <2>4. QED
    BY <2>2, <2>3, OneSlot
<1>12. ASSUME NEW p \in Procs, Write(p) PROVE SerialInv'
  <2>1. /\ pc[p] = "write" /\ UNCHANGED <<sent, votes, kills, job, db>>
        /\ pc'[p] = "unlock" /\ file' = db[p] /\ CopyOK(p)
    BY <1>0, <1>12 DEF Write, SerialInv
  <2>2. History'
    BY <1>0, <2>1, SameHistory
  <2>3. CopyOK(p)' /\ FileOK(p)'
    BY <2>1 DEF CopyOK, FileOK, Working
  <2>4. QED
    BY <2>2, <2>3, OneSlot
<1>13. ASSUME NEW p \in Procs, WriteFails(p) PROVE SerialInv'
  <2>1. /\ pc[p] = "write" /\ UNCHANGED <<file, sent, votes, kills, job, db>>
        /\ pc'[p] = "exit" /\ CopyOK(p)
    BY <1>0, <1>13 DEF WriteFails, SerialInv
  <2>2. History'
    BY <1>0, <2>1, SameHistory
  <2>3. CopyOK(p)' /\ FileOK(p)'
    BY <2>1 DEF CopyOK, FileOK, Working
  <2>4. QED
    BY <2>2, <2>3, OneSlot
<1>14. ASSUME NEW p \in Procs, Unlock(p) \/ Exit(p) PROVE SerialInv'
  <2>1. /\ pc[p] \in {"unlock", "exit"} /\ UNCHANGED <<file, sent, votes, kills>>
        /\ pc'[p] = "idle" /\ CopyOK(p) /\ FileOK(p)
    BY <1>0, <1>14 DEF Unlock, Exit, SerialInv
  <2>2. History'
    BY <1>0, <2>1, SameHistory
  <2>3. CopyOK(p)' /\ FileOK(p)'
    BY <2>1 DEF CopyOK, FileOK, Working, Stale
  <2>4. QED
    BY <2>2, <2>3, OneSlot
<1>15. ASSUME NEW p \in Procs, Kill(p) PROVE SerialInv'
  BY <1>0, <1>15 DEF Kill
<1>16. CASE Tick \/ UNCHANGED vars
  <2>1. UNCHANGED <<file, pc, job, db, sent, votes, kills>>
    BY <1>16 DEF Tick, vars
  <2>2. History'
    BY <1>0, <2>1, SameHistory
  <2>3. QED
    BY <2>1, <2>2 DEF SerialInv, CopyOK, FileOK, Working, Stale
<1>17. QED
  BY <1>1, <1>2, <1>3, <1>4, <1>5, <1>6, <1>7, <1>8, <1>9, <1>10, <1>11, <1>12,
     <1>13, <1>14, <1>15, <1>16 DEF Next, Dispatch, Run, Rest

\* When processes do not overlap and none is killed, the properties hold always.
LEMMA SerialHolds == ASSUME Alone PROVE Spec => []SerialInv
<1>1. Inv /\ Inv' /\ SerialInv /\ [Next]_vars => SerialInv'
  BY SerialStep
<1>2. QED
  BY <1>1, SerialInit, InvHolds, PTL DEF Spec

\* "This link is no longer valid." (index.cgi 109): a token votes once, when no
\* two processes overlap and none is killed, also if writes fail.
THEOREM TokenVotesOnceHolds == ASSUME Alone PROVE Spec => []TokenVotesOnce
<1>1. SerialInv => TokenVotesOnce
  BY DEF SerialInv, History
<1>2. QED
  BY <1>1, SerialHolds, PTL

\* Nobody is mailed the same announcement twice, and one whose mail failed is
\* not tried again (dispatch 20, 39 and 47), under the same conditions.
THEOREM NoDuplicateMailHolds == ASSUME Alone PROVE Spec => []NoDuplicateMail
<1>1. SerialInv => NoDuplicateMail
  BY DEF SerialInv, History
<1>2. QED
  BY <1>1, SerialHolds, PTL

\* The total of a profile counts the mails that were tried for it, the failed
\* ones included (dispatch 39 and 44), under the same conditions.
THEOREM TotalsCountTriesHolds == ASSUME Alone PROVE Spec => []TotalsCountTries
<1>1. SerialInv => TotalsCountTries
  <2>1. SUFFICES ASSUME SerialInv, Quiet
                 PROVE  Counted(file, sent)
    BY DEF TotalsCountTries, Counted, By
  <2>2. PICK p : Procs = {p}
    BY DEF Alone
  <2>3. FileOK(p) /\ pc[p] = "idle" /\ file # Torn
    BY <2>1, <2>2 DEF SerialInv, Quiet
  <2>4. QED
    BY <2>3 DEF FileOK, Stale
<1>2. QED
  BY <1>1, SerialHolds, PTL
=============================================================================
