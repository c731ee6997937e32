-------------------------------- MODULE Votes --------------------------------
(***************************************************************************)
(* One profile of the announce tool and the votes its announcements        *)
(* receive (handleVote of var/www/announce/index.cgi).                     *)
(***************************************************************************)
EXTENDS Reputation

VARIABLES good, bad, score

vars == <<good, bad, score>>

Init == good = 0 /\ bad = 0 /\ score = 0

Upvote ==
  /\ good < MaxVotes
  /\ good' = good + 1
  /\ score' = Score[good + 1, bad]
  /\ UNCHANGED bad

\* Variant: the score is computed before the vote is counted.
StaleDownvote ==
  /\ bad < MaxVotes
  /\ bad' = bad + 1
  /\ score' = Score[good, bad]
  /\ UNCHANGED good

Downvote ==
  /\ bad < MaxVotes
  /\ bad' = bad + 1
  /\ score' = Score[good, bad + 1]
  /\ UNCHANGED good

Next == Upvote \/ Downvote

Spec == Init /\ [][Next]_vars
-----------------------------------------------------------------------------
\* The radicand never goes negative and the score never exceeds 1, so getGrade
\* (lib.js 46-49) always finds a grade and getReachByScore a reach.
GradeIsDefined == score \in 0 .. Unit /\ Grade(score) + 1 \in DOMAIN Reach

\* An upvote raises the score, whatever votes came before (index.cgi 20-22), and
\* a downvote lowers the score of a profile with at least two good votes.
VotesMoveScore ==
  [][/\ good' = good + 1 /\ bad' = bad => score' > score
     /\ bad' = bad + 1 /\ good >= 2 => score' < score]_vars

\* "Downvote bad posts, upvote good posts / Reputation -> # of people you can
\* reach" (templates/index.jade 38-39): a downvote does not raise the reach.
DownvoteNeverRaisesReach ==
  [][bad' = bad + 1 => Grade(score') <= Grade(score)]_vars
=============================================================================
