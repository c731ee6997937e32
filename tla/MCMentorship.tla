---------------------------- MODULE MCMentorship ----------------------------
(***************************************************************************)
(* A small instance of Mentorship: a moderator, a member and somebody who  *)
(* applies, and two processes of the web server.                           *)
(***************************************************************************)
EXTENDS Mentorship, TLC

CONSTANTS ann, bob, cyd, p1, p2

MCUsers == {ann, bob, cyd}
MCFounders == {ann}
MCOutsiders == {cyd}
MCSessions == {p1, p2}
Symmetry == Permutations(MCSessions)
=============================================================================
