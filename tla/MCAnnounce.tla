----------------------------- MODULE MCAnnounce -----------------------------
(***************************************************************************)
(* Small instances of Announce: one author and two or three readers, or    *)
(* two authors and two readers; one slot when processes do not overlap,    *)
(* two when they race.                                                     *)
(***************************************************************************)
EXTENDS Announce

CONSTANTS ann, bob, cyd, dan, p1, p2

MCUsers == {ann, bob, cyd, dan}
MCFewUsers == {ann, bob, cyd}
MCOneAuthor == {ann}
MCTwoAuthors == {ann, bob}
MCGeneral == {"general"}
MCTopics == {"general", "hacknight"}
MCOneProc == {p1}
MCTwoProcs == {p1, p2}

\* The users who only read are alike, and so are the slots.
MCSymmetry == Permutations(MCTwoProcs) \union Permutations({bob, cyd})
=============================================================================
