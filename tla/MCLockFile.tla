----------------------------- MODULE MCLockFile -----------------------------
(***************************************************************************)
(* Small instances of LockFile: three processes that call lock, or three   *)
(* that call lockSync, with stale times.                                   *)
(***************************************************************************)
EXTENDS LockFile

CONSTANTS p1, p2, p3

MCThree == {p1, p2, p3}
MCSync == {{"lockSync"}}
MCPrograms == {{"lock"}, {"lockSync"}}
=============================================================================
