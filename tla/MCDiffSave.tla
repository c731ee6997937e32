----------------------------- MODULE MCDiffSave -----------------------------
(***************************************************************************)
(* A small instance of DiffSave: two people save the same file.            *)
(***************************************************************************)
EXTENDS DiffSave

CONSTANTS bob, cyd

MCUsers == {bob, cyd}
=============================================================================
