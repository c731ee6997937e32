---------------------------- MODULE MCStackEditor ----------------------------
(***************************************************************************)
(* A small instance of StackEditor: four names, one of them inherited, and *)
(* a stack whose card knows itself by the name of another beside the blank *)
(* one, which the tools make larger.                                       *)
(***************************************************************************)
EXTENDS StackEditor, TLC

MCNames == 0 .. 3
MCInherited == {3}
MCBlank == [home |-> 0, card |-> 0, cards |-> 0 :> 0, bad |-> {}]
MCDrafts == {[home |-> 0, card |-> 0, cards |-> 0 :> 1, bad |-> {}]}
=============================================================================
