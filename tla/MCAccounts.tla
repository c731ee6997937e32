----------------------------- MODULE MCAccounts -----------------------------
(***************************************************************************)
(* A small instance of Accounts: the name of ann begins that of anna, and  *)
(* the name of the second shared group is part of anna's.                  *)
(***************************************************************************)
EXTENDS Accounts

CONSTANTS ann, anna

MCNames == {ann, anna}
MCBegins == {<<ann, anna>>}
MCWithin == {<<Extra, anna>>}
=============================================================================
