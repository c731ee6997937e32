--------------------------- MODULE MCApplications ---------------------------
(***************************************************************************)
(* A small instance of Applications: two people apply, from one or two     *)
(* addresses, for one or two logins; no account exists at the start.       *)
(***************************************************************************)
EXTENDS Applications, TLC

CONSTANTS office, home, ada, joe

MCAddresses == {office, home}
MCLogins == {ada, joe}

MCSymmetry == Permutations(MCAddresses) \union Permutations({ada, joe})
=============================================================================
