------------------------------ MODULE MCEvents ------------------------------
(***************************************************************************)
(* A small instance of Events: two requests race for one event of two ids, *)
(* for two endpoints.  No symmetry: refinement and liveness are checked.   *)
(***************************************************************************)
EXTENDS Events

CONSTANTS r1, r2, known, unknown, u1, u2

MCRequests == {r1, r2}
MCIds == {known, unknown}
MCEventIds == {known}
MCEndpoints == {u1, u2}
=============================================================================
