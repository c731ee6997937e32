----------------------------- MODULE AtomicRsvp -----------------------------
(***************************************************************************)
(* What the events page promises: every RSVP is applied at one instant to  *)
(* the current table, or refused and not applied at all; a request that    *)
(* was answered 200 stays applied.  The one thing that can go wrong is     *)
(* that a request is lost while it rewrites the file, and that loses the   *)
(* table with it.                                                          *)
(***************************************************************************)
EXTENDS RsvpTable

CONSTANT Requests   \* the POST requests, each a process of its own

VARIABLES
  db,       \* the table, or Torn once it is lost
  outcome   \* what became of each request

vars == <<db, outcome>>

Outcomes == {"open", "refused", "applied", "acknowledged", "unknown", "lost"}

Become(r, from, to) ==
  /\ outcome[r] = from
  /\ outcome' = [outcome EXCEPT ![r] = to]

Init ==
  /\ db \in Tables
  /\ outcome = [r \in Requests |-> "open"]

Apply(r) ==
  /\ Become(r, "open", "applied")
  /\ db # Torn
  /\ \E q \in Request : q.id \in Events /\ db' = Toggle(db, q)

\* The client is told 200.
Acknowledge(r) == Become(r, "applied", "acknowledged") /\ UNCHANGED db

\* The client is told 500, or the request dies, before anything is changed.
Refuse(r) == Become(r, "open", "refused") /\ UNCHANGED db

\* The request dies after it was applied and before it answered.
Abandon(r) == Become(r, "applied", "unknown") /\ UNCHANGED db

\* The request fails or dies with the file truncated.
Lose(r) == Become(r, "applied", "lost") /\ db' = Torn

Next == \E r \in Requests :
  Apply(r) \/ Acknowledge(r) \/ Refuse(r) \/ Abandon(r) \/ Lose(r)

Spec == Init /\ [][Next]_vars
=============================================================================
