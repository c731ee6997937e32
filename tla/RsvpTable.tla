------------------------------ MODULE RsvpTable ------------------------------
(***************************************************************************)
(* The data of the events page: srv/events/events.json as a table from     *)
(* event ids to the endpoints ("user:..." or "email:...") that RSVPed.     *)
(* Everything else an event record holds (name, address, timestamp) is     *)
(* left out: no RSVP reads or writes it.                                   *)
(***************************************************************************)
CONSTANTS
  Ids,        \* every value the id field of a request can take
  Events,     \* the ids that name exactly one event of the file
  Endpoints,  \* the users and e-mail addresses that RSVP
  Torn        \* content of a file that was truncated and not yet rewritten

Tables == [Events -> SUBSET Endpoints]

ASSUME TableAssumption == Events \subseteq Ids /\ Torn \notin Tables

\* What a POST asks for; "valid" is what the checks of the body decide.
Request == [id : Ids, endpoint : Endpoints, valid : BOOLEAN]

\* An RSVP is a switch: the endpoint is pushed when absent, spliced out when
\* present.
Toggle(table, q) ==
  [table EXCEPT ![q.id] = IF q.endpoint \in @ THEN @ \ {q.endpoint}
                                              ELSE @ \union {q.endpoint}]
=============================================================================
