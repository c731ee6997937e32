------------------------------- MODULE Events -------------------------------
(***************************************************************************)
(* The RSVP handler of var/www/events/index.cgi.  Every POST is a process  *)
(* of its own (a CGI program): it takes var/lock/events.lock with          *)
(* lib/js/lockfile.js, reads events.json, toggles one RSVP, rewrites the   *)
(* file (truncation and content are two system calls), answers and         *)
(* unlocks.  A process may be killed between any two system calls, and     *)
(* then neither its code nor its exit handler runs again.                  *)
(***************************************************************************)
EXTENDS RsvpTable, Naturals, FiniteSets

CONSTANTS
  Requests,   \* the POST requests, each a process of its own
  MaxKills,   \* bound: how many processes are killed
  MaxFaults   \* bound: how many writes of events.json fail (a full disk)

ASSUME EventsAssumption ==
  /\ IsFiniteSet(Requests)
  /\ MaxKills \in Nat
  /\ MaxFaults \in Nat

VARIABLES
  file,      \* content of events.json
  lockFile,  \* whether events.lock exists
  pc,        \* next step of each process
  req,       \* the body each request posts
  held,      \* the "locks" table of each process names events.lock
  mem,       \* the table a process parsed and toggled
  status,    \* the status line a process printed
  effect,    \* history: what the request did to the table
  first,     \* history: the table before the first request
  kills, faults

vars == <<file, lockFile, pc, req, held, mem, status, effect, first, kills,
          faults>>

Steps == {"parse", "lock", "load", "truncate", "write", "reply", "unlock",
          "exit", "done", "dead"}
Statuses == {"none", "200", "500"}
Effects == {"none", "applied", "lost"}

\* A process moves on, or prints its last status and leaves the handler.
Goto(r, from, to) == pc[r] = from /\ pc' = [pc EXCEPT ![r] = to]
Answer(r, s) == status' = [status EXCEPT ![r] = s]
Fail(r, from) == Goto(r, from, "exit") /\ Answer(r, "500")
-----------------------------------------------------------------------------
Init ==
  /\ first \in Tables
  /\ file = first
  /\ lockFile = FALSE
  /\ pc = [r \in Requests |-> "parse"]
  /\ req \in [Requests -> Request]
  /\ held = [r \in Requests |-> FALSE]
  /\ mem = [r \in Requests |-> first]
  /\ status = [r \in Requests |-> "none"]
  /\ effect = [r \in Requests |-> "none"]
  /\ kills = 0
  /\ faults = 0

\* The callback of body.parse: a body that cannot be read, a user other than
\* the one logged in, or an address without "@" is refused before the lock.
Parse(r) ==
  /\ \/ req[r].valid /\ Goto(r, "parse", "lock") /\ UNCHANGED status
     \/ ~req[r].valid /\ Fail(r, "parse")
  /\ UNCHANGED <<file, lockFile, req, held, mem, effect, first, kills, faults>>

\* Variant: the lock file is opened with flag "w" and not "wx".
LockNotExclusive(r) ==
  /\ Goto(r, "lock", "load")
  /\ lockFile' = TRUE
  /\ held' = [held EXCEPT ![r] = TRUE]
  /\ UNCHANGED <<file, req, mem, status, effect, first, kills, faults>>

\* Variant: the error of lockSync is swallowed and the handler goes on.
LockIgnored(r) ==
  /\ Goto(r, "lock", "load")
  /\ lockFile' = TRUE
  /\ held' = [held EXCEPT ![r] = @ \/ ~lockFile]
  /\ UNCHANGED <<file, req, mem, status, effect, first, kills, faults>>

\* Variant: a taken lock is polled for, without a limit.
LockSpins(r) ==
  /\ pc[r] = "lock"
  /\ \/ ~lockFile /\ LockIgnored(r)
     \/ lockFile /\ UNCHANGED vars

\* lockSync without options: open(O_CREAT|O_EXCL) succeeds and the table of
\* held locks names the file, or the error is thrown at once.
Lock(r) ==
  /\ \/ /\ ~lockFile
        /\ Goto(r, "lock", "load")
        /\ lockFile' = TRUE
        /\ held' = [held EXCEPT ![r] = TRUE]
        /\ UNCHANGED status
     \/ /\ lockFile
        /\ Fail(r, "lock")
        /\ UNCHANGED <<lockFile, held>>
  /\ UNCHANGED <<file, req, mem, effect, first, kills, faults>>

\* require(eventsPath) throws on a torn file, and the process ends without a
\* status; an id that does not name exactly one event is answered 500; else
\* the RSVP is toggled in memory.
Load(r) ==
  /\ \/ /\ file = Torn
        /\ Goto(r, "load", "exit")
        /\ UNCHANGED <<mem, status>>
     \/ /\ file # Torn
        /\ req[r].id \notin Events
        /\ Fail(r, "load")
        /\ UNCHANGED mem
     \/ /\ file # Torn
        /\ req[r].id \in Events
        /\ Goto(r, "load", "truncate")
        /\ mem' = [mem EXCEPT ![r] = Toggle(file, req[r])]
        /\ UNCHANGED status
  /\ UNCHANGED <<file, lockFile, req, held, effect, first, kills, faults>>

\* writeFileSync, first half: open(O_TRUNC).
Truncate(r) ==
  /\ Goto(r, "truncate", "write")
  /\ file' = Torn
  /\ UNCHANGED <<lockFile, req, held, mem, status, effect, first, kills,
                 faults>>

\* writeFileSync, second half: the content.
Write(r) ==
  /\ Goto(r, "write", "reply")
  /\ file' = mem[r]
  /\ effect' = [effect EXCEPT ![r] = "applied"]
  /\ UNCHANGED <<lockFile, req, held, mem, status, first, kills, faults>>

\* The second half fails: 500, and the file stays truncated.
WriteFails(r) ==
  /\ faults < MaxFaults
  /\ faults' = faults + 1
  /\ Fail(r, "write")
  /\ effect' = [effect EXCEPT ![r] = "lost"]
  /\ UNCHANGED <<file, lockFile, req, held, mem, first, kills>>

\* The 200 is printed before the lock is released.
Reply(r) ==
  /\ Goto(r, "reply", "unlock")
  /\ Answer(r, "200")
  /\ UNCHANGED <<file, lockFile, req, held, mem, effect, first, kills, faults>>

\* unlockSync: unlink whatever has the name, forget the lock.
Unlock(r) ==
  /\ Goto(r, "unlock", "exit")
  /\ lockFile' = FALSE
  /\ held' = [held EXCEPT ![r] = FALSE]
  /\ UNCHANGED <<file, req, mem, status, effect, first, kills, faults>>

\* Variant: the library has no exit listener.
ExitWithoutCleanup(r) ==
  /\ Goto(r, "exit", "done")
  /\ UNCHANGED <<file, lockFile, req, held, mem, status, effect, first, kills,
                 faults>>

\* The process ends, normally or by an uncaught exception: the exit listener
\* of lockfile.js unlocks what the table still names.
Exit(r) ==
  /\ Goto(r, "exit", "done")
  /\ lockFile' = (lockFile /\ ~held[r])
  /\ held' = [held EXCEPT ![r] = FALSE]
  /\ UNCHANGED <<file, req, mem, status, effect, first, kills, faults>>

\* SIGKILL, or the machine goes down: no exit listener.
Kill(r) ==
  /\ kills < MaxKills
  /\ kills' = kills + 1
  /\ pc[r] \notin {"done", "dead"}
  /\ pc' = [pc EXCEPT ![r] = "dead"]
  /\ effect' = [effect EXCEPT ![r] = IF pc[r] = "write" THEN "lost" ELSE @]
  /\ UNCHANGED <<file, lockFile, req, held, mem, status, first, faults>>

Step(r) == Parse(r) \/ Lock(r) \/ Load(r) \/ Truncate(r) \/ Write(r)
             \/ WriteFails(r) \/ Reply(r) \/ Unlock(r) \/ Exit(r)

Done == (\A r \in Requests : pc[r] \in {"done", "dead"}) /\ UNCHANGED vars

Next == (\E r \in Requests : Step(r) \/ Kill(r)) \/ Done

Spec == Init /\ [][Next]_vars

\* A process that has not been killed is scheduled until it ends.
FairSpec == Spec /\ \A r \in Requests : WF_vars(Step(r))
-----------------------------------------------------------------------------
TypeOK ==
  /\ file \in Tables \union {Torn}
  /\ lockFile \in BOOLEAN
  /\ pc \in [Requests -> Steps]
  /\ req \in [Requests -> Request]
  /\ held \in [Requests -> BOOLEAN]
  /\ mem \in [Requests -> Tables]
  /\ status \in [Requests -> Statuses]
  /\ effect \in [Requests -> Effects]
  /\ first \in Tables
  /\ kills \in Nat
  /\ faults \in Nat

\* The steps between the lock and its release.
Critical == {"load", "truncate", "write", "reply", "unlock"}

\* At most one process is between lockSync and unlockSync (index.cgi 30-63),
\* whatever was killed before: an orphaned lock shuts everybody out.
MutualExclusion ==
  \A r, s \in Requests :
    pc[r] \in Critical /\ pc[s] \in Critical => r = s

\* The requests that were written to the file, and those of a set that toggle
\* endpoint u of event e.
Applied == {r \in Requests : effect[r] = "applied"}
Toggling(S, e, u) == {r \in S : req[r].id = e /\ req[r].endpoint = u}
IsOdd(n) == n % 2 = 1

\* A table is what the first one becomes when the requests of S toggle it.
ReflectsExactly(table, S) ==
  \A e \in Events, u \in Endpoints :
    IF IsOdd(Cardinality(Toggling(S, e, u)))
    THEN u \in table[e] <=> u \notin first[e]
    ELSE u \in table[e] <=> u \in first[e]

\* No RSVP is lost and none is applied twice: as long as the file is readable,
\* it reflects every write of every process, each once (index.cgi 36-58).
NoLostRsvp == file # Torn => ReflectsExactly(file, Applied)

\* A lock file that nobody will remove was left by a killed process: every
\* other way out of the handler, the early returns and exceptions included,
\* releases the lock (index.cgi 41 and 57 rely on the exit listener).
OrphanedOnlyByKill ==
  lockFile => \E r \in Requests : held[r] /\ pc[r] # "done"

\* A process that asks for the lock ends, whoever holds or orphaned it.
EveryRequestEnds ==
  \A r \in Requests : pc[r] = "lock" ~> pc[r] \in {"done", "dead"}
-----------------------------------------------------------------------------
(***************************************************************************)
(* Refinement.  The instant of an RSVP is the truncation of the file: from *)
(* then on the table is the one in the memory of the writer.  An answer of *)
(* 200 stays one when its process is killed later.                         *)
(***************************************************************************)
Writing == {r \in Requests : pc[r] = "write"}

absDb == IF Writing = {} THEN file ELSE mem[CHOOSE r \in Writing : TRUE]

absOutcome(r) ==
  IF status[r] = "200" THEN "acknowledged"
  ELSE CASE effect[r] = "lost"                           -> "lost"
         [] effect[r] = "applied" /\ pc[r] = "dead"      -> "unknown"
         [] pc[r] = "reply"                              -> "applied"
         [] pc[r] = "write" /\ effect[r] = "none"        -> "applied"
         [] /\ pc[r] \in {"exit", "done", "dead"}
            /\ effect[r] = "none"                        -> "refused"
         [] OTHER                                        -> "open"

Atomic == INSTANCE AtomicRsvp WITH
            db <- absDb, outcome <- [r \in Requests |-> absOutcome(r)]

\* The handler implements the atomic RSVP service.
ImplementsAtomicRsvp == Atomic!Spec
=============================================================================
