---------------------------- MODULE EventsProofs ----------------------------
(***************************************************************************)
(* Proofs about Events: type correctness, mutual exclusion under the lock  *)
(* file, and that no RSVP is lost, for any number of requests, kills and   *)
(* failed writes.                                                          *)
(***************************************************************************)
EXTENDS Events, FiniteSetTheorems, TLAPS

USE DEF Goto, Answer, Fail

LEMMA ToggleType ==
  ASSUME NEW t \in Tables, NEW q \in Request
  PROVE  Toggle(t, q) \in Tables
<1> DEFINE u == IF q.endpoint \in t[q.id] THEN t[q.id] \ {q.endpoint}
                                          ELSE t[q.id] \union {q.endpoint}
<1>1. Toggle(t, q) = [t EXCEPT ![q.id] = u]
  BY DEF Toggle
<1>2. q.endpoint \in Endpoints
  BY DEF Request
<1>3. CASE q.id \in Events
  <2>1. u \in SUBSET Endpoints
    BY <1>2, <1>3 DEF Tables
  <2> HIDE DEF u
  <2>2. QED
    BY <1>1, <2>1 DEF Tables
<1>4. CASE q.id \notin Events
  <2> HIDE DEF u
  <2>1. QED
    BY <1>1, <1>4 DEF Tables
<1>5. QED
  BY <1>3, <1>4

\* Every state is well typed: nothing the handler stores in events.json, in the
\* process or in the lock table leaves its domain (index.cgi 16-64).
THEOREM TypeCorrect == Spec => []TypeOK
<1>1. Init => TypeOK
  <2> SUFFICES ASSUME Init PROVE TypeOK
    OBVIOUS
  <2> USE DEF Init
  <2>1. lockFile \in BOOLEAN /\ held \in [Requests -> BOOLEAN]
    BY Zenon
  <2>2. pc \in [Requests -> Steps] /\ status \in [Requests -> Statuses]
        /\ effect \in [Requests -> Effects] /\ mem \in [Requests -> Tables]
    BY DEF Steps, Statuses, Effects
  <2>3. QED
    BY <2>1, <2>2 DEF TypeOK
<1>2. TypeOK /\ [Next]_vars => TypeOK'
  <2> SUFFICES ASSUME TypeOK, [Next]_vars PROVE TypeOK'
    OBVIOUS
  <2> USE EventsAssumption, TableAssumption
      DEF TypeOK, Steps, Statuses, Effects
  <2>1. ASSUME NEW r \in Requests, Parse(r) PROVE TypeOK'
    BY <2>1 DEF Parse
  <2>2. ASSUME NEW r \in Requests, Lock(r) PROVE TypeOK'
    <3>1. held' \in [Requests -> BOOLEAN] /\ lockFile' \in BOOLEAN
      BY <2>2, Zenon DEF Lock
    <3>2. QED
      BY <2>2, <3>1 DEF Lock
  <2>3. ASSUME NEW r \in Requests, Load(r) PROVE TypeOK'
    <3>1. ASSUME file # Torn PROVE Toggle(file, req[r]) \in Tables
      BY <3>1, ToggleType
    <3>2. QED
      BY <2>3, <3>1 DEF Load
  <2>4. ASSUME NEW r \in Requests, Truncate(r) PROVE TypeOK'
    BY <2>4 DEF Truncate
  <2>5. ASSUME NEW r \in Requests, Write(r) PROVE TypeOK'
    BY <2>5 DEF Write
  <2>6. ASSUME NEW r \in Requests, WriteFails(r) PROVE TypeOK'
    BY <2>6 DEF WriteFails
  <2>7. ASSUME NEW r \in Requests, Reply(r) PROVE TypeOK'
    BY <2>7 DEF Reply
  <2>8. ASSUME NEW r \in Requests, Unlock(r) PROVE TypeOK'
    BY <2>8 DEF Unlock
  <2>9. ASSUME NEW r \in Requests, Exit(r) PROVE TypeOK'
    BY <2>9 DEF Exit
  <2>10. ASSUME NEW r \in Requests, Kill(r) PROVE TypeOK'
    BY <2>10 DEF Kill
  <2>11. CASE UNCHANGED vars
    BY <2>11 DEF vars
  <2>12. QED
    BY <2>1, <2>2, <2>3, <2>4, <2>5, <2>6, <2>7, <2>8, <2>9, <2>10, <2>11
       DEF Next, Step, Done
<1>3. QED
  BY <1>1, <1>2, PTL DEF Spec
-----------------------------------------------------------------------------
(***************************************************************************)
(* Mutual exclusion.  It is not inductive by itself: a process is in its   *)
(* critical section because its lock table says so, and the tables of all  *)
(* processes, dead ones included, name the file at most once.              *)
(***************************************************************************)
LockInv ==
  /\ \A r \in Requests : pc[r] \in Critical => held[r]
  /\ \A r \in Requests : held[r] => lockFile
  /\ \A r, s \in Requests : held[r] /\ held[s] => r = s

LEMMA LockInvInductive ==
  ASSUME TypeOK, LockInv, [Next]_vars
  PROVE  LockInv'
<1> USE DEF TypeOK, LockInv, Critical, Steps
<1>1. ASSUME NEW r \in Requests, Parse(r) PROVE LockInv'
  BY <1>1 DEF Parse
<1>2. ASSUME NEW r \in Requests, Lock(r) PROVE LockInv'
  BY <1>2 DEF Lock
<1>3. ASSUME NEW r \in Requests, Load(r) PROVE LockInv'
  BY <1>3 DEF Load
<1>4. ASSUME NEW r \in Requests, Truncate(r) PROVE LockInv'
  BY <1>4 DEF Truncate
<1>5. ASSUME NEW r \in Requests, Write(r) PROVE LockInv'
  BY <1>5 DEF Write
<1>6. ASSUME NEW r \in Requests, WriteFails(r) PROVE LockInv'
  BY <1>6 DEF WriteFails
<1>7. ASSUME NEW r \in Requests, Reply(r) PROVE LockInv'
  BY <1>7 DEF Reply
<1>8. ASSUME NEW r \in Requests, Unlock(r) PROVE LockInv'
  BY <1>8 DEF Unlock
<1>9. ASSUME NEW r \in Requests, Exit(r) PROVE LockInv'
  BY <1>9 DEF Exit
<1>10. ASSUME NEW r \in Requests, Kill(r) PROVE LockInv'
  BY <1>10 DEF Kill
<1>11. CASE UNCHANGED vars
  BY <1>11 DEF vars
<1>12. QED
  BY <1>1, <1>2, <1>3, <1>4, <1>5, <1>6, <1>7, <1>8, <1>9, <1>10, <1>11
     DEF Next, Step, Done

LEMMA LockInvHolds == Spec => []LockInv
<1>1. Init => LockInv
  BY DEF Init, LockInv, Critical
<1>2. TypeOK /\ LockInv /\ [Next]_vars => LockInv'
  BY LockInvInductive
<1>3. QED
  BY <1>1, <1>2, TypeCorrect, PTL DEF Spec

\* At most one process is between lockSync and unlockSync (index.cgi 30-63),
\* for any number of requests and any kills.
THEOREM MutualExclusionHolds == Spec => []MutualExclusion
<1>1. LockInv => MutualExclusion
  BY DEF LockInv, MutualExclusion
<1>2. QED
  BY <1>1, LockInvHolds, PTL
-----------------------------------------------------------------------------
(***************************************************************************)
(* No lost RSVP.  What the file holds is what the requests of Applied made *)
(* of the first table; the memory of the process about to rewrite it is    *)
(* one request ahead.  Only the lock keeps that memory from going stale.   *)
(***************************************************************************)
RsvpInv ==
  /\ file # Torn => ReflectsExactly(file, Applied)
  /\ \A r \in Requests :
       /\ pc[r] \in {"parse", "lock", "load", "truncate", "write"} =>
            effect[r] = "none"
       /\ pc[r] \in {"truncate", "write"} =>
            ReflectsExactly(mem[r], Applied \union {r})

\* One more number turns odd into even and even into odd.
LEMMA OddStep == ASSUME NEW n \in Nat PROVE IsOdd(n + 1) <=> ~IsOdd(n)
BY DEF IsOdd

\* A toggle flips one endpoint of one event and leaves the others.
LEMMA ToggleFlips ==
  ASSUME NEW t \in Tables, NEW q \in Request, q.id \in Events,
         NEW e \in Events, NEW u \in Endpoints
  PROVE  IF q.id = e /\ q.endpoint = u
         THEN (u \in Toggle(t, q)[e]) <=> (u \notin t[e])
         ELSE (u \in Toggle(t, q)[e]) <=> (u \in t[e])
<1>1. Toggle(t, q)[e] = IF q.id = e
                        THEN IF q.endpoint \in t[e]
                             THEN t[e] \ {q.endpoint}
                             ELSE t[e] \union {q.endpoint}
                        ELSE t[e]
  BY DEF Toggle, Tables
<1>2. QED
  BY <1>1

\* Toggling in memory accounts for exactly one more request.
LEMMA ToggleReflects ==
  ASSUME TypeOK, NEW t \in Tables, NEW S \in SUBSET Requests,
         NEW r \in Requests, r \notin S, req[r].id \in Events,
         ReflectsExactly(t, S)
  PROVE  ReflectsExactly(Toggle(t, req[r]), S \union {r})
<1> SUFFICES ASSUME NEW e \in Events, NEW u \in Endpoints
             PROVE  IF IsOdd(Cardinality(Toggling(S \union {r}, e, u)))
                    THEN u \in Toggle(t, req[r])[e] <=> u \notin first[e]
                    ELSE u \in Toggle(t, req[r])[e] <=> u \in first[e]
  BY DEF ReflectsExactly
<1> DEFINE q == req[r]
           T == Toggling(S, e, u)
           T2 == Toggling(S \union {r}, e, u)
<1>1. IF IsOdd(Cardinality(T)) THEN u \in t[e] <=> u \notin first[e]
                               ELSE u \in t[e] <=> u \in first[e]
  BY DEF ReflectsExactly
<1>2. IsFiniteSet(T) /\ Cardinality(T) \in Nat
  <2>1. T \subseteq Requests
    BY DEF Toggling
  <2>2. QED
    BY <2>1, EventsAssumption, FS_Subset, FS_CardinalityType
<1>3. CASE q.id = e /\ q.endpoint = u
  <2>1. T2 = T \union {r} /\ r \notin T
    BY <1>3 DEF Toggling
  <2>2. Cardinality(T2) = Cardinality(T) + 1
    BY <2>1, <1>2, FS_AddElement
  <2>3. IsOdd(Cardinality(T2)) <=> ~IsOdd(Cardinality(T))
    BY <2>2, <1>2, OddStep
  <2>4. (u \in Toggle(t, q)[e]) <=> ~(u \in t[e])
    BY <1>3, ToggleFlips DEF TypeOK
  <2>5. QED
    BY <1>1, <2>3, <2>4
<1>4. CASE ~(q.id = e /\ q.endpoint = u)
  <2>1. T2 = T
    BY <1>4 DEF Toggling
  <2>2. (u \in Toggle(t, q)[e]) <=> (u \in t[e])
    BY <1>4, ToggleFlips DEF TypeOK
  <2>3. QED
    BY <1>1, <2>1, <2>2
<1>5. QED
  BY <1>3, <1>4

\* The invariant is kept: what the process in the critical section computed
\* stays true because no other process writes the file meanwhile.
LEMMA RsvpInvInductive ==
  ASSUME TypeOK, LockInv, RsvpInv, [Next]_vars
  PROVE  RsvpInv'
<1> USE DEF TypeOK, Steps, Effects
<1> DEFINE Quiet == UNCHANGED <<file, req, mem, effect, first>>
<1>1. ASSUME Quiet,
             \A x \in Requests :
               pc'[x] \in {"parse", "lock", "load", "truncate", "write"} =>
                 pc[x] \in {"parse", "lock", "load", "truncate", "write"},
             \A x \in Requests :
               pc'[x] \in {"truncate", "write"} => pc[x] \in {"truncate", "write"}
      PROVE  RsvpInv'
  BY <1>1 DEF RsvpInv, ReflectsExactly, Toggling, Applied
<1>2. ASSUME NEW r \in Requests, Parse(r) PROVE RsvpInv'
  BY <1>2, <1>1 DEF Parse
<1>3. ASSUME NEW r \in Requests, Lock(r) PROVE RsvpInv'
  BY <1>3, <1>1 DEF Lock
<1>4. ASSUME NEW r \in Requests, Load(r) PROVE RsvpInv'
  <2>1. CASE file = Torn \/ req[r].id \notin Events
    BY <1>4, <2>1, <1>1 DEF Load
  <2>2. CASE file # Torn /\ req[r].id \in Events
    <3>1. /\ UNCHANGED <<file, req, effect, first>>
          /\ pc[r] = "load"
          /\ pc' = [pc EXCEPT ![r] = "truncate"]
          /\ mem' = [mem EXCEPT ![r] = Toggle(file, req[r])]
      BY <1>4, <2>2 DEF Load
    <3>2. file \in Tables /\ effect[r] = "none" /\ r \notin Applied
          /\ Applied \subseteq Requests
      BY <2>2, <3>1 DEF RsvpInv, Applied
    <3>3. ReflectsExactly(Toggle(file, req[r]), Applied \union {r})
      BY <2>2, <3>2, ToggleReflects DEF RsvpInv
    <3>4. Applied' = Applied
      BY <3>1 DEF Applied
    <3>5. ReflectsExactly(mem[r], Applied \union {r})'
      BY <3>1, <3>3, <3>4 DEF ReflectsExactly, Toggling
    <3>6. \A x \in Requests : x # r /\ pc[x] \in {"truncate", "write"} =>
                             ReflectsExactly(mem[x], Applied \union {x})'
      BY <3>1, <3>4 DEF RsvpInv, ReflectsExactly, Toggling
    <3>7. (file # Torn => ReflectsExactly(file, Applied))'
      BY <3>1, <3>4 DEF RsvpInv, ReflectsExactly, Toggling
    <3>8. QED
      BY <3>1, <3>5, <3>6, <3>7 DEF RsvpInv
  <2>3. QED
    BY <2>1, <2>2
<1>5. ASSUME NEW r \in Requests, Truncate(r) PROVE RsvpInv'
  <2>1. /\ UNCHANGED <<req, mem, effect, first>>
        /\ file' = Torn
        /\ pc[r] = "truncate"
        /\ pc' = [pc EXCEPT ![r] = "write"]
    BY <1>5 DEF Truncate
  <2>2. QED
    BY <2>1 DEF RsvpInv, ReflectsExactly, Toggling, Applied
<1>6. ASSUME NEW r \in Requests, Write(r) PROVE RsvpInv'
  <2>1. /\ UNCHANGED <<req, mem, first>>
        /\ file' = mem[r]
        /\ pc[r] = "write"
        /\ pc' = [pc EXCEPT ![r] = "reply"]
        /\ effect' = [effect EXCEPT ![r] = "applied"]
    BY <1>6 DEF Write
  <2>2. Applied' = Applied \union {r}
    BY <2>1 DEF Applied
  <2>3. ReflectsExactly(file, Applied)'
    BY <2>1, <2>2 DEF RsvpInv, ReflectsExactly, Toggling
  <2>4. \A x \in Requests : pc'[x] \notin {"truncate", "write"}
    BY <2>1 DEF LockInv, Critical
  <2>5. QED
    BY <2>1, <2>3, <2>4 DEF RsvpInv
<1>7. ASSUME NEW r \in Requests, WriteFails(r) PROVE RsvpInv'
  <2>1. /\ UNCHANGED <<file, req, mem, first>>
        /\ pc[r] = "write"
        /\ pc' = [pc EXCEPT ![r] = "exit"]
        /\ effect' = [effect EXCEPT ![r] = "lost"]
    BY <1>7 DEF WriteFails
  <2>2. Applied' = Applied
    BY <2>1 DEF RsvpInv, Applied
  <2>3. QED
    BY <2>1, <2>2 DEF RsvpInv, ReflectsExactly, Toggling
<1>8. ASSUME NEW r \in Requests, Reply(r) PROVE RsvpInv'
  BY <1>8, <1>1 DEF Reply
<1>9. ASSUME NEW r \in Requests, Unlock(r) PROVE RsvpInv'
  BY <1>9, <1>1 DEF Unlock
<1>10. ASSUME NEW r \in Requests, Exit(r) PROVE RsvpInv'
  BY <1>10, <1>1 DEF Exit
<1>11. ASSUME NEW r \in Requests, Kill(r) PROVE RsvpInv'
  <2>1. /\ UNCHANGED <<file, req, mem, first>>
        /\ pc' = [pc EXCEPT ![r] = "dead"]
        /\ effect' = [effect EXCEPT ![r] = IF pc[r] = "write" THEN "lost"
                                                             ELSE effect[r]]
    BY <1>11 DEF Kill
  <2>2. Applied' = Applied
    BY <2>1 DEF RsvpInv, Applied
  <2>3. QED
    BY <2>1, <2>2 DEF RsvpInv, ReflectsExactly, Toggling
<1>12. CASE UNCHANGED vars
  BY <1>12, <1>1 DEF vars
<1>13. QED
  BY <1>2, <1>3, <1>4, <1>5, <1>6, <1>7, <1>8, <1>9, <1>10, <1>11, <1>12
     DEF Next, Step, Done

\* Before the first request nothing was applied.
LEMMA RsvpInvInit == Init => RsvpInv
<1> SUFFICES ASSUME Init PROVE RsvpInv
  OBVIOUS
<1>1. Applied = {}
  BY DEF Init, Applied
<1>2. \A e \in Events, u \in Endpoints : Toggling({}, e, u) = {}
  BY DEF Toggling
<1>3. ~IsOdd(Cardinality({}))
  BY FS_EmptySet DEF IsOdd
<1>4. ReflectsExactly(file, Applied)
  <2> SUFFICES ASSUME NEW e \in Events, NEW u \in Endpoints
               PROVE  IF IsOdd(Cardinality(Toggling(Applied, e, u)))
                      THEN u \in file[e] <=> u \notin first[e]
                      ELSE u \in file[e] <=> u \in first[e]
    BY DEF ReflectsExactly
  <2>1. ~IsOdd(Cardinality(Toggling(Applied, e, u)))
    BY <1>1, <1>2, <1>3
  <2>2. file = first
    BY DEF Init
  <2>3. QED
    BY <2>1, <2>2
<1>5. QED
  BY <1>4 DEF RsvpInv, Init

\* No RSVP is lost and none is applied twice, for any number of racing
\* requests, kills and failed writes (index.cgi 36-58).
THEOREM NoLostRsvpHolds == Spec => []NoLostRsvp
<1>1. TypeOK /\ LockInv /\ RsvpInv /\ [Next]_vars => RsvpInv'
  BY RsvpInvInductive
<1>2. RsvpInv => NoLostRsvp
  BY DEF RsvpInv, NoLostRsvp
<1>3. QED
  BY <1>1, <1>2, RsvpInvInit, TypeCorrect, LockInvHolds, PTL DEF Spec
-----------------------------------------------------------------------------
(***************************************************************************)
(* Orphaned locks.  While the lock file exists some table names it, and    *)
(* the table of a process that ended by itself names nothing: its exit     *)
(* listener ran.                                                           *)
(***************************************************************************)
OrphanInv ==
  /\ lockFile => \E r \in Requests : held[r]
  /\ \A r \in Requests : held[r] => pc[r] \in Critical \union {"exit", "dead"}

LEMMA OrphanInvInductive ==
  ASSUME TypeOK, LockInv, OrphanInv, [Next]_vars
  PROVE  OrphanInv'
<1> USE DEF TypeOK, LockInv, OrphanInv, Critical, Steps
<1>1. ASSUME NEW r \in Requests, Parse(r) PROVE OrphanInv'
  BY <1>1 DEF Parse
<1>2. ASSUME NEW r \in Requests, Lock(r) PROVE OrphanInv'
  BY <1>2 DEF Lock
<1>3. ASSUME NEW r \in Requests, Load(r) PROVE OrphanInv'
  BY <1>3 DEF Load
<1>4. ASSUME NEW r \in Requests, Truncate(r) PROVE OrphanInv'
  BY <1>4 DEF Truncate
<1>5. ASSUME NEW r \in Requests, Write(r) PROVE OrphanInv'
  BY <1>5 DEF Write
<1>6. ASSUME NEW r \in Requests, WriteFails(r) PROVE OrphanInv'
  BY <1>6 DEF WriteFails
<1>7. ASSUME NEW r \in Requests, Reply(r) PROVE OrphanInv'
  BY <1>7 DEF Reply
<1>8. ASSUME NEW r \in Requests, Unlock(r) PROVE OrphanInv'
  BY <1>8 DEF Unlock
<1>9. ASSUME NEW r \in Requests, Exit(r) PROVE OrphanInv'
  BY <1>9 DEF Exit
<1>10. ASSUME NEW r \in Requests, Kill(r) PROVE OrphanInv'
  BY <1>10 DEF Kill
<1>11. CASE UNCHANGED vars
  BY <1>11 DEF vars
<1>12. QED
  BY <1>1, <1>2, <1>3, <1>4, <1>5, <1>6, <1>7, <1>8, <1>9, <1>10, <1>11
     DEF Next, Step, Done

\* A lock file that no living process will remove was left by a killed one,
\* whatever way out of the handler the others took (index.cgi 41 and 57).
THEOREM OrphanedOnlyByKillHolds == Spec => []OrphanedOnlyByKill
<1>1. Init => OrphanInv
  BY DEF Init, OrphanInv
<1>2. TypeOK /\ LockInv /\ OrphanInv /\ [Next]_vars => OrphanInv'
  BY OrphanInvInductive
<1>3. OrphanInv => OrphanedOnlyByKill
  BY DEF OrphanInv, OrphanedOnlyByKill, Critical
<1>4. QED
  BY <1>1, <1>2, <1>3, TypeCorrect, LockInvHolds, PTL DEF Spec
-----------------------------------------------------------------------------
(***************************************************************************)
(* Refinement.  How far a request came decides its status and its effect,  *)
(* a file about to be rewritten is still the one that was read, and while  *)
(* it is being rewritten it is torn.                                       *)
(***************************************************************************)
Stage(r) ==
  /\ pc[r] \in {"parse", "lock", "load", "truncate", "write"} =>
       status[r] = "none" /\ effect[r] = "none"
  /\ pc[r] = "reply" => status[r] = "none" /\ effect[r] = "applied"
  /\ pc[r] = "unlock" => status[r] = "200"
  /\ pc[r] \in {"exit", "done"} /\ effect[r] = "applied" => status[r] = "200"

RefInv ==
  /\ \A r \in Requests : Stage(r)
  /\ \A r \in Requests : pc[r] = "write" => file = Torn
  /\ \A r \in Requests : pc[r] = "truncate" =>
       /\ file # Torn
       /\ req[r].id \in Events
       /\ mem[r] = Toggle(file, req[r])

LEMMA RefInvInductive ==
  ASSUME TypeOK, LockInv, RefInv, [Next]_vars
  PROVE  RefInv'
<1> USE DEF TypeOK, RefInv, Stage, Steps, Statuses, Effects
<1>1. ASSUME NEW r \in Requests, Parse(r) PROVE RefInv'
  BY <1>1 DEF Parse
<1>2. ASSUME NEW r \in Requests, Lock(r) PROVE RefInv'
  BY <1>2 DEF Lock
<1>3. ASSUME NEW r \in Requests, Load(r) PROVE RefInv'
  BY <1>3 DEF Load
<1>4. ASSUME NEW r \in Requests, Truncate(r) PROVE RefInv'
  BY <1>4 DEF Truncate, LockInv, Critical
<1>5. ASSUME NEW r \in Requests, Write(r) PROVE RefInv'
  BY <1>5 DEF Write, LockInv, Critical
<1>6. ASSUME NEW r \in Requests, WriteFails(r) PROVE RefInv'
  BY <1>6 DEF WriteFails
<1>7. ASSUME NEW r \in Requests, Reply(r) PROVE RefInv'
  BY <1>7 DEF Reply
<1>8. ASSUME NEW r \in Requests, Unlock(r) PROVE RefInv'
  BY <1>8 DEF Unlock
<1>9. ASSUME NEW r \in Requests, Exit(r) PROVE RefInv'
  BY <1>9 DEF Exit
<1>10. ASSUME NEW r \in Requests, Kill(r) PROVE RefInv'
  BY <1>10 DEF Kill
<1>11. CASE UNCHANGED vars
  BY <1>11 DEF vars
<1>12. QED
  BY <1>1, <1>2, <1>3, <1>4, <1>5, <1>6, <1>7, <1>8, <1>9, <1>10, <1>11
     DEF Next, Step, Done

LEMMA RefInvHolds == Spec => []RefInv
<1>1. Init => RefInv
  BY DEF Init, RefInv, Stage
<1>2. TypeOK /\ LockInv /\ RefInv /\ [Next]_vars => RefInv'
  BY RefInvInductive
<1>3. QED
  BY <1>1, <1>2, TypeCorrect, LockInvHolds, PTL DEF Spec

\* A step of r leaves what became of the other requests, and moves r.
LEMMA OnlyOneMoves ==
  ASSUME NEW r \in Requests, NEW from, NEW to,
         absOutcome(r) = from, absOutcome(r)' = to,
         \A x \in Requests \ {r} : absOutcome(x)' = absOutcome(x)
  PROVE  Atomic!Become(r, from, to)
BY DEF Atomic!Become

\* What became of a request is decided by its own step, status and effect.
LEMMA OutcomeIsLocal ==
  ASSUME NEW x \in Requests, pc'[x] = pc[x], status'[x] = status[x],
         effect'[x] = effect[x]
  PROVE  absOutcome(x)' = absOutcome(x)
BY DEF absOutcome

\* While nobody rewrites the file, the table is the file.
LEMMA DbIsFile == ASSUME Writing = {} PROVE absDb = file
BY DEF absDb

\* While r rewrites the file, the table is the one in the memory of r.
LEMMA DbIsMemory == ASSUME NEW r, Writing = {r} PROVE absDb = mem[r]
BY DEF absDb

\* The table stays while the same process, or none, rewrites the file, and
\* neither the file nor the memory of that process changes.
LEMMA SameDb ==
  ASSUME Writing' = Writing, file' = file, \A x \in Writing : mem'[x] = mem[x]
  PROVE  absDb' = absDb
<1>1. CASE Writing = {}
  BY <1>1 DEF absDb
<1>2. CASE Writing # {}
  <2>1. (CHOOSE x \in Writing : TRUE) \in Writing
    BY <1>2
  <2>2. (CHOOSE x \in Writing : TRUE)' = (CHOOSE x \in Writing : TRUE)
    OBVIOUS
  <2>3. QED
    BY <1>2, <2>1, <2>2 DEF absDb
<1>3. QED
  BY <1>1, <1>2

\* The initial states are initial states of the atomic service.
LEMMA RefinesInit == Init => Atomic!Init
<1> SUFFICES ASSUME Init PROVE Atomic!Init
  OBVIOUS
<1>1. absDb = first /\ first \in Tables
  BY DEF Init, absDb, Writing
<1>2. \A r \in Requests : absOutcome(r) = "open"
  BY DEF Init, absOutcome
<1>3. QED
  BY <1>1, <1>2 DEF Atomic!Init, Tables, Atomic!Tables

\* Every step of a handler is a step of the atomic service or changes nothing
\* of it.
LEMMA RefinesNext ==
  ASSUME TypeOK, LockInv, RefInv, [Next]_vars
  PROVE  [Atomic!Next]_Atomic!vars
<1> USE DEF TypeOK, Steps, Statuses, Effects
<1> DEFINE Stutter == UNCHANGED Atomic!vars
           Others(r) == \A x \in Requests \ {r} : absOutcome(x)' = absOutcome(x)
<1>1. ASSUME \A x \in Requests : absOutcome(x)' = absOutcome(x), absDb' = absDb
      PROVE  Stutter
  BY <1>1 DEF Atomic!vars
<1>2. ASSUME NEW r \in Requests, Parse(r) PROVE [Atomic!Next]_Atomic!vars
  <2>1. Others(r)
    BY <1>2, OutcomeIsLocal DEF Parse
  <2>2. absDb' = absDb
    <3>1. Writing' = Writing
      BY <1>2 DEF Parse, Writing
    <3>2. QED
      BY <1>2, <3>1, SameDb DEF Parse
  <2>3. absOutcome(r) = "open"
    BY <1>2 DEF Parse, RefInv, Stage, absOutcome
  <2>4. CASE req[r].valid
    <3>1. absOutcome(r)' = "open"
      BY <1>2, <2>4 DEF Parse, RefInv, Stage, absOutcome
    <3>2. QED
      BY <1>1, <2>1, <2>2, <2>3, <3>1
  <2>5. CASE ~req[r].valid
    <3>1. absOutcome(r)' = "refused"
      BY <1>2, <2>5 DEF Parse, RefInv, Stage, absOutcome
    <3>2. QED
      BY <2>1, <2>2, <2>3, <3>1, OnlyOneMoves DEF Atomic!Next, Atomic!Refuse
  <2>6. QED
    BY <2>4, <2>5
<1>3. ASSUME NEW r \in Requests, Lock(r) PROVE [Atomic!Next]_Atomic!vars
  <2>1. Others(r)
    BY <1>3, OutcomeIsLocal DEF Lock
  <2>2. absDb' = absDb
    <3>1. Writing' = Writing
      BY <1>3 DEF Lock, Writing
    <3>2. QED
      BY <1>3, <3>1, SameDb DEF Lock
  <2>3. absOutcome(r) = "open"
    BY <1>3 DEF Lock, RefInv, Stage, absOutcome
  <2>4. CASE ~lockFile
    <3>1. absOutcome(r)' = "open"
      BY <1>3, <2>4 DEF Lock, RefInv, Stage, absOutcome
    <3>2. QED
      BY <1>1, <2>1, <2>2, <2>3, <3>1
  <2>5. CASE lockFile
    <3>1. absOutcome(r)' = "refused"
      BY <1>3, <2>5 DEF Lock, RefInv, Stage, absOutcome
    <3>2. QED
      BY <2>1, <2>2, <2>3, <3>1, OnlyOneMoves DEF Atomic!Next, Atomic!Refuse
  <2>6. QED
    BY <2>4, <2>5
<1>4. ASSUME NEW r \in Requests, Load(r) PROVE [Atomic!Next]_Atomic!vars
  <2>1. Others(r)
    BY <1>4, OutcomeIsLocal DEF Load
  <2>2. absDb' = absDb
    <3>1. Writing = {} /\ Writing' = {}
      BY <1>4 DEF Load, Writing, LockInv, Critical
    <3>2. QED
      BY <1>4, <3>1, SameDb DEF Load
  <2>3. absOutcome(r) = "open"
    BY <1>4 DEF Load, RefInv, Stage, absOutcome
  <2>4. CASE file # Torn /\ req[r].id \in Events
    <3>1. absOutcome(r)' = "open"
      BY <1>4, <2>4 DEF Load, RefInv, Stage, absOutcome
    <3>2. QED
      BY <1>1, <2>1, <2>2, <2>3, <3>1
  <2>5. CASE ~(file # Torn /\ req[r].id \in Events)
    <3>1. absOutcome(r)' = "refused"
      BY <1>4, <2>5 DEF Load, RefInv, Stage, absOutcome
    <3>2. QED
      BY <2>1, <2>2, <2>3, <3>1, OnlyOneMoves DEF Atomic!Next, Atomic!Refuse
  <2>6. QED
    BY <2>4, <2>5
<1>5. ASSUME NEW r \in Requests, Truncate(r) PROVE [Atomic!Next]_Atomic!vars
  <2>1. Others(r)
    BY <1>5, OutcomeIsLocal DEF Truncate
  <2>2. absOutcome(r) = "open" /\ absOutcome(r)' = "applied"
    BY <1>5 DEF Truncate, RefInv, Stage, absOutcome
  <2>3. Atomic!Become(r, "open", "applied")
    BY <2>1, <2>2, OnlyOneMoves
  <2>4. Writing = {} /\ Writing' = {r}
    BY <1>5 DEF Truncate, Writing, LockInv, Critical
  <2>5. absDb = file
    BY <2>4, DbIsFile
  <2>6. absDb' = mem[r]
    BY <1>5, <2>4 DEF absDb, Truncate
  <2>7. file # Torn /\ req[r].id \in Events /\ mem[r] = Toggle(file, req[r])
    BY <1>5 DEF Truncate, RefInv
  <2>8. req[r] \in Atomic!Request
        /\ Toggle(file, req[r]) = Atomic!Toggle(file, req[r])
    BY DEF Toggle, Atomic!Toggle, Request, Atomic!Request
  <2>9. Atomic!Apply(r)
    BY <2>3, <2>5, <2>6, <2>7, <2>8 DEF Atomic!Apply
  <2>10. QED
    BY <2>9 DEF Atomic!Next
<1>6. ASSUME NEW r \in Requests, Write(r) PROVE [Atomic!Next]_Atomic!vars
  <2>1. Others(r)
    BY <1>6, OutcomeIsLocal DEF Write
  <2>2. absOutcome(r) = "applied" /\ absOutcome(r)' = "applied"
    BY <1>6 DEF Write, RefInv, Stage, absOutcome
  <2>3. Writing = {r} /\ Writing' = {}
    BY <1>6 DEF Write, Writing, LockInv, Critical
  <2>4. absDb = mem[r]
    BY <2>3, DbIsMemory
  <2>5. absDb' = mem[r]
    BY <1>6, <2>3 DEF absDb, Write
  <2>6. QED
    BY <1>1, <2>1, <2>2, <2>4, <2>5
<1>7. ASSUME NEW r \in Requests, WriteFails(r) PROVE [Atomic!Next]_Atomic!vars
  <2>1. Others(r)
    BY <1>7, OutcomeIsLocal DEF WriteFails
  <2>2. absOutcome(r) = "applied" /\ absOutcome(r)' = "lost"
    BY <1>7 DEF WriteFails, RefInv, Stage, absOutcome
  <2>3. absDb' = Torn
    <3>1. Writing' = {}
      BY <1>7 DEF WriteFails, Writing, LockInv, Critical
    <3>2. file' = Torn
      BY <1>7 DEF WriteFails, RefInv
    <3>3. QED
      BY <3>1, <3>2 DEF absDb
  <2>4. QED
    BY <2>1, <2>2, <2>3, OnlyOneMoves DEF Atomic!Next, Atomic!Lose
<1>8. ASSUME NEW r \in Requests, Reply(r) PROVE [Atomic!Next]_Atomic!vars
  <2>1. Others(r)
    BY <1>8, OutcomeIsLocal DEF Reply
  <2>2. absOutcome(r) = "applied" /\ absOutcome(r)' = "acknowledged"
    BY <1>8 DEF Reply, RefInv, Stage, absOutcome
  <2>3. absDb' = absDb
    <3>1. Writing' = Writing
      BY <1>8 DEF Reply, Writing
    <3>2. QED
      BY <1>8, <3>1, SameDb DEF Reply
  <2>4. QED
    BY <2>1, <2>2, <2>3, OnlyOneMoves DEF Atomic!Next, Atomic!Acknowledge
<1>9. ASSUME NEW r \in Requests, Unlock(r) \/ Exit(r)
      PROVE  [Atomic!Next]_Atomic!vars
  <2>1. Others(r)
    BY <1>9, OutcomeIsLocal DEF Unlock, Exit
  <2>2. absOutcome(r)' = absOutcome(r)
    <3>1. CASE status[r] = "200"
      <4>1. UNCHANGED status
        BY <1>9 DEF Unlock, Exit
      <4>2. absOutcome(r) = "acknowledged" /\ absOutcome(r)' = "acknowledged"
        BY <3>1, <4>1 DEF absOutcome
      <4>3. QED
        BY <4>2
    <3>2. CASE status[r] # "200"
      <4>1. /\ pc[r] = "exit" /\ pc'[r] = "done" /\ effect[r] # "applied"
            /\ UNCHANGED <<status, effect>>
        BY <1>9, <3>2 DEF Unlock, Exit, RefInv, Stage
      <4>2. QED
        BY <3>2, <4>1 DEF absOutcome
    <3>3. QED
      BY <3>1, <3>2
  <2>3. absDb' = absDb
    <3>1. Writing' = Writing
      BY <1>9 DEF Unlock, Exit, Writing
    <3>2. QED
      BY <1>9, <3>1, SameDb DEF Unlock, Exit
  <2>4. QED
    BY <1>1, <2>1, <2>2, <2>3
<1>10. ASSUME NEW r \in Requests, Kill(r) PROVE [Atomic!Next]_Atomic!vars
  <2>1. Others(r)
    BY <1>10, OutcomeIsLocal DEF Kill
  <2>2. CASE pc[r] = "write"
    <3>1. absOutcome(r) = "applied" /\ absOutcome(r)' = "lost"
      BY <1>10, <2>2 DEF Kill, RefInv, Stage, absOutcome
    <3>2. absDb' = Torn
      <4>1. Writing' = {}
        BY <1>10, <2>2 DEF Kill, Writing, LockInv, Critical
      <4>2. file' = Torn
        BY <1>10, <2>2 DEF Kill, RefInv
      <4>3. QED
        BY <4>1, <4>2 DEF absDb
    <3>3. QED
      BY <2>1, <3>1, <3>2, OnlyOneMoves DEF Atomic!Next, Atomic!Lose
  <2>3. CASE pc[r] # "write"
    <3>1. absDb' = absDb
      <4>1. Writing' = Writing
        BY <1>10, <2>3 DEF Kill, Writing
      <4>2. QED
        BY <1>10, <4>1, SameDb DEF Kill
    <3>2. CASE pc[r] \in {"parse", "lock", "load", "truncate"}
      <4>1. absOutcome(r) = "open" /\ absOutcome(r)' = "refused"
        BY <1>10, <3>2 DEF Kill, RefInv, Stage, absOutcome
      <4>2. QED
        BY <2>1, <3>1, <4>1, OnlyOneMoves DEF Atomic!Next, Atomic!Refuse
    <3>3. CASE pc[r] = "reply"
      <4>1. absOutcome(r) = "applied" /\ absOutcome(r)' = "unknown"
        BY <1>10, <3>3 DEF Kill, RefInv, Stage, absOutcome
      <4>2. QED
        BY <2>1, <3>1, <4>1, OnlyOneMoves DEF Atomic!Next, Atomic!Abandon
    <3>4. CASE pc[r] \in {"unlock", "exit"}
      <4>1. absOutcome(r)' = absOutcome(r)
        BY <1>10, <3>4 DEF Kill, RefInv, Stage, absOutcome
      <4>2. QED
        BY <1>1, <2>1, <3>1, <4>1
    <3>5. QED
      BY <1>10, <2>3, <3>2, <3>3, <3>4 DEF Kill
  <2>4. QED
    BY <2>2, <2>3
<1>11. CASE UNCHANGED vars
  <2>1. \A x \in Requests : absOutcome(x)' = absOutcome(x)
    BY <1>11, OutcomeIsLocal DEF vars
  <2>2. absDb' = absDb
    BY <1>11, SameDb DEF vars, Writing
  <2>3. QED
    BY <1>1, <2>1, <2>2
<1>12. QED
  BY <1>2, <1>3, <1>4, <1>5, <1>6, <1>7, <1>8, <1>9, <1>10, <1>11
     DEF Next, Step, Done

\* The handler implements the atomic RSVP service, for any number of racing
\* requests, kills and failed writes: every request takes effect at one
\* instant, its truncation of the file, or never (index.cgi 16-64).
THEOREM RefinesAtomicRsvp == Spec => ImplementsAtomicRsvp
<1>1. TypeOK /\ LockInv /\ RefInv /\ [Next]_vars => [Atomic!Next]_Atomic!vars
  BY RefinesNext
<1>2. QED
  BY <1>1, RefinesInit, TypeCorrect, LockInvHolds, RefInvHolds, PTL
     DEF Spec, ImplementsAtomicRsvp, Atomic!Spec
=============================================================================
