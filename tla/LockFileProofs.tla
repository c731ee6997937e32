--------------------------- MODULE LockFileProofs ---------------------------
(***************************************************************************)
(* Proofs about LockFile: type correctness, and for callers of lock that a *)
(* holder keeps the lock and that one process at a time takes a stale lock *)
(* over, for any number of processes, kills, retries and levels.           *)
(***************************************************************************)
EXTENDS LockFile, TLAPS

USE LockFileAssumption DEF At, Goto

\* The steps of a takeover, from the moment the .STALE file is locked.
Guarding == {"unlink", "link", "drop", "undo"}

(***************************************************************************)
(* A process works with a file one level up only when it locked it, and it *)
(* looks at a lock only while opts.stale is set or when it did; a file of  *)
(* the highest level does not go stale: no process climbs higher.          *)
(***************************************************************************)
DepthOf(p) ==
  /\ pc[p] = "open" => ~guarded[p]
  /\ pc[p] \in Guarding => guarded[p]
  /\ pc[p] = "stat" /\ ~stale[p] => guarded[p]
  /\ pc[p] \in Guarding \union {"stat"} /\ guarded[p] => level[p] < MaxDepth

DepthInv == file[MaxDepth].age # "stale" /\ \A p \in Procs : DepthOf(p)

(***************************************************************************)
(* Who owns which file.  The holder of the lock owns the file; a process   *)
(* that goes on with a takeover owns the .STALE file one level up until it *)
(* removes it, the lock it is about to unlink is stale and so is nobody's, *)
(* and the one it linked is its own.  A process whose opts.stale is not    *)
(* set any more asks for the lock itself and looks at no file.  Ownership  *)
(* is what makes the steps exclusive: a file is somebody's fresh file at   *)
(* most once.                                                              *)
(***************************************************************************)
Owns(p, l) == file[l] = Fresh(p)

OwnOf(p) ==
  /\ pc[p] \notin {"openSync", "statSync", "unlinkSync"}
  /\ pc[p] = "critical" => Owns(p, 0)
  /\ pc[p] \in Guarding \union {"stat"} /\ guarded[p] => Owns(p, level[p] + 1)
  /\ pc[p] = "unlink" => file[level[p]].age = "stale"
  /\ pc[p] = "drop" => Owns(p, level[p])
  /\ ~stale[p] => level[p] = 0 /\ pc[p] \in {"idle", "open", "critical"}

OwnershipInv == TakeoversOnly => \A p \in Procs : OwnOf(p)
-----------------------------------------------------------------------------
\* A file is missing, or it is a record of who works with it and how old it is.
LEMMA FileFacts ==
  /\ None \in Files
  /\ \A p \in Procs : Fresh(p) \in Files /\ Fresh(p) # None
                      /\ Fresh(p).by = p /\ Fresh(p).age = "fresh"
  /\ \A f \in Files : /\ f.by \in Procs \union {Dead, Left}
                      /\ f.age \in {"none", "fresh", "stale"}
                      /\ f.age = "none" <=> f = None
                      /\ f.by \in Procs => f # None
                      /\ f = [by |-> f.by, age |-> f.age]
BY DEF Files, None, Fresh, Dead, Left

LEMMA NewFiles ==
  /\ None \in Files /\ None.age = "none"
  /\ \A p \in Procs : /\ Fresh(p) \in Files /\ Fresh(p).age = "fresh"
                      /\ Fresh(p).by = p
BY FileFacts DEF None

LEMMA LevelFacts ==
  /\ 0 \in Levels /\ MaxDepth \in Levels
  /\ \A l \in Levels : /\ l \in Nat /\ l <= MaxDepth /\ l + 1 # l
                       /\ l < MaxDepth => l + 1 \in Levels
                       /\ l # 0 => l - 1 \in Levels /\ l - 1 < MaxDepth
                                   /\ (l - 1) + 1 = l
BY DEF Levels

\* A file keeps its type when it changes hands or gets older.
LEMMA NewOwner ==
  ASSUME NEW f \in Files, f # None, NEW b \in Procs \union {Dead, Left}
  PROVE  [f EXCEPT !.by = b] \in Files
         /\ [f EXCEPT !.by = b].age = f.age
         /\ [f EXCEPT !.by = b].by = b
BY DEF Files, None

LEMMA Older ==
  ASSUME NEW f \in Files, f # None
  PROVE  [f EXCEPT !.age = "stale"] \in Files
BY DEF Files, None

\* Where a process goes, it is at one of the steps and levels.
Placed == pc \in [Procs -> Steps] /\ level \in [Procs -> Levels]
Counted == tries \in [Procs -> 0 .. Retries]

LEMMA GotoType ==
  ASSUME Placed, NEW p \in Procs, NEW s \in Steps, NEW l \in Levels,
         Goto(p, s, l)
  PROVE  Placed'
BY DEF Placed

LEMMA FailType ==
  ASSUME Placed, Counted, NEW p \in Procs, Fail(p)
  PROVE  Placed' /\ Counted'
BY LevelFacts DEF Placed, Counted, Fail, Steps

LEMMA NotStaleType ==
  ASSUME Placed, Counted, NEW p \in Procs, NotStale(p)
  PROVE  Placed' /\ Counted'
BY LevelFacts, FailType DEF Placed, Counted, NotStale, Steps

LEMMA AcquiredType ==
  ASSUME Placed, NEW p \in Procs, NEW l \in Levels, Acquired(p, l),
         guarded \in [Procs -> BOOLEAN]
  PROVE  Placed' /\ guarded' \in [Procs -> BOOLEAN]
<1>1. CASE l = 0
  <2>1. Placed'
    BY <1>1, LevelFacts DEF Acquired, Placed, Steps
  <2>2. guarded' \in [Procs -> BOOLEAN]
    BY <1>1, Zenon DEF Acquired
  <2>3. QED
    BY <2>1, <2>2
<1>2. CASE l # 0
  <2>1. Placed'
    BY <1>2, LevelFacts DEF Acquired, Placed, Steps
  <2>2. guarded' \in [Procs -> BOOLEAN]
    BY <1>2, Zenon DEF Acquired
  <2>3. QED
    BY <2>1, <2>2
<1>3. QED
  BY <1>1, <1>2

LEMMA ReplaceType ==
  ASSUME Placed, NEW p \in Procs, NEW r \in [Levels -> Files], Replace(p, r),
         locks \in [Procs -> SUBSET Levels]
  PROVE  /\ Placed'
         /\ file' \in [Levels -> Files]
         /\ locks' \in [Procs -> SUBSET Levels]
<1>1. Placed' /\ locks' \in [Procs -> SUBSET Levels]
  BY LevelFacts DEF Replace, Placed, Steps
<1>2. ASSUME NEW l \in Levels
      PROVE  (IF r[l].by = p THEN [r[l] EXCEPT !.by = Dead] ELSE r[l]) \in Files
  <2>1. r[l].by = p => r[l] # None
    BY FileFacts
  <2>2. QED
    BY <2>1, NewOwner
<1>3. QED
  BY <1>1, <1>2 DEF Replace

LEMMA TypeStep ==
  ASSUME TypeOK, DepthInv, [Next]_vars
  PROVE  TypeOK'
<1> USE DEF TypeOK
<1>0. Placed /\ Counted
  BY DEF Placed, Counted
<1>1. ASSUME NEW p \in Procs, Start(p) PROVE TypeOK'
  <2>1. Placed' /\ Counted'
    BY <1>0, <1>1, LevelFacts DEF Start, Placed, Counted, Steps
  <2>2. guarded' \in [Procs -> BOOLEAN] /\ stale' \in [Procs -> BOOLEAN]
    BY <1>1, Zenon DEF Start
  <2>3. UNCHANGED <<file, locks, styles, kills, exits, gone>>
    BY <1>1 DEF Start
  <2>4. QED
    BY <2>1, <2>2, <2>3 DEF Placed, Counted
<1>2. ASSUME NEW p \in Procs, Open(p) PROVE TypeOK'
  <2>0. file' \in [Levels -> Files]
    BY <1>2, NewFiles DEF Open
  <2>1. locks' \in [Procs -> SUBSET Levels] /\ UNCHANGED <<stale, styles, kills, exits, gone>>
    BY <1>2 DEF Open
  <2>2. CASE file[level[p]] = None
    <3>1. Acquired(p, level[p]) /\ UNCHANGED tries
      BY <1>2, <2>2 DEF Open
    <3>2. Placed' /\ guarded' \in [Procs -> BOOLEAN]
      BY <1>0, <3>1, AcquiredType
    <3>3. QED
      BY <2>0, <2>1, <3>1, <3>2 DEF Placed, Counted
  <2>3. CASE file[level[p]] # None
    <3>1. UNCHANGED guarded
      BY <1>2, <2>3 DEF Open
    <3>2. Placed' /\ Counted'
      <4>1. CASE NotStale(p)
        BY <1>0, <4>1, NotStaleType
      <4>2. CASE Goto(p, "stat", level[p]) /\ UNCHANGED tries
        BY <1>0, <4>2 DEF Placed, Counted, Steps
      <4>3. QED
        BY <1>2, <2>3, <4>1, <4>2 DEF Open
    <3>3. QED
      BY <2>0, <2>1, <3>1, <3>2 DEF Placed, Counted
  <2>4. QED
    BY <2>2, <2>3
<1>3. ASSUME NEW p \in Procs, Stat(p) PROVE TypeOK'
  <2> DEFINE l == level[p]
  <2>1. Placed' /\ Counted'
    <3>1. CASE NotStale(p)
      BY <1>0, <3>1, NotStaleType
    <3>2. CASE Goto(p, "open", l) /\ UNCHANGED tries
      BY <1>0, <3>2 DEF Placed, Counted, Steps
    <3>3. CASE /\ TakenForStale(p, l)
               /\ IF guarded[p] THEN Goto(p, "unlink", l) ELSE Goto(p, "open", l + 1)
               /\ UNCHANGED tries
      <4>1. l \in Levels /\ (~guarded[p] => l # MaxDepth)
        BY <1>3, <3>3 DEF Stat, TakenForStale, DepthInv, DepthOf
      <4>2. ~guarded[p] => l + 1 \in Levels
        BY <4>1, LevelFacts DEF Levels
      <4>3. QED
        BY <1>0, <3>3, <4>1, <4>2 DEF Placed, Counted, Steps
    <3>4. QED
      BY <1>3, <3>1, <3>2, <3>3 DEF Stat, Vanished, Waiting
  <2>2. guarded' \in [Procs -> BOOLEAN]
    BY <1>3, Zenon DEF Stat, Vanished, Waiting
  <2>3. stale' \in [Procs -> BOOLEAN] /\ gone' \in BOOLEAN
    BY <1>3, Zenon DEF Stat, Vanished, Waiting
  <2>4. file' \in [Levels -> Files]
    <3>1. ASSUME Forget(p, l), guarded[p], l < MaxDepth
          PROVE  file' \in [Levels -> Files]
      <4>1. CASE file[l + 1].by = p
        <5>1. l + 1 \in Levels
          BY <3>1, LevelFacts
        <5>2. file[l + 1] \in Files /\ file[l + 1] # None
          BY <4>1, <5>1, FileFacts
        <5>3. [file[l + 1] EXCEPT !.by = Left] \in Files
          BY <5>2, NewOwner
        <5>4. QED
          BY <3>1, <4>1, <5>1, <5>3 DEF Forget
      <4>2. CASE file[l + 1].by # p
        BY <3>1, <4>2 DEF Forget
      <4>3. QED
        BY <4>1, <4>2
    <3>2. ASSUME Forget(p, l), ~guarded[p] PROVE file' = file
      BY <3>2 DEF Forget
    <3>3. guarded[p] => l < MaxDepth
      BY <1>3 DEF Stat, DepthInv, DepthOf, Guarding
    <3>4. Forget(p, l) \/ file' = file
      BY <1>3 DEF Stat, Vanished, Waiting
    <3>5. QED
      BY <3>1, <3>2, <3>3, <3>4
  <2>5. UNCHANGED <<locks, styles, kills, exits>>
    BY <1>3 DEF Stat
  <2>6. QED
    BY <2>1, <2>2, <2>3, <2>4, <2>5 DEF Placed, Counted
<1>4. ASSUME NEW p \in Procs, Unlink(p) PROVE TypeOK'
  BY <1>4, NewFiles DEF Unlink, Steps
<1>5. ASSUME NEW p \in Procs, Link(p) PROVE TypeOK'
  BY <1>5, NewFiles DEF Link, Steps
<1>6. ASSUME NEW p \in Procs, Drop(p) PROVE TypeOK'
  <2>1. file' \in [Levels -> Files] /\ UNCHANGED <<stale, locks, styles, kills, exits, gone>>
    BY <1>6, NewFiles DEF Drop
  <2>2. CASE At(p, "drop") /\ Acquired(p, level[p]) /\ UNCHANGED tries
    <3>1. Placed' /\ guarded' \in [Procs -> BOOLEAN]
      BY <1>0, <2>2, AcquiredType
    <3>2. QED
      BY <2>1, <2>2, <3>1 DEF Placed, Counted
  <2>3. CASE Fail(p) /\ guarded' = [guarded EXCEPT ![p] = FALSE]
    <3>1. guarded' \in [Procs -> BOOLEAN]
      BY <2>3, Zenon
    <3>2. QED
      BY <1>0, <2>1, <2>3, <3>1, FailType DEF Placed, Counted
  <2>4. QED
    BY <1>6, <2>2, <2>3 DEF Drop
<1>7. ASSUME NEW p \in Procs, OpenSync(p) \/ StatSync(p) PROVE TypeOK'
  <2>1. ASSUME RetryThrow(p) PROVE Placed' /\ Counted'
    BY <1>0, <2>1, LevelFacts DEF RetryThrow, Placed, Counted, Steps
  <2>2. Placed' /\ Counted'
    BY <1>0, <1>7, <2>1, LevelFacts DEF OpenSync, StatSync, Placed, Counted, Steps
  <2>3. file' \in [Levels -> Files]
    <3>1. file' = file \/ file' = [file EXCEPT ![0] = Fresh(p)]
      BY <1>7 DEF OpenSync, StatSync
    <3>2. Fresh(p) \in Files /\ 0 \in Levels
      BY NewFiles, LevelFacts
    <3>3. QED
      BY <3>1, <3>2
  <2>4. locks' \in [Procs -> SUBSET Levels]
    BY <1>7, LevelFacts DEF OpenSync, StatSync
  <2>5. UNCHANGED <<guarded, stale, styles, kills, exits, gone>>
    BY <1>7 DEF OpenSync, StatSync
  <2>6. QED
    BY <2>2, <2>3, <2>4, <2>5 DEF Placed, Counted
<1>8. ASSUME NEW p \in Procs, UnlinkSync(p) \/ Release(p) PROVE TypeOK'
  <2>1. Placed'
    BY <1>0, <1>8, LevelFacts DEF UnlinkSync, Release, Placed, Steps
  <2>2. file' \in [Levels -> Files]
    BY <1>8, NewFiles, LevelFacts DEF UnlinkSync, Release
  <2>3. locks' \in [Procs -> SUBSET Levels]
    BY <1>8 DEF UnlinkSync, Release
  <2>4. QED
    BY <1>8, <2>1, <2>2, <2>3 DEF UnlinkSync, Release, Placed
<1>9. ASSUME NEW p \in Procs, Exit(p) PROVE TypeOK'
  <2> DEFINE r == [l \in Levels |-> IF l \in locks[p] THEN None ELSE file[l]]
  <2>1. r \in [Levels -> Files]
    BY FileFacts
  <2>2. Replace(p, r) /\ UNCHANGED <<guarded, stale, tries, styles, kills, gone>>
    BY <1>9 DEF Exit
  <2>3. exits' \in 0 .. MaxExits
    BY <1>9 DEF Exit
  <2> HIDE DEF r
  <2>4. QED
    BY <1>0, <2>1, <2>2, <2>3, ReplaceType DEF Placed
<1>10. ASSUME NEW p \in Procs, Kill(p) PROVE TypeOK'
  <2>1. Replace(p, file) /\ UNCHANGED <<guarded, stale, tries, styles, exits, gone>>
    BY <1>10 DEF Kill
  <2>2. kills' \in 0 .. MaxKills
    BY <1>10 DEF Kill
  <2>3. QED
    BY <1>0, <2>1, <2>2, ReplaceType DEF Placed
<1>11. ASSUME NEW l \in Levels, Age(l) PROVE TypeOK'
  <2>1. file[l] \in Files /\ file[l] # None
    BY <1>11, FileFacts DEF Age
  <2>2. file' \in [Levels -> Files]
    BY <1>11, <2>1, Older DEF Age
  <2>3. QED
    BY <1>11, <2>2 DEF Age
<1>12. CASE UNCHANGED vars
  BY <1>12 DEF vars
<1>13. QED
  BY <1>1, <1>2, <1>3, <1>4, <1>5, <1>6, <1>7, <1>8, <1>9, <1>10, <1>11, <1>12
     DEF Next, Step

-----------------------------------------------------------------------------
\* What a step of p does to the files: other processes own what they owned,
\* and a stale file is still there.
Spares(p) ==
  \A l \in Levels : \A q \in Procs \ {p} : Owns(q, l) => Owns(q, l)'
StaleStays == \A l \in Levels : file[l].age = "stale" => file'[l].age = "stale"

\* A step of p leaves where the other processes are.
OthersStay(p) ==
  \A q \in Procs \ {p} :
    /\ pc'[q] = pc[q] /\ level'[q] = level[q]
    /\ guarded'[q] = guarded[q] /\ stale'[q] = stale[q]

LEMMA ReplaceEffect ==
  ASSUME TypeOK, NEW p \in Procs, NEW r \in [Levels -> Files], Replace(p, r),
         NEW l \in Levels
  PROVE  /\ file'[l].age = r[l].age
         /\ r[l].by # p => file'[l] = r[l]
<1>1. CASE r[l].by = p
  <2>1. r[l] \in Files /\ r[l] # None
    BY <1>1, FileFacts
  <2>2. file'[l] = [r[l] EXCEPT !.by = Dead]
    BY <1>1 DEF Replace
  <2>3. QED
    BY <1>1, <2>1, <2>2, NewOwner
<1>2. CASE r[l].by # p
  BY <1>2 DEF Replace
<1>3. QED
  BY <1>1, <1>2

LEMMA ForgetEffect ==
  ASSUME TypeOK, DepthInv, NEW p \in Procs, At(p, "stat"),
         Forget(p, level[p]), NEW l \in Levels
  PROVE  /\ file'[l].age = file[l].age
         /\ file[l].by # p => file'[l] = file[l]
<1>1. CASE guarded[p] /\ file[level[p] + 1].by = p /\ l = level[p] + 1
  <2>1. file[l] \in Files /\ file[l] # None
    BY <1>1, FileFacts DEF TypeOK
  <2>2. file'[l] = [file[l] EXCEPT !.by = Left]
    BY <1>1 DEF Forget, TypeOK
  <2>3. QED
    BY <1>1, <2>1, <2>2, NewOwner
<1>2. CASE ~(guarded[p] /\ file[level[p] + 1].by = p /\ l = level[p] + 1)
  BY <1>2 DEF Forget, TypeOK
<1>3. QED
  BY <1>1, <1>2

\* A failed attempt starts again or ends; it locks nothing.
LEMMA FailEffect ==
  ASSUME TypeOK, NEW p \in Procs, Fail(p)
  PROVE  /\ pc'[p] \in {"open", "idle"} /\ level'[p] \in {0, level[p]}
         /\ \A q \in Procs \ {p} : pc'[q] = pc[q] /\ level'[q] = level[q]
BY DEF TypeOK, Fail

LEMMA NotStaleEffect ==
  ASSUME TypeOK, NEW p \in Procs, NotStale(p)
  PROVE  /\ pc'[p] \in {"open", "idle"} /\ level'[p] \in {0, level[p]}
         /\ \A q \in Procs \ {p} : pc'[q] = pc[q] /\ level'[q] = level[q]
BY FailEffect DEF TypeOK, NotStale

\* What looking at a lock comes to: the caller asks again or gives up, and the
\* .STALE file it locked is nobody's; or it goes on with the takeover.
Ends(p) ==
  /\ pc'[p] \in {"open", "idle"} /\ ~guarded'[p]
  /\ level'[p] \in {0, level[p]}
  /\ Forget(p, level[p])
  /\ \/ stale'[p] = stale[p] /\ gone' = gone
     \/ pc'[p] = "open" /\ level'[p] = level[p] /\ gone' = (gone \/ level[p] # 0)

GoesOn(p) ==
  /\ TakenForStale(p, level[p])
  /\ IF guarded[p] THEN pc'[p] = "unlink" /\ level'[p] = level[p]
                   ELSE pc'[p] = "open" /\ level'[p] = level[p] + 1
  /\ UNCHANGED <<file, guarded, stale, gone>>

LEMMA StatEffect ==
  ASSUME TypeOK, NEW p \in Procs, Stat(p)
  PROVE  OthersStay(p) /\ (Ends(p) \/ GoesOn(p))
<1> USE DEF TypeOK
<1>1. CASE Vanished(p, level[p])
  <2>1. OthersStay(p)
    BY <1>1 DEF Vanished, OthersStay
  <2>2. Ends(p)
    BY <1>1 DEF Vanished, Ends
  <2>3. QED
    BY <2>1, <2>2
<1>2. CASE Waiting(p, level[p])
  <2>1. OthersStay(p)
    BY <1>2, NotStaleEffect DEF Waiting, OthersStay
  <2>2. Ends(p)
    BY <1>2, NotStaleEffect DEF Waiting, Ends
  <2>3. QED
    BY <2>1, <2>2
<1>3. CASE /\ TakenForStale(p, level[p])
           /\ IF guarded[p] THEN Goto(p, "unlink", level[p])
                            ELSE Goto(p, "open", level[p] + 1)
           /\ UNCHANGED <<file, guarded, stale, gone, tries>>
  <2>1. OthersStay(p)
    BY <1>3 DEF OthersStay
  <2>2. GoesOn(p)
    BY <1>3 DEF GoesOn
  <2>3. QED
    BY <2>1, <2>2
<1>4. QED
  BY <1>1, <1>2, <1>3 DEF Stat

LEMMA DepthOthers ==
  ASSUME DepthInv, NEW p \in Procs, OthersStay(p), DepthOf(p)',
         file'[MaxDepth].age # "stale"
  PROVE  DepthInv'
BY DEF DepthInv, DepthOf, OthersStay

LEMMA AcquiredDepth ==
  ASSUME TypeOK, NEW p \in Procs, Acquired(p, level[p])
  PROVE  DepthOf(p)'
<1>1. CASE level[p] = 0
  <2>1. pc'[p] = "critical"
    BY <1>1 DEF Acquired, TypeOK
  <2>2. QED
    BY <2>1 DEF DepthOf, Guarding
<1>2. CASE level[p] # 0
  <2>1. level[p] - 1 < MaxDepth
    BY <1>2, LevelFacts DEF TypeOK
  <2>2. /\ pc'[p] = "stat" /\ guarded'[p] = TRUE
        /\ level'[p] = level[p] - 1
    BY <1>2 DEF Acquired, TypeOK
  <2>3. QED
    BY <2>1, <2>2 DEF DepthOf, Guarding
<1>3. QED
  BY <1>1, <1>2

\* No process climbs above the highest level, and one that does the steps of a
\* takeover locked the file one level up.
LEMMA DepthStep ==
  ASSUME TypeOK, DepthInv, [Next]_vars
  PROVE  DepthInv'
<1> USE DEF TypeOK, Guarding
<1>0. file[MaxDepth].age # "stale" /\ MaxDepth \in Levels /\ 0 \in Levels
  BY LevelFacts DEF DepthInv
<1>1. ASSUME NEW p \in Procs, Start(p) PROVE DepthInv'
  <2>1. OthersStay(p) /\ UNCHANGED file
    BY <1>1 DEF Start, OthersStay
  <2>2. DepthOf(p)'
    BY <1>1 DEF Start, DepthOf
  <2>3. QED
    BY <1>0, <2>1, <2>2, DepthOthers
<1>2. ASSUME NEW p \in Procs, Open(p) PROVE DepthInv'
  <2>1. OthersStay(p)
    BY <1>2, NotStaleEffect DEF Open, OthersStay, Acquired
  <2>2. file'[MaxDepth].age # "stale"
    <3>1. file' \in {file, [file EXCEPT ![level[p]] = Fresh(p)]}
      BY <1>2 DEF Open
    <3>2. file'[MaxDepth] \in {file[MaxDepth], Fresh(p)}
      BY <1>0, <3>1
    <3>3. QED
      BY <1>0, <3>2, NewFiles
  <2>3. ~guarded[p]
    BY <1>2 DEF Open, DepthInv, DepthOf
  <2>4. CASE file[level[p]] = None
    <3>1. Acquired(p, level[p])
      BY <1>2, <2>4 DEF Open
    <3>2. QED
      BY <2>1, <2>2, <3>1, AcquiredDepth, DepthOthers
  <2>5. CASE file[level[p]] # None
    <3>1. ~guarded'[p]
      BY <1>2, <2>3, <2>5 DEF Open
    <3>2. \/ pc'[p] \in {"open", "idle"}
          \/ pc'[p] = "stat" /\ stale'[p]
      BY <1>2, <2>5, NotStaleEffect DEF Open
    <3>3. QED
      BY <2>1, <2>2, <3>1, <3>2, DepthOthers DEF DepthOf
  <2>6. QED
    BY <2>4, <2>5
<1>3. ASSUME NEW p \in Procs, Stat(p) PROVE DepthInv'
  <2>1. OthersStay(p) /\ (Ends(p) \/ GoesOn(p)) /\ At(p, "stat")
    BY <1>3, StatEffect DEF Stat
  <2>2. CASE Ends(p)
    <3>1. file'[MaxDepth].age # "stale"
      BY <1>0, <2>1, <2>2, ForgetEffect DEF Ends
    <3>2. DepthOf(p)'
      BY <2>2 DEF Ends, DepthOf
    <3>3. QED
      BY <2>1, <3>1, <3>2, DepthOthers
  <2>3. CASE GoesOn(p)
    <3>1. guarded[p] => level[p] < MaxDepth
      BY <2>1 DEF DepthInv, DepthOf
    <3>2. DepthOf(p)'
      BY <2>3, <3>1 DEF GoesOn, DepthOf
    <3>3. file'[MaxDepth].age # "stale"
      BY <1>0, <2>3 DEF GoesOn
    <3>4. QED
      BY <2>1, <3>2, <3>3, DepthOthers
  <2>4. QED
    BY <2>1, <2>2, <2>3
<1>4. ASSUME NEW p \in Procs, Unlink(p) \/ Link(p) PROVE DepthInv'
  <2>1. OthersStay(p) /\ UNCHANGED guarded
    BY <1>4 DEF Unlink, Link, OthersStay
  <2>2. file'[MaxDepth].age # "stale"
    <3>1. file'[MaxDepth] \in {file[MaxDepth], None, Fresh(p)}
      BY <1>0, <1>4 DEF Unlink, Link
    <3>2. QED
      BY <1>0, <3>1, NewFiles
  <2>3. DepthOf(p)'
    BY <1>4 DEF Unlink, Link, DepthInv, DepthOf
  <2>4. QED
    BY <2>1, <2>2, <2>3, DepthOthers
<1>5. ASSUME NEW p \in Procs, Drop(p) PROVE DepthInv'
  <2>1. OthersStay(p)
    BY <1>5, FailEffect DEF Drop, OthersStay, Acquired
  <2>2. file'[MaxDepth].age # "stale"
    <3>1. file' = [file EXCEPT ![level[p] + 1] = None]
      BY <1>5 DEF Drop
    <3>2. file'[MaxDepth] \in {file[MaxDepth], None}
      BY <1>0, <3>1
    <3>3. QED
      BY <1>0, <3>2, NewFiles
  <2>3. CASE At(p, "drop") /\ Acquired(p, level[p])
    BY <2>1, <2>2, <2>3, AcquiredDepth, DepthOthers
  <2>4. CASE Fail(p) /\ guarded' = [guarded EXCEPT ![p] = FALSE]
    BY <2>1, <2>2, <2>4, FailEffect, DepthOthers DEF DepthOf
  <2>5. QED
    BY <1>5, <2>3, <2>4 DEF Drop
<1>6. ASSUME NEW p \in Procs, OpenSync(p) \/ StatSync(p) \/ UnlinkSync(p) \/ Release(p)
      PROVE  DepthInv'
  <2>1. /\ OthersStay(p)
        /\ pc'[p] \in {"critical", "statSync", "idle", "openSync", "unlinkSync"}
    BY <1>6 DEF OpenSync, StatSync, UnlinkSync, Release, RetryThrow, OthersStay
  <2>2. file'[MaxDepth].age # "stale"
    BY <1>0, <1>6, FileFacts DEF OpenSync, StatSync, UnlinkSync, Release
  <2>3. QED
    BY <2>1, <2>2, DepthOthers DEF DepthOf
<1>7. ASSUME NEW p \in Procs, Exit(p) \/ Kill(p) PROVE DepthInv'
  <2>1. OthersStay(p) /\ pc'[p] = "idle"
    BY <1>7 DEF Exit, Kill, Replace, OthersStay
  <2>2. file'[MaxDepth].age # "stale"
    <3>1. CASE Exit(p)
      <4> DEFINE r == [l \in Levels |-> IF l \in locks[p] THEN None ELSE file[l]]
      <4>1. r \in [Levels -> Files] /\ r[MaxDepth].age # "stale"
        BY <1>0, FileFacts
      <4>2. Replace(p, r)
        BY <3>1 DEF Exit
      <4> HIDE DEF r
      <4>3. QED
        BY <1>0, <4>1, <4>2, ReplaceEffect
    <3>2. CASE Kill(p)
      BY <1>0, <3>2, ReplaceEffect DEF Kill
    <3>3. QED
      BY <1>7, <3>1, <3>2
  <2>3. QED
    BY <2>1, <2>2, DepthOthers DEF DepthOf
<1>8. ASSUME NEW l \in Levels, Age(l) PROVE DepthInv'
  <2>1. UNCHANGED <<pc, level, guarded, stale>> /\ file'[MaxDepth] = file[MaxDepth]
    BY <1>8, LevelFacts DEF Age
  <2>2. QED
    BY <2>1 DEF DepthInv, DepthOf
<1>9. CASE UNCHANGED vars
  BY <1>9 DEF vars, DepthInv, DepthOf
<1>10. QED
  BY <1>1, <1>2, <1>3, <1>4, <1>5, <1>6, <1>7, <1>8, <1>9 DEF Next, Step

LEMMA TypeAndDepthHold == Spec => [](TypeOK /\ DepthInv)
<1>1. Init => TypeOK
  <2> SUFFICES ASSUME Init PROVE TypeOK
    OBVIOUS
  <2>1. /\ guarded \in [Procs -> BOOLEAN] /\ stale \in [Procs -> BOOLEAN]
        /\ gone \in BOOLEAN
    BY Zenon DEF Init
  <2>2. /\ file \in [Levels -> Files]
        /\ pc \in [Procs -> Steps]
        /\ level \in [Procs -> Levels]
        /\ tries \in [Procs -> 0 .. Retries]
        /\ locks \in [Procs -> SUBSET Levels]
        /\ styles \in Programs
        /\ kills \in 0 .. MaxKills /\ exits \in 0 .. MaxExits
    BY NewFiles, LevelFacts DEF Init, Steps
  <2>3. QED
    BY <2>1, <2>2 DEF TypeOK
<1>2. Init => DepthInv
  BY LevelFacts DEF Init, DepthInv, DepthOf, None, Guarding
<1>3. TypeOK /\ DepthInv /\ [Next]_vars => TypeOK' /\ DepthInv'
  BY TypeStep, DepthStep
<1>4. QED
  BY <1>1, <1>2, <1>3, PTL DEF Spec

\* Every state is well typed, whatever calls the processes use: in particular
\* no takeover climbs above the highest level (lockfile.js 136-310).
THEOREM TypeCorrect == Spec => []TypeOK
BY TypeAndDepthHold, PTL
-----------------------------------------------------------------------------
\* A step of p that spares the files of the others and removes no stale file
\* leaves their ownership as it was.
LEMMA OwnOthers ==
  ASSUME TypeOK, DepthInv, NEW p \in Procs, OthersStay(p), Spares(p),
         NEW q \in Procs \ {p}, OwnOf(q),
         pc[q] = "unlink" => file'[level[q]].age = "stale"
  PROVE  OwnOf(q)'
<1>1. /\ level[q] \in Levels /\ 0 \in Levels
      /\ level[q] < MaxDepth => level[q] + 1 \in Levels
  BY LevelFacts DEF TypeOK
<1>2. \A l \in Levels : file[l] = Fresh(q) => file'[l] = Fresh(q)
  BY DEF Spares, Owns
<1>3. /\ pc'[q] = pc[q] /\ level'[q] = level[q]
      /\ guarded'[q] = guarded[q] /\ stale'[q] = stale[q]
  BY DEF OthersStay
<1>4. pc[q] \in Guarding \union {"stat"} /\ guarded[q] => level[q] < MaxDepth
  BY DEF DepthInv, DepthOf
<1>5. /\ pc[q] = "critical" => file'[0] = Fresh(q)
      /\ pc[q] = "drop" => file'[level[q]] = Fresh(q)
      /\ pc[q] \in Guarding \union {"stat"} /\ guarded[q] =>
           file'[level[q] + 1] = Fresh(q)
  BY <1>1, <1>2, <1>4 DEF OwnOf, Owns
<1>6. QED
  BY <1>3, <1>5 DEF OwnOf, Owns

LEMMA OwnAll ==
  ASSUME TypeOK, DepthInv, \A q \in Procs : OwnOf(q),
         NEW p \in Procs, OthersStay(p), Spares(p), StaleStays, OwnOf(p)'
  PROVE  \A q \in Procs : OwnOf(q)'
<1> SUFFICES ASSUME NEW q \in Procs \ {p} PROVE OwnOf(q)'
  OBVIOUS
<1>1. pc[q] = "unlink" => file'[level[q]].age = "stale"
  BY DEF OwnOf, StaleStays, TypeOK
<1>2. QED
  BY <1>1, OwnOthers

\* A process that has nothing to do with a takeover owns what it needs.
LEMMA OwnsNothing ==
  ASSUME NEW p \in Procs, pc'[p] \in {"idle", "open"},
         ~stale'[p] => level'[p] = 0
  PROVE  OwnOf(p)'
BY DEF OwnOf, Guarding

\* Whoever acquired a file owns it, at the level it goes on with.
LEMMA AcquiredOwns ==
  ASSUME TypeOK, NEW p \in Procs, Acquired(p, level[p]),
         file'[level[p]] = Fresh(p), ~stale'[p] => level[p] = 0
  PROVE  OwnOf(p)'
<1>1. CASE level[p] = 0
  <2>1. pc'[p] = "critical" /\ level'[p] = 0 /\ file'[0] = Fresh(p)
    BY <1>1 DEF Acquired, TypeOK, Owns
  <2>2. QED
    BY <2>1 DEF OwnOf, Guarding, Owns
<1>2. CASE level[p] # 0
  <2>1. (level[p] - 1) + 1 = level[p]
    BY LevelFacts, <1>2 DEF TypeOK
  <2>2. pc'[p] = "stat" /\ level'[p] = level[p] - 1
    BY <1>2 DEF Acquired, TypeOK
  <2>3. file'[level'[p] + 1] = Fresh(p)
    BY <2>1, <2>2
  <2>4. stale'[p]
    BY <1>2
  <2>5. QED
    BY <2>2, <2>3, <2>4 DEF OwnOf, Guarding, Owns
<1>3. QED
  BY <1>1, <1>2

\* Ownership is kept by every step of callers of lock.
LEMMA OwnStep ==
  ASSUME TypeOK, DepthInv, OwnershipInv, [Next]_vars
  PROVE  OwnershipInv'
<1> SUFFICES ASSUME TakeoversOnly' PROVE \A q \in Procs : OwnOf(q)'
  BY DEF OwnershipInv
<1> USE DEF TypeOK
<1>1. ASSUME NEW p \in Procs, Exit(p) PROVE FALSE
  <2>1. exits' = 0 /\ exits' = exits + 1
    BY <1>1 DEF Exit, TakeoversOnly
  <2>2. QED
    BY <2>1
<1>2. TakeoversOnly /\ \A q \in Procs : OwnOf(q)
  <2>1. UNCHANGED <<styles, exits>> /\ (gone => gone')
    BY <1>1 DEF Next, Step, Start, Open, Stat, Vanished, Waiting, Unlink, Link,
                Drop, OpenSync, StatSync, UnlinkSync, Release, Kill, Age, vars
  <2>2. QED
    BY <2>1 DEF TakeoversOnly, OwnershipInv
<1>3. ASSUME NEW p \in Procs, Start(p) PROVE \A q \in Procs : OwnOf(q)'
  <2>1. pc'[p] = "open" /\ stale'[p] /\ OthersStay(p) /\ UNCHANGED file
    BY <1>2, <1>3 DEF Start, TakeoversOnly, OthersStay
  <2>2. QED
    BY <1>2, <2>1, OwnsNothing, OwnAll DEF Spares, StaleStays, Owns
<1>4. ASSUME NEW p \in Procs, Open(p) PROVE \A q \in Procs : OwnOf(q)'
  <2>1. OthersStay(p)
    BY <1>4, NotStaleEffect DEF Open, OthersStay, Acquired
  <2>2. CASE file[level[p]] = None
    <3>1. /\ file' = [file EXCEPT ![level[p]] = Fresh(p)]
          /\ Acquired(p, level[p])
      BY <1>4, <2>2 DEF Open
    <3>2. OwnOf(p)'
      <4>1. file'[level[p]] = Fresh(p)
        BY <1>4, <3>1
      <4>2. ~stale'[p] => level[p] = 0
        BY <1>2, <1>4 DEF Open, OwnOf
      <4>3. QED
        BY <3>1, <4>1, <4>2, AcquiredOwns
    <3>3. Spares(p) /\ StaleStays
      BY <2>2, <3>1, NewFiles, FileFacts DEF Spares, StaleStays, Owns
    <3>4. QED
      BY <1>2, <2>1, <3>2, <3>3, OwnAll
  <2>3. CASE file[level[p]] # None
    <3>1. UNCHANGED file /\ ~guarded'[p] /\ stale'[p] = stale[p]
      BY <1>4, <2>3, NotStaleEffect DEF Open, DepthInv, DepthOf
    <3>2. \/ pc'[p] \in {"open", "idle"} /\ level'[p] \in {0, level[p]}
          \/ pc'[p] = "stat" /\ stale[p]
      BY <1>4, <2>3, NotStaleEffect DEF Open
    <3>3. ~stale[p] => level[p] = 0
      BY <1>2 DEF OwnOf
    <3>4. OwnOf(p)'
      BY <3>1, <3>2, <3>3 DEF OwnOf, Guarding
    <3>5. QED
      BY <1>2, <2>1, <3>1, <3>4, OwnAll DEF Spares, StaleStays, Owns
  <2>4. QED
    BY <2>2, <2>3
<1>5. ASSUME NEW p \in Procs, Stat(p) PROVE \A q \in Procs : OwnOf(q)'
  <2>1. OthersStay(p) /\ (Ends(p) \/ GoesOn(p)) /\ pc[p] = "stat"
    BY <1>5, StatEffect DEF Stat
  <2>2. stale[p] = TRUE
    BY <1>2, <2>1 DEF OwnOf
  <2>3. CASE Ends(p)
    <3>1. ~stale'[p] => level'[p] = 0
      BY <2>2, <2>3 DEF Ends, TakeoversOnly
    <3>2. Spares(p) /\ StaleStays
      BY <2>1, <2>3, ForgetEffect, NewFiles DEF Ends, Spares, StaleStays, Owns
    <3>3. QED
      BY <1>2, <2>1, <2>3, <3>1, <3>2, OwnsNothing, OwnAll DEF Ends
  <2>4. CASE GoesOn(p)
    <3>1. file[level[p]].age = "stale" /\ UNCHANGED <<file, guarded, stale>>
      BY <2>2, <2>4 DEF GoesOn, TakenForStale
    <3>2. OwnOf(p)'
      <4>1. CASE guarded[p]
        <5>1. pc'[p] = "unlink" /\ level'[p] = level[p]
          BY <2>4, <4>1 DEF GoesOn
        <5>2. Owns(p, level[p] + 1)
          BY <1>2, <2>1, <4>1 DEF OwnOf
        <5>3. QED
          BY <2>2, <3>1, <5>1, <5>2 DEF OwnOf, Owns
      <4>2. CASE ~guarded[p]
        <5>1. pc'[p] = "open" /\ stale'[p]
          BY <2>2, <2>4, <4>2 DEF GoesOn
        <5>2. QED
          BY <5>1, OwnsNothing
      <4>3. QED
        BY <4>1, <4>2
    <3>3. QED
      BY <1>2, <2>1, <3>1, <3>2, OwnAll DEF Spares, StaleStays, Owns
  <2>5. QED
    BY <2>1, <2>3, <2>4
<1>6. ASSUME NEW p \in Procs, Unlink(p) PROVE \A q \in Procs : OwnOf(q)'
  <2> DEFINE l == level[p]
  <2>1. /\ OthersStay(p)
        /\ pc[p] = "unlink" /\ pc'[p] = "link" /\ level'[p] = l
        /\ guarded' = guarded /\ stale' = stale
        /\ file' = [file EXCEPT ![l] = None]
    BY <1>6 DEF Unlink, OthersStay
  <2>2. /\ file[l].age = "stale" /\ guarded[p] /\ stale[p]
        /\ l + 1 \in Levels /\ l + 1 # l /\ Owns(p, l + 1)
    BY <1>2, <2>1, LevelFacts DEF OwnOf, DepthInv, DepthOf, Guarding
  <2>3. OwnOf(p)'
    BY <2>1, <2>2 DEF OwnOf, Owns
  <2>4. Spares(p)
    BY <2>1, <2>2, NewFiles DEF Spares, Owns
  <2>5. ASSUME NEW q \in Procs \ {p}, pc[q] = "unlink"
        PROVE  file'[level[q]].age = "stale"
    <3>1. /\ file[level[q]].age = "stale" /\ Owns(q, level[q] + 1)
      BY <1>2, <2>5 DEF OwnOf, DepthInv, DepthOf, Guarding
    <3>2. level[q] # l
      BY <2>2, <3>1, NewFiles DEF Owns
    <3>3. QED
      BY <2>1, <3>1, <3>2
  <2>6. QED
    BY <1>2, <2>1, <2>3, <2>4, <2>5, OwnOthers
<1>7. ASSUME NEW p \in Procs, Link(p) PROVE \A q \in Procs : OwnOf(q)'
  <2> DEFINE l == level[p]
  <2>1. /\ OthersStay(p) /\ pc[p] = "link" /\ level'[p] = l
        /\ guarded' = guarded /\ stale' = stale
    BY <1>7 DEF Link, OthersStay
  <2>2. /\ stale[p] /\ l + 1 \in Levels /\ l + 1 # l /\ Owns(p, l + 1)
    BY <1>2, <2>1, LevelFacts DEF OwnOf, DepthInv, DepthOf, Guarding
  <2>3. CASE file[l + 1] # None /\ file[l] = None
    <3>1. /\ pc'[p] = "drop"
          /\ file' = [file EXCEPT ![l] = Fresh(p), ![l + 1] = Fresh(p)]
      BY <1>7, <2>3 DEF Link
    <3>2. file'[l] = Fresh(p) /\ file'[l + 1] = Fresh(p)
      BY <2>2, <3>1
    <3>3. stale'[p] /\ level'[p] + 1 = l + 1
      BY <2>1, <2>2
    <3>4. OwnOf(p)'
      BY <2>1, <3>1, <3>2, <3>3 DEF OwnOf, Owns
    <3>5. \A k \in Levels \ {l, l + 1} : file'[k] = file[k]
      BY <3>1
    <3>6. /\ file[l].age = "none" /\ file[l + 1].age = "fresh"
          /\ \A q \in Procs \ {p} : file[l] # Fresh(q) /\ file[l + 1] # Fresh(q)
      BY <2>2, <2>3, NewFiles DEF Owns
    <3>7. Spares(p)
      BY <3>5, <3>6 DEF Spares, Owns
    <3>8. StaleStays
      BY <3>5, <3>6 DEF StaleStays
    <3>9. QED
      BY <1>2, <2>1, <3>4, <3>7, <3>8, OwnAll
  <2>4. CASE ~(file[l + 1] # None /\ file[l] = None)
    <3>1. pc'[p] = "undo" /\ UNCHANGED file
      BY <1>7, <2>4 DEF Link
    <3>2. OwnOf(p)'
      BY <2>1, <2>2, <3>1 DEF OwnOf, Owns
    <3>3. QED
      BY <1>2, <2>1, <3>1, <3>2, OwnAll DEF Spares, StaleStays, Owns
  <2>5. QED
    BY <2>3, <2>4
<1>8. ASSUME NEW p \in Procs, Drop(p) PROVE \A q \in Procs : OwnOf(q)'
  <2> DEFINE l == level[p]
  <2>1. OthersStay(p)
    BY <1>8, FailEffect DEF Drop, OthersStay, Acquired
  <2>2. file' = [file EXCEPT ![l + 1] = None]
    BY <1>8 DEF Drop
  <2>3. pc[p] \in {"drop", "undo"} /\ stale'[p] = stale[p]
    BY <1>8 DEF Drop
  <2>4. /\ stale[p] /\ l \in Levels /\ l + 1 \in Levels /\ l + 1 # l
        /\ Owns(p, l + 1)
    BY <1>2, <2>3, LevelFacts DEF OwnOf, DepthInv, DepthOf, Guarding
  <2>5. Spares(p) /\ StaleStays
    BY <2>2, <2>4, FileFacts, NewFiles DEF Spares, StaleStays, Owns
  <2>6. OwnOf(p)'
    <3>1. CASE At(p, "drop") /\ Acquired(p, l)
      <4>1. file'[l] = Fresh(p)
        BY <1>2, <2>2, <2>4, <3>1 DEF OwnOf, Owns
      <4>2. QED
        BY <2>3, <2>4, <3>1, <4>1, AcquiredOwns
    <3>2. CASE Fail(p)
      BY <2>3, <2>4, <3>2, FailEffect, OwnsNothing
    <3>3. QED
      BY <1>8, <3>1, <3>2 DEF Drop
  <2>7. QED
    BY <1>2, <2>1, <2>5, <2>6, OwnAll
<1>9. ASSUME NEW p \in Procs, OpenSync(p) \/ StatSync(p) \/ UnlinkSync(p)
      PROVE  FALSE
  BY <1>2, <1>9 DEF OpenSync, StatSync, UnlinkSync, OwnOf
<1>10. ASSUME NEW p \in Procs, Release(p) PROVE \A q \in Procs : OwnOf(q)'
  <2>1. /\ OthersStay(p) /\ pc'[p] = "idle" /\ level'[p] = 0
        /\ Owns(p, 0) /\ 0 \in Levels
        /\ file' = [file EXCEPT ![0] = None]
    BY <1>2, <1>10, LevelFacts DEF Release, OthersStay, OwnOf
  <2>2. Spares(p) /\ StaleStays
    BY <2>1, FileFacts, NewFiles DEF Spares, StaleStays, Owns
  <2>3. QED
    BY <1>2, <2>1, <2>2, OwnsNothing, OwnAll
<1>11. ASSUME NEW p \in Procs, Kill(p) PROVE \A q \in Procs : OwnOf(q)'
  <2>1. OthersStay(p) /\ pc'[p] = "idle" /\ level'[p] = 0 /\ Replace(p, file)
    BY <1>11 DEF Kill, Replace, OthersStay
  <2>2. Spares(p) /\ StaleStays
    BY <2>1, ReplaceEffect, NewFiles DEF Spares, StaleStays, Owns
  <2>3. QED
    BY <1>2, <2>1, <2>2, OwnsNothing, OwnAll
<1>12. ASSUME NEW l \in Levels, Age(l) PROVE \A q \in Procs : OwnOf(q)'
  <2>1. /\ UNCHANGED <<pc, level, guarded, stale>>
        /\ \A k \in Levels \ {l} : file'[k] = file[k]
        /\ file[l].by \in {Dead, Left}
        /\ file[l].age = "fresh"
    BY <1>12 DEF Age
  <2>2. ASSUME NEW q \in Procs PROVE OwnOf(q)'
    <3>1. \A k \in Levels : file[k] = Fresh(q) => file'[k] = Fresh(q)
      BY <2>1, NewFiles
    <3>2. \A k \in Levels : file[k].age = "stale" => file'[k].age = "stale"
      BY <2>1
    <3>3. /\ level[q] \in Levels /\ 0 \in Levels
          /\ level[q] < MaxDepth => level[q] + 1 \in Levels
      BY LevelFacts
    <3>4. pc[q] \in Guarding \union {"stat"} /\ guarded[q] => level[q] < MaxDepth
      BY DEF DepthInv, DepthOf
    <3>5. OwnOf(q)
      BY <1>2
    <3>6. QED
      BY <2>1, <3>1, <3>2, <3>3, <3>4, <3>5 DEF OwnOf, Owns
  <2>3. QED
    BY <2>2
<1>13. CASE UNCHANGED vars
  BY <1>2, <1>13 DEF vars, OwnOf, Owns
<1>14. QED
  BY <1>1, <1>3, <1>4, <1>5, <1>6, <1>7, <1>8, <1>9, <1>10, <1>11, <1>12, <1>13
     DEF Next, Step

LEMMA OwnershipHolds == Spec => []OwnershipInv
<1>1. Init => OwnershipInv
  BY DEF Init, OwnershipInv, OwnOf, Guarding
<1>2. TypeOK /\ DepthInv /\ OwnershipInv /\ [Next]_vars => OwnershipInv'
  BY OwnStep
<1>3. QED
  BY <1>1, <1>2, TypeAndDepthHold, PTL DEF Spec
-----------------------------------------------------------------------------
\* A caller of lock that was given the lock has it until it unlocks, through any
\* number of takeovers by any number of processes (lockfile.js 196-232).
THEOREM HolderKeepsLockHolds == Spec => []HolderKeepsLock
<1>1. OwnershipInv => HolderKeepsLock
  BY DEF OwnershipInv, HolderKeepsLock, HoldersHaveIt, OwnOf, Owns
<1>2. QED
  BY <1>1, OwnershipHolds, PTL

\* Of any number of processes that find one lock stale, at most one is between
\* the removal of the lock and the removal of its .STALE file (lockfile.js
\* 212-229).
THEOREM OneTakeoverHolds == Spec => []OneTakeover
<1>1. TypeOK /\ DepthInv /\ OwnershipInv => OneTakeover
  <2> SUFFICES ASSUME TypeOK, DepthInv, OwnershipInv, TakeoversOnly,
                      NEW p \in Procs, NEW q \in Procs,
                      pc[p] \in {"unlink", "link", "drop"},
                      pc[q] \in {"unlink", "link", "drop"}, level[p] = level[q]
               PROVE  p = q
    BY DEF OneTakeover
  <2>1. Owns(p, level[p] + 1) /\ Owns(q, level[q] + 1)
    BY DEF OwnershipInv, OwnOf, DepthInv, DepthOf, Guarding
  <2>2. Fresh(p) = Fresh(q)
    BY <2>1, Zenon DEF Owns
  <2>3. QED
    BY <2>2, NewFiles
<1>2. QED
  BY <1>1, OwnershipHolds, TypeAndDepthHold, PTL
=============================================================================
