------------------------------ MODULE LockFile ------------------------------
(***************************************************************************)
(* The lock-file library lib/js/lockfile.js with its stale locks.  A lock  *)
(* is a file that open(O_EXCL) created; the lock that guards the takeover  *)
(* of "path" is "path.STALE", the one that guards the takeover of that is  *)
(* "path.STALE.STALE", and so on: files are numbered by level.  Processes  *)
(* interleave at every system call.  A process that is killed or exits is  *)
(* replaced by a fresh one in its slot.                                    *)
(***************************************************************************)
EXTENDS Naturals, FiniteSets

CONSTANTS
  Procs,       \* slots of concurrently running processes
  Programs,    \* what the callers may have in common: the calls they use
  Retries,     \* opts.retries of every call
  Waits,       \* whether opts.wait is set
  MaxDepth,    \* bound: the highest level whose file does not go stale
  MaxKills,    \* bound: how many processes are killed
  MaxExits     \* bound: how many processes exit

\* Who a file belongs to that no process is working with any more.
Dead == "dead"   \* its process is gone
Left == "left"   \* its process forgot it

ASSUME LockFileAssumption ==
  /\ Procs \intersect {Dead, Left} = {}
  /\ Programs \subseteq SUBSET {"lock", "lockSync"}
  /\ Retries \in Nat
  /\ Waits \in BOOLEAN
  /\ MaxDepth \in Nat \ {0}
  /\ MaxKills \in Nat /\ MaxExits \in Nat

VARIABLES
  file,      \* the file at each level: who works with it, how old it is
  pc,        \* next system call of each process
  level,     \* the level a process works at
  guarded,   \* hasStaleLock: the file one level up was locked for this
  stale,     \* opts.stale is set
  tries,     \* retries left
  locks,     \* the "locks" table of each process, as a set of levels
  styles,    \* the calls that the callers of this lock use
  kills, exits,
  gone       \* history: a caller came to look at a .STALE file that was gone

vars == <<file, pc, level, guarded, stale, tries, locks, styles, kills,
          exits, gone>>

Levels == 0 .. MaxDepth
None == [by |-> Dead, age |-> "none"]
Fresh(p) == [by |-> p, age |-> "fresh"]
Files == {None} \union [by : Procs \union {Dead, Left}, age : {"fresh", "stale"}]
Steps == {"idle", "open", "stat", "unlink", "link", "drop", "undo", "critical",
          "openSync", "statSync", "unlinkSync"}

Init ==
  /\ file = [l \in Levels |-> None]
  /\ pc = [p \in Procs |-> "idle"]
  /\ level = [p \in Procs |-> 0]
  /\ guarded = [p \in Procs |-> FALSE]
  /\ stale = [p \in Procs |-> TRUE]
  /\ tries = [p \in Procs |-> Retries]
  /\ locks = [p \in Procs |-> {}]
  /\ styles \in Programs
  /\ kills = 0 /\ exits = 0 /\ gone = FALSE
-----------------------------------------------------------------------------
At(p, step) == pc[p] = step
Goto(p, step, l) ==
  /\ pc' = [pc EXCEPT ![p] = step]
  /\ level' = [level EXCEPT ![p] = l]

\* The caller asks for the lock, with a stale time.
Start(p) ==
  /\ At(p, "idle")
  /\ \/ "lock" \in styles /\ Goto(p, "open", 0)
     \/ "lockSync" \in styles /\ Goto(p, "openSync", 0)
  /\ guarded' = [guarded EXCEPT ![p] = FALSE]
  /\ stale' = [stale EXCEPT ![p] = TRUE]
  /\ tries' = [tries EXCEPT ![p] = Retries]
  /\ UNCHANGED <<file, locks, styles, kills, exits, gone>>

\* The callback gets an error: another try from the start, or the caller is
\* told.  Nothing that was created on the way is removed.
Fail(p) ==
  IF tries[p] > 0
  THEN /\ Goto(p, "open", 0)
       /\ tries' = [tries EXCEPT ![p] = @ - 1]
  ELSE Goto(p, "idle", 0) /\ UNCHANGED tries

\* notStale: poll while there is time left, else fail.
NotStale(p) ==
  \/ Waits /\ Goto(p, "open", level[p]) /\ UNCHANGED tries
  \/ Fail(p)

\* The callback of lock at level l: the caller owns the lock, or the takeover
\* one level down goes on.
Acquired(p, l) ==
  IF l = 0
  THEN Goto(p, "critical", 0) /\ guarded' = [guarded EXCEPT ![p] = FALSE]
  ELSE Goto(p, "stat", l - 1) /\ guarded' = [guarded EXCEPT ![p] = TRUE]

\* lock: open(path, "wx").
Open(p) ==
  LET l == level[p]
  IN  /\ At(p, "open")
      /\ IF file[l] = None
         THEN /\ file' = [file EXCEPT ![l] = Fresh(p)]
              /\ locks' = [locks EXCEPT ![p] = @ \union {l}]
              /\ Acquired(p, l)
              /\ UNCHANGED tries
         ELSE /\ IF stale[p]
                 THEN Goto(p, "stat", l) /\ UNCHANGED tries
                 ELSE NotStale(p)
              /\ UNCHANGED <<file, locks, guarded>>
      /\ UNCHANGED <<stale, styles, kills, exits, gone>>

\* What the error or the new request leaves behind: the .STALE file that was
\* locked for a takeover which is not needed any more.
Forget(p, l) ==
  file' = IF guarded[p] /\ file[l + 1].by = p
          THEN [file EXCEPT ![l + 1].by = Left] ELSE file

\* fs.stat finds no file: the caller asks for it again and takes no lock for
\* stale any more, opts.stale being one for all levels of a call.
Vanished(p, l) ==
  /\ file[l] = None
  /\ stale' = [stale EXCEPT ![p] = FALSE]
  /\ gone' = (gone \/ l # 0)
  /\ Goto(p, "open", l)
  /\ guarded' = [guarded EXCEPT ![p] = FALSE]
  /\ Forget(p, l)
  /\ UNCHANGED tries

\* The age is at most opts.stale: the takeover ends here.
Waiting(p, l) ==
  /\ file[l].age = "fresh"
  /\ NotStale(p)
  /\ guarded' = [guarded EXCEPT ![p] = FALSE]
  /\ Forget(p, l)
  /\ UNCHANGED <<stale, gone>>

\* The age is above opts.stale, which a file of one millisecond is above once
\* that is false.
TakenForStale(p, l) ==
  file[l] # None /\ (file[l].age = "stale" \/ ~stale[p])

\* Variant: the lock is not looked at again once its .STALE file is locked.
StatOnce(p) ==
  LET l == level[p]
  IN  /\ At(p, "stat")
      /\ \/ ~guarded[p] /\ (Vanished(p, l) \/ Waiting(p, l))
         \/ /\ TakenForStale(p, l) \/ guarded[p]
            /\ IF guarded[p] THEN Goto(p, "unlink", l) ELSE Goto(p, "open", l + 1)
            /\ UNCHANGED <<file, guarded, stale, gone, tries>>
      /\ UNCHANGED <<locks, styles, kills, exits>>

\* Variant: a stale lock is removed without locking its .STALE file.
StatUnguarded(p) ==
  LET l == level[p]
  IN  /\ At(p, "stat")
      /\ \/ Vanished(p, l) \/ Waiting(p, l)
         \/ /\ TakenForStale(p, l)
            /\ Goto(p, "unlink", l)
            /\ UNCHANGED <<file, guarded, stale, gone, tries>>
      /\ UNCHANGED <<locks, styles, kills, exits>>

\* Variant: a stale lock is waited for like a fresh one.
StatNeverStale(p) ==
  LET l == level[p]
  IN  /\ At(p, "stat")
      /\ \/ Vanished(p, l)
         \/ /\ file[l] # None /\ NotStale(p)
            /\ UNCHANGED <<file, guarded, stale, gone>>
      /\ UNCHANGED <<locks, styles, kills, exits>>

\* maybeStale: a lock that vanished is asked for again; a fresh one is waited
\* for; one that is taken for stale is taken over once the file one level up is
\* locked, and that is done first.
Stat(p) ==
  LET l == level[p]
  IN  /\ At(p, "stat")
      /\ \/ Vanished(p, l) \/ Waiting(p, l)
         \/ /\ TakenForStale(p, l)
            /\ IF guarded[p] THEN Goto(p, "unlink", l) ELSE Goto(p, "open", l + 1)
            /\ UNCHANGED <<file, guarded, stale, gone, tries>>
      /\ UNCHANGED <<locks, styles, kills, exits>>

\* maybeStale with the .STALE lock: unlock(path).
Unlink(p) ==
  LET l == level[p]
  IN  /\ At(p, "unlink")
      /\ Goto(p, "link", l)
      /\ file' = [file EXCEPT ![l] = None]
      /\ locks' = [locks EXCEPT ![p] = @ \ {l}]
      /\ UNCHANGED <<guarded, stale, tries, styles, kills, exits, gone>>

\* link(path.STALE, path), which makes the file fresh; it fails when the first
\* is gone or the second is there.
Link(p) ==
  LET l == level[p]
  IN  /\ At(p, "link")
      /\ IF file[l + 1] # None /\ file[l] = None
         THEN /\ Goto(p, "drop", l)
              /\ file' = [file EXCEPT ![l] = Fresh(p), ![l + 1] = Fresh(p)]
         ELSE Goto(p, "undo", l) /\ UNCHANGED file
      /\ UNCHANGED <<guarded, stale, tries, locks, styles, kills, exits, gone>>

\* unlink(path.STALE), whatever link did.  The table of locks is not told: it
\* keeps path.STALE and does not learn of path.
Drop(p) ==
  /\ file' = [file EXCEPT ![level[p] + 1] = None]
  /\ \/ At(p, "drop") /\ Acquired(p, level[p]) /\ UNCHANGED tries
     \/ At(p, "undo") /\ Fail(p) /\ guarded' = [guarded EXCEPT ![p] = FALSE]
  /\ UNCHANGED <<stale, locks, styles, kills, exits, gone>>
-----------------------------------------------------------------------------
\* retryThrow: another lockSync, or the error is thrown.
RetryThrow(p) ==
  IF tries[p] > 0
  THEN /\ Goto(p, "openSync", 0)
       /\ tries' = [tries EXCEPT ![p] = @ - 1]
  ELSE Goto(p, "idle", 0) /\ UNCHANGED tries

\* lockSync: openSync(path, "wx").
OpenSync(p) ==
  /\ At(p, "openSync")
  /\ IF file[0] = None
     THEN /\ file' = [file EXCEPT ![0] = Fresh(p)]
          /\ locks' = [locks EXCEPT ![p] = @ \union {0}]
          /\ Goto(p, "critical", 0)
     ELSE Goto(p, "statSync", 0) /\ UNCHANGED <<file, locks>>
  /\ UNCHANGED <<guarded, stale, tries, styles, kills, exits, gone>>

\* statSync throws for a lock that vanished; a stale lock is removed and asked
\* for again.
StatSync(p) ==
  /\ At(p, "statSync")
  /\ \/ file[0] = None /\ Goto(p, "idle", 0) /\ UNCHANGED tries
     \/ file[0].age = "fresh" /\ RetryThrow(p)
     \/ file[0].age = "stale" /\ Goto(p, "unlinkSync", 0) /\ UNCHANGED tries
  /\ UNCHANGED <<file, guarded, stale, locks, styles, kills, exits, gone>>

\* unlockSync(path), then lockSync again.
UnlinkSync(p) ==
  /\ At(p, "unlinkSync")
  /\ Goto(p, "openSync", 0)
  /\ file' = [file EXCEPT ![0] = None]
  /\ locks' = [locks EXCEPT ![p] = @ \ {0}]
  /\ UNCHANGED <<guarded, stale, tries, styles, kills, exits, gone>>

\* The caller is done: unlock(path).
Release(p) ==
  /\ At(p, "critical")
  /\ Goto(p, "idle", 0)
  /\ file' = [file EXCEPT ![0] = None]
  /\ locks' = [locks EXCEPT ![p] = @ \ {0}]
  /\ UNCHANGED <<guarded, stale, tries, styles, kills, exits, gone>>

\* A fresh process takes the slot of p; the files p touched last stay.
Replace(p, remaining) ==
  /\ pc' = [pc EXCEPT ![p] = "idle"]
  /\ level' = [level EXCEPT ![p] = 0]
  /\ locks' = [locks EXCEPT ![p] = {}]
  /\ file' = [l \in Levels |->
                IF remaining[l].by = p THEN [remaining[l] EXCEPT !.by = Dead]
                                       ELSE remaining[l]]

\* The exit listener unlinks every file the table names.
Exit(p) ==
  /\ exits < MaxExits
  /\ exits' = exits + 1
  /\ At(p, "idle")
  /\ Replace(p, [l \in Levels |-> IF l \in locks[p] THEN None ELSE file[l]])
  /\ UNCHANGED <<guarded, stale, tries, styles, kills, gone>>

Kill(p) ==
  /\ kills < MaxKills
  /\ kills' = kills + 1
  /\ ~At(p, "idle")
  /\ Replace(p, file)
  /\ UNCHANGED <<guarded, stale, tries, styles, exits, gone>>

\* The stale time passes for a file nobody is working with: those who work end
\* long before it does.
Age(l) ==
  /\ l < MaxDepth
  /\ file[l].age = "fresh"
  /\ file[l].by \in {Dead, Left}
  /\ file' = [file EXCEPT ![l].age = "stale"]
  /\ UNCHANGED <<pc, level, guarded, stale, tries, locks, styles, kills, exits, gone>>

Step(p) == \/ Open(p) \/ Stat(p) \/ Unlink(p) \/ Link(p) \/ Drop(p)
           \/ OpenSync(p) \/ StatSync(p) \/ UnlinkSync(p) \/ Release(p)

Next == \/ \E p \in Procs : Start(p) \/ Step(p) \/ Exit(p) \/ Kill(p)
        \/ \E l \in Levels : Age(l)

Spec == Init /\ [][Next]_vars

\* Time passes, requests keep coming, and a running process is scheduled.
FairSpec == /\ Spec
            /\ \A p \in Procs : WF_vars(Start(p)) /\ WF_vars(Step(p))
            /\ \A l \in Levels : WF_vars(Age(l))
-----------------------------------------------------------------------------
TypeOK ==
  /\ file \in [Levels -> Files]
  /\ pc \in [Procs -> Steps]
  /\ level \in [Procs -> Levels]
  /\ guarded \in [Procs -> BOOLEAN]
  /\ stale \in [Procs -> BOOLEAN]
  /\ tries \in [Procs -> 0 .. Retries]
  /\ locks \in [Procs -> SUBSET Levels]
  /\ styles \in Programs
  /\ kills \in 0 .. MaxKills
  /\ exits \in 0 .. MaxExits
  /\ gone \in BOOLEAN

\* lockSync removes stale locks without a takeover, the exit listener of a
\* process that made one removes files of others, and a caller that came to
\* look at a .STALE file that was gone (201) takes a fresh lock for stale when
\* it gets that file after all (210).  Until one of these, takeovers are all
\* that befalls a stale lock.
TakeoversOnly == styles = {"lock"} /\ exits = 0 /\ ~gone

\* A caller that was given the lock has it until it unlocks: the file is there
\* and nobody else touched it, through any number of takeovers (196-232).
HoldersHaveIt == \A p \in Procs : At(p, "critical") => file[0] = Fresh(p)
HolderKeepsLock == TakeoversOnly => HoldersHaveIt

\* Of several processes that find one lock stale, one gets to remove it: the
\* file one level up is theirs from the moment it is locked (212-229).
OneTakeover ==
  TakeoversOnly => \A p, q \in Procs :
    /\ pc[p] \in {"unlink", "link", "drop"} /\ pc[q] \in {"unlink", "link", "drop"}
    /\ level[p] = level[q]
    => p = q

\* A lock whose owner is gone is removed or taken over one day, whatever .STALE
\* files killed or failed takeovers left behind (184-232).
OrphanIsRecovered ==
  file[0].by = Dead /\ file[0] # None ~> file[0] = None \/ file[0].by \in Procs
-----------------------------------------------------------------------------
\* "On any failure, clean up whatever we've done, and raise the error"
\* (lockfile.js 195): no .STALE file of a living process is left behind.
FailureCleansUp == \A l \in Levels : file[l].by # Left

\* "4. stat $lock, assert that it is still stale" (lockfile.js 191): a caller
\* goes on to unlink a lock only when it found it stale.
AssertsStale ==
  [][\A p \in Procs :
       pc[p] = "stat" /\ pc'[p] = "unlink" => file[level[p]].age = "stale"]_vars

\* "unlocking an already-unlocked lock is a noop" (lockfile.js 59 and 66): the
\* exit listener does not remove a file of another process.
ExitRemovesOwn ==
  [][exits' > exits =>
       \A l \in Levels : file[l].by \in {p \in Procs : pc[p] # "idle"} =>
                            file'[l] = file[l]]_vars
=============================================================================
