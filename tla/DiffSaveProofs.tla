--------------------------- MODULE DiffSaveProofs ---------------------------
(***************************************************************************)
(* Proofs about DiffSave: type correctness, and that a text nobody was     *)
(* shown is overwritten only in the windows the code leaves open, for any  *)
(* number of people, saves, kills and failed writes.                       *)
(***************************************************************************)
EXTENDS DiffSave, TLAPS

\* The steps by one user.
Act(u) ==
  OpenPage(u) \/ PressSave(u) \/ Serve(u) \/ WriteFails(u) \/ Kill(u)

LEMMA StepCases ==
  Next => (\E u \in Users : Act(u)) \/ Tick \/ UNCHANGED vars
BY DEF Next, Act, Rest

\* A page that is shown is a page, and what the process held is reset.
LEMMA ShowType ==
  ASSUME TypeOK, NEW u \in Users, NEW kind \in Kinds, NEW original \in Contents,
         NEW time \in 0 .. now, NEW read \in 0 .. now,
         kind # "none" => time > 0, now' = now,
         Show(u, kind, original, time, read)
  PROVE  /\ pc' \in [Users -> Steps]
         /\ page' \in [Users -> [kind : Kinds, original : Contents,
                                 time : 0 .. now, read : 0 .. now]]
         /\ \A v \in Users : page'[v].kind # "none" => page'[v].time > 0
         /\ buf' \in [Users -> Contents] /\ stamp' \in [Users -> 0 .. now]
         /\ raced' \in [Users -> BOOLEAN] /\ readAt' \in [Users -> 0 .. now]
         /\ lost' = {}
<1> USE DEF TypeOK, Show, End
<1>1. pc' \in [Users -> Steps]
  BY DEF Steps
<1>2. buf' \in [Users -> Contents]
  BY DEF Contents
<1>3. stamp' \in [Users -> 0 .. now] /\ readAt' \in [Users -> 0 .. now]
  OBVIOUS
<1>4. raced' \in [Users -> BOOLEAN]
  BY Zenon
<1>5. page' \in [Users -> [kind : Kinds, original : Contents,
                           time : 0 .. now, read : 0 .. now]]
  OBVIOUS
<1>6. \A v \in Users : page'[v].kind # "none" => page'[v].time > 0
  OBVIOUS
<1>7. QED
  BY <1>1, <1>2, <1>3, <1>4, <1>5, <1>6

LEMMA InitType == Init => TypeOK
<1> SUFFICES ASSUME Init PROVE TypeOK
  OBVIOUS
<1> USE DiffAssumption DEF Init
<1>1. raced \in [Users -> BOOLEAN]
  BY Zenon
<1>2. content \in Contents /\ mtime \in 0 .. now /\ now \in 1 .. MaxTime
  BY DEF Contents
<1>3. pc \in [Users -> Steps] /\ buf \in [Users -> Contents]
  BY DEF Steps, Contents
<1>4. page \in [Users -> [kind : Kinds, original : Contents,
                          time : 0 .. now, read : 0 .. now]]
  BY DEF NoPage, Kinds, Contents
<1>5. \A u \in Users : page[u].kind # "none" => page[u].time > 0
  BY DEF NoPage
<1>6. QED
  BY <1>1, <1>2, <1>3, <1>4, <1>5 DEF TypeOK

\* What a write may lose, as a record.
LEMMA LossType ==
  ASSUME NEW k \in Kinds, NEW r \in 0 .. now, NEW t \in 0 .. now, NEW w \in 0 .. now,
         NEW b \in BOOLEAN
  PROVE  [kind |-> k, read |-> r, time |-> t, wrote |-> w, raced |-> b] \in
           [kind : Kinds, read : 0 .. now, time : 0 .. now, wrote : 0 .. now, raced : BOOLEAN]
OBVIOUS

LEMMA TypeStep == TypeOK /\ [Next]_vars => TypeOK'
<1> SUFFICES ASSUME TypeOK, [Next]_vars PROVE TypeOK'
  OBVIOUS
<1> USE DiffAssumption
<1>1. ASSUME NEW u \in Users, OpenPage(u) PROVE TypeOK'
  <2> USE <1>1 DEF OpenPage, Goto, file, TypeOK
  <2>1. pc' \in [Users -> Steps]
    BY DEF Steps
  <2>2. buf' \in [Users -> Contents] /\ lost' = {} /\ readAt' \in [Users -> 0 .. now]
    OBVIOUS
  <2>3. stamp' \in [Users -> 0 .. now]
    OBVIOUS
  <2>4. raced' \in [Users -> BOOLEAN]
    BY Zenon
  <2>5. QED
    BY <2>1, <2>2, <2>3, <2>4
<1>2. ASSUME NEW u \in Users, PressSave(u) PROVE TypeOK'
  <2> USE <1>2 DEF PressSave, Goto, file, TypeOK
  <2>1. pc' \in [Users -> Steps] /\ lost' = {}
    BY DEF Steps
  <2>2. stamp' \in [Users -> 0 .. now]
    OBVIOUS
  <2>3. raced' \in [Users -> BOOLEAN]
    BY Zenon
  <2>4. QED
    BY <2>1, <2>2, <2>3
<1>3. ASSUME NEW u \in Users, Stamp(u) PROVE TypeOK'
  <2>1. buf[u] \in Contents /\ now \in 0 .. now /\ now > 0 /\ readAt[u] \in 0 .. now
        /\ stamp[u] \in 0 .. now /\ "stack" \in Kinds /\ "diff" \in Kinds /\ now' = now
    BY <1>3 DEF TypeOK, Kinds, Stamp, file
  <2>2. CASE stamp[u] > 0
    BY <1>3, <2>1, <2>2, ShowType DEF Stamp, TypeOK, file
  <2>3. CASE ~(stamp[u] > 0)
    BY <1>3, <2>1, <2>3, ShowType DEF Stamp, TypeOK, file
  <2>4. QED
    BY <2>2, <2>3
<1>4. ASSUME NEW u \in Users, Refuse(u) PROVE TypeOK'
  <2>1. "refused" \in Kinds /\ stamp[u] \in 0 .. now /\ stamp[u] > 0 /\ now \in 0 .. now
        /\ now' = now /\ content \in Contents
    BY <1>4 DEF TypeOK, Kinds, Refuse, Conflict, file
  <2>2. QED
    BY <1>4, <2>1, ShowType DEF Refuse, TypeOK, file
<1>5. ASSUME NEW u \in Users, Accept(u) PROVE TypeOK'
  <2> USE <1>5 DEF Accept, Goto, file, TypeOK
  <2>1. pc' \in [Users -> Steps] /\ lost' = {}
    BY DEF Steps
  <2>2. buf' \in [Users -> Contents] /\ readAt' \in [Users -> 0 .. now]
    OBVIOUS
  <2>3. raced' \in [Users -> BOOLEAN]
    BY Zenon
  <2>4. QED
    BY <2>1, <2>2, <2>3
<1>6. ASSUME NEW u \in Users, Overwrite(u)
      PROVE  /\ mtime' = now
             /\ raced' \in [Users -> BOOLEAN]
             /\ lost' \subseteq [kind : Kinds, read : 0 .. now, time : 0 .. now,
                                wrote : 0 .. now, raced : BOOLEAN]
  <2> USE <1>6 DEF Overwrite, TypeOK
  <2>1. raced' \in [Users -> BOOLEAN]
    BY Zenon
  <2>2. raced[u] \in BOOLEAN
    BY Zenon
  <2>3. page[u].kind \in Kinds /\ page[u].read \in 0 .. now /\ page[u].time \in 0 .. now
    OBVIOUS
  <2>4. [kind |-> page[u].kind, read |-> page[u].read, time |-> page[u].time,
         wrote |-> mtime, raced |-> raced[u]] \in
           [kind : Kinds, read : 0 .. now, time : 0 .. now, wrote : 0 .. now, raced : BOOLEAN]
    BY <2>2, <2>3, LossType
  <2> HIDE <1>6 DEF TypeOK
  <2>5. QED
    BY <1>6, <2>1, <2>4 DEF Overwrite
<1>7. ASSUME NEW u \in Users, Truncate(u) PROVE TypeOK'
  <2>1. pc' \in [Users -> Steps] /\ content' \in Contents
    BY <1>7 DEF Truncate, Goto, TypeOK, Steps, Contents
  <2>2. QED
    BY <1>6, <1>7, <2>1 DEF Truncate, TypeOK
<1>8. ASSUME NEW u \in Users, Write(u) PROVE TypeOK'
  <2>1. pc' \in [Users -> Steps] /\ content' \in Contents /\ readAt' \in [Users -> 0 .. now]
    BY <1>8 DEF Write, Goto, TypeOK, Steps, Contents
  <2>2. QED
    BY <1>6, <1>8, <2>1 DEF Write, TypeOK
<1>9. ASSUME NEW u \in Users, Saved(u) PROVE TypeOK'
  <2>1. "saved" \in Kinds /\ now \in 0 .. now /\ now > 0 /\ u \in Contents
        /\ readAt[u] \in 0 .. now /\ now' = now
    BY <1>9 DEF TypeOK, Kinds, Contents, Saved, file
  <2>2. QED
    BY <1>9, <2>1, ShowType DEF Saved, TypeOK, file
<1>10. ASSUME NEW u \in Users, WriteFails(u) PROVE TypeOK'
  <2>1. "failed" \in Kinds /\ now \in 0 .. now /\ now > 0 /\ buf[u] \in Contents
        /\ readAt[u] \in 0 .. now /\ now' = now
    BY <1>10 DEF TypeOK, Kinds, WriteFails, file
  <2>2. QED
    BY <1>10, <2>1, ShowType DEF WriteFails, TypeOK, file
<1>11. ASSUME NEW u \in Users, Kill(u) PROVE TypeOK'
  <2> USE <1>11 DEF Kill, End, file, TypeOK
  <2>1. pc' \in [Users -> Steps] /\ buf' \in [Users -> Contents] /\ lost' = {}
    BY DEF Steps, Contents
  <2>2. stamp' \in [Users -> 0 .. now] /\ readAt' \in [Users -> 0 .. now]
    OBVIOUS
  <2>3. raced' \in [Users -> BOOLEAN]
    BY Zenon
  <2>4. QED
    BY <2>1, <2>2, <2>3
<1>12. CASE Tick
  <2> USE <1>12 DEF Tick, process, file, TypeOK
  <2>1. 0 .. now \subseteq 0 .. now' /\ now' \in 1 .. MaxTime
    OBVIOUS
  <2>2. raced' \in [Users -> BOOLEAN]
    BY Zenon
  <2>3. page' \in [Users -> [kind : Kinds, original : Contents,
                             time : 0 .. now', read : 0 .. now']]
    BY <2>1
  <2>4. QED
    BY <2>1, <2>2, <2>3
<1>13. CASE UNCHANGED vars
  <2>1. raced' \in [Users -> BOOLEAN]
    BY <1>13, Zenon DEF vars, process, TypeOK
  <2>2. lost' = lost /\ TypeOK
    BY <1>13, Zenon DEF vars, process
  <2>3. QED
    BY <1>13, <2>1, <2>2 DEF vars, process, file, TypeOK
<1>14. QED
  BY <1>1, <1>2, <1>3, <1>4, <1>5, <1>7, <1>8, <1>9, <1>10, <1>11, <1>12, <1>13,
     StepCases DEF Act, Serve

\* Every state is well typed; in particular, every page carries a time, which
\* doSave requires of the next save (diff/index.cgi 71-90 and 111).
THEOREM TypeCorrect == Spec => []TypeOK
BY InitType, TypeStep, PTL DEF Spec
-----------------------------------------------------------------------------
(***************************************************************************)
(* The windows.  A page shows what is in the file, or the file was written *)
(* after the page was read; so does what a request holds.  A request that  *)
(* nobody raced still knows the time of the file, and after the check that *)
(* time is not after the time of its page.                                 *)
(***************************************************************************)
PageWindow(u) ==
  /\ content = page[u].original \/ page[u].read <= mtime
  /\ pc[u] \in {"stamp", "truncate"} => content = buf[u] \/ readAt[u] <= mtime
  /\ pc[u] \in {"write", "saved"} => readAt[u] <= mtime
  /\ pc[u] = "truncate" => stamp[u] <= page[u].time

SaveWindow(u) ==
  /\ pc[u] \in {"read", "truncate"} /\ ~raced[u] /\ content # Absent => mtime = stamp[u]
  /\ pc[u] = "write" /\ ~raced[u] => content = Torn

WindowInv == \A u \in Users : PageWindow(u) /\ SaveWindow(u)

\* The values that are compared are numbers, and none is of the future.
LEMMA Times ==
  ASSUME TypeOK, NEW u \in Users
  PROVE  /\ now \in Nat /\ mtime \in Nat /\ mtime <= now
         /\ page[u].read \in Nat /\ page[u].read <= now
         /\ page[u].time \in Nat /\ page[u].time <= now
         /\ readAt[u] \in Nat /\ readAt[u] <= now
         /\ stamp[u] \in Nat
BY DEF TypeOK

\* The requests of others see an overwriting as a race, between stat and write.
LEMMA OverwriteRaces ==
  ASSUME TypeOK, NEW u \in Users, Overwrite(u), NEW v \in Users, ~raced'[v]
  PROVE  ~raced[v] /\ (v = u \/ pc[v] \notin {"read", "truncate", "write"})
<1>1. raced'[v] = (raced[v] \/ (v # u /\ pc[v] \in {"read", "truncate", "write"}))
  BY Zenon DEF Overwrite
<1>2. QED
  BY <1>1, Zenon

\* Who keeps the state of others keeps what they hold.
LEMMA OthersKeep ==
  ASSUME TypeOK, WindowInv, NEW u \in Users, UNCHANGED file,
         \A v \in Users \ {u} :
           /\ pc'[v] = pc[v] /\ page'[v] = page[v] /\ buf'[v] = buf[v]
           /\ stamp'[v] = stamp[v] /\ readAt'[v] = readAt[v]
           /\ ~raced'[v] => ~raced[v],
         PageWindow(u)', SaveWindow(u)'
  PROVE  WindowInv'
<1> SUFFICES ASSUME NEW v \in Users, v # u PROVE PageWindow(v)' /\ SaveWindow(v)'
  BY DEF WindowInv
<1>1. PageWindow(v) /\ SaveWindow(v)
  BY DEF WindowInv
<1>2. PageWindow(v)'
  BY <1>1 DEF PageWindow, file
<1>3. SaveWindow(v)'
  BY <1>1 DEF SaveWindow, file
<1>4. QED
  BY <1>2, <1>3

\* An answer touches neither the file nor what others hold.
LEMMA ShowWindow ==
  ASSUME TypeOK, WindowInv, NEW u \in Users, NEW kind, NEW original, NEW time, NEW read,
         Show(u, kind, original, time, read), UNCHANGED file,
         content = original \/ read <= mtime
  PROVE  WindowInv'
<1>1. \A v \in Users \ {u} : ~raced'[v] => ~raced[v]
  BY Zenon DEF Show, End, TypeOK
<1>2. \A v \in Users \ {u} :
        /\ pc'[v] = pc[v] /\ page'[v] = page[v] /\ buf'[v] = buf[v]
        /\ stamp'[v] = stamp[v] /\ readAt'[v] = readAt[v]
  BY DEF Show, End, TypeOK
<1>3. PageWindow(u)' /\ SaveWindow(u)'
  BY DEF PageWindow, SaveWindow, Show, End, TypeOK, file
<1>4. QED
  BY <1>1, <1>2, <1>3, OthersKeep

\* A write makes the file younger than everything that was read before.
LEMMA OverwriteWindow ==
  ASSUME TypeOK, WindowInv, NEW u \in Users, Overwrite(u),
         UNCHANGED <<page, buf, stamp, now>>,
         pc' = [pc EXCEPT ![u] = pc'[u]], pc'[u] \in {"write", "saved"},
         readAt' = readAt \/ readAt' = [readAt EXCEPT ![u] = now],
         pc'[u] = "write" => content' = Torn
  PROVE  WindowInv'
<1> SUFFICES ASSUME NEW v \in Users PROVE PageWindow(v)' /\ SaveWindow(v)'
  BY DEF WindowInv
<1>1. mtime' = now /\ readAt'[v] <= now /\ page'[v].read <= now
  BY Times DEF Overwrite, TypeOK
<1>2. v # u => pc'[v] = pc[v]
  BY DEF TypeOK
<1>3. PageWindow(v)'
  <2>1. PageWindow(v)
    BY DEF WindowInv
  <2>2. QED
    BY <1>1, <1>2, <2>1 DEF PageWindow
<1>4. SaveWindow(v)'
  BY <1>2, OverwriteRaces DEF SaveWindow
<1>5. QED
  BY <1>3, <1>4

LEMMA WindowStep == TypeOK /\ WindowInv /\ [Next]_vars => WindowInv'
<1> SUFFICES ASSUME TypeOK, WindowInv, [Next]_vars PROVE WindowInv'
  OBVIOUS
<1>1. ASSUME NEW u \in Users, OpenPage(u) PROVE WindowInv'
  <2> USE <1>1 DEF OpenPage, Goto, file, TypeOK
  <2>1. \A v \in Users \ {u} : ~raced'[v] => ~raced[v]
    BY Zenon
  <2>2. PageWindow(u)' /\ SaveWindow(u)'
    BY DEF WindowInv, PageWindow, SaveWindow
  <2>3. QED
    BY <2>1, <2>2, OthersKeep
<1>2. ASSUME NEW u \in Users, PressSave(u) PROVE WindowInv'
  <2> USE <1>2 DEF PressSave, Goto, file, TypeOK
  <2>1. \A v \in Users \ {u} : ~raced'[v] => ~raced[v]
    BY Zenon
  <2>2. PageWindow(u)' /\ SaveWindow(u)'
    BY DEF WindowInv, PageWindow, SaveWindow
  <2>3. QED
    BY <2>1, <2>2, OthersKeep
<1>3. ASSUME NEW u \in Users, Accept(u) PROVE WindowInv'
  <2> USE <1>3 DEF Accept, Conflict, Goto, file, TypeOK
  <2>1. \A v \in Users : ~raced'[v] => ~raced[v]
    BY Zenon
  <2>2. PageWindow(u)'
    BY Times DEF WindowInv, PageWindow
  <2>3. SaveWindow(u)'
    BY <2>1 DEF WindowInv, SaveWindow
  <2>4. QED
    BY <2>1, <2>2, <2>3, OthersKeep
<1>4. ASSUME NEW u \in Users, Stamp(u) PROVE WindowInv'
  <2>1. content = buf[u] \/ readAt[u] <= mtime
    BY <1>4 DEF WindowInv, PageWindow, Stamp
  <2>2. QED
    BY <1>4, <2>1, ShowWindow DEF Stamp
<1>5. ASSUME NEW u \in Users, Refuse(u) PROVE WindowInv'
  BY <1>5, ShowWindow DEF Refuse
<1>6. ASSUME NEW u \in Users, Saved(u) PROVE WindowInv'
  <2>1. readAt[u] <= mtime
    BY <1>6 DEF WindowInv, PageWindow, Saved
  <2>2. QED
    BY <1>6, <2>1, ShowWindow DEF Saved
<1>7. ASSUME NEW u \in Users, WriteFails(u) PROVE WindowInv'
  <2>1. content = buf[u] \/ readAt[u] <= mtime
    BY <1>7 DEF WindowInv, PageWindow, WriteFails
  <2>2. QED
    BY <1>7, <2>1, ShowWindow DEF WriteFails
<1>8. ASSUME NEW u \in Users, Truncate(u) PROVE WindowInv'
  BY <1>8, OverwriteWindow DEF Truncate, Goto, TypeOK
<1>9. ASSUME NEW u \in Users, Write(u) PROVE WindowInv'
  BY <1>9, OverwriteWindow DEF Write, Goto, TypeOK
<1>10. ASSUME NEW u \in Users, Kill(u) PROVE WindowInv'
  <2> USE <1>10 DEF Kill, End, file, TypeOK
  <2>1. \A v \in Users \ {u} : ~raced'[v] => ~raced[v]
    BY Zenon
  <2>2. PageWindow(u)' /\ SaveWindow(u)'
    BY DEF WindowInv, PageWindow, SaveWindow
  <2>3. QED
    BY <2>1, <2>2, OthersKeep
<1>11. CASE Tick
  BY <1>11 DEF Tick, process, file, WindowInv, PageWindow, SaveWindow
<1>12. CASE UNCHANGED vars
  BY <1>12 DEF vars, process, file, WindowInv, PageWindow, SaveWindow
<1>13. QED
  BY <1>1, <1>2, <1>3, <1>4, <1>5, <1>6, <1>7, <1>8, <1>9, <1>10, <1>11, <1>12,
     StepCases DEF Act, Serve

\* What is overwritten unseen was written between the stat and the write of the
\* request that overwrote it, or between the reading of its page and the time
\* of that page, for any number of people (diff/index.cgi 43-50, 76-89, 111).
THEOREM LostOnlyInWindowHolds == Spec => []LostOnlyInWindow
<1>1. Init => WindowInv /\ LostOnlyInWindow
  BY DEF Init, WindowInv, PageWindow, SaveWindow, LostOnlyInWindow, NoPage
<1>2. ASSUME TypeOK, WindowInv, LostOnlyInWindow, [Next]_vars
      PROVE  LostOnlyInWindow'
  <2>1. CASE lost' \subseteq lost
    BY <1>2, <2>1 DEF LostOnlyInWindow
  <2>2. ASSUME NEW u \in Users, Truncate(u) PROVE LostOnlyInWindow'
    <3> SUFFICES ASSUME NEW l \in lost', ~l.raced
                 PROVE  l.read <= l.wrote /\ l.wrote <= l.time
      BY DEF LostOnlyInWindow
    <3>1. /\ content \notin {page[u].original, u, Torn, Absent}
          /\ l = [kind |-> page[u].kind, read |-> page[u].read, time |-> page[u].time,
                  wrote |-> mtime, raced |-> raced[u]]
      BY <2>2 DEF Truncate, Overwrite
    <3>2. ~raced[u]
      BY <3>1
    <3>3. mtime = stamp[u] /\ stamp[u] <= page[u].time
      BY <1>2, <2>2, <3>1, <3>2 DEF WindowInv, PageWindow, SaveWindow, Truncate, Goto
    <3>4. page[u].read <= mtime
      BY <1>2, <3>1 DEF WindowInv, PageWindow
    <3>5. QED
      BY <3>1, <3>3, <3>4
  <2>3. ASSUME NEW u \in Users, Write(u) PROVE LostOnlyInWindow'
    <3> SUFFICES ASSUME NEW l \in lost', ~l.raced PROVE FALSE
      BY DEF LostOnlyInWindow
    <3>1. /\ content # Torn
          /\ l.raced = raced[u]
      BY <2>3 DEF Write, Overwrite
    <3>2. ~raced[u]
      BY <3>1
    <3>3. QED
      BY <1>2, <2>3, <3>1, <3>2 DEF WindowInv, SaveWindow, Write, Goto
  <2>4. ASSUME NEW u \in Users, Act(u) PROVE LostOnlyInWindow'
    BY <2>1, <2>2, <2>3, <2>4 DEF Act, Serve, OpenPage, PressSave, Stamp, Refuse, Accept,
       Saved, WriteFails, Kill, Show, End
  <2>5. QED
    BY <1>2, <2>1, <2>4, StepCases DEF Tick, vars
<1>3. QED
  BY <1>1, <1>2, WindowStep, TypeCorrect, PTL DEF Spec
-----------------------------------------------------------------------------
(***************************************************************************)
(* Reviewed pages.  The time of a page from the card editor, and of one    *)
(* that was refused, is not after the moment at which its text was read.   *)
(***************************************************************************)
Careful == {"stack", "refused"}

AgeInv ==
  /\ \A u \in Users : page[u].kind \in Careful => page[u].time <= page[u].read
  /\ \A u \in Users : pc[u] = "stamp" => stamp[u] <= readAt[u]
  /\ \A l \in lost : l.kind \in Careful => l.time <= l.read

LEMMA ShowAge ==
  ASSUME TypeOK, AgeInv, NEW u \in Users, NEW kind, NEW original, NEW time, NEW read,
         Show(u, kind, original, time, read), kind \in Careful => time <= read
  PROVE  AgeInv'
BY DEF AgeInv, Show, End, TypeOK

LEMMA AgeStep == TypeOK /\ AgeInv /\ [Next]_vars => AgeInv'
<1> SUFFICES ASSUME TypeOK, AgeInv, [Next]_vars PROVE AgeInv'
  OBVIOUS
<1>1. ASSUME NEW u \in Users, OpenPage(u) PROVE AgeInv'
  BY <1>1 DEF OpenPage, Goto, AgeInv, TypeOK
<1>2. ASSUME NEW u \in Users, PressSave(u) PROVE AgeInv'
  BY <1>2 DEF PressSave, Goto, AgeInv, TypeOK
<1>3. ASSUME NEW u \in Users, Accept(u) PROVE AgeInv'
  BY <1>3 DEF Accept, Goto, AgeInv, TypeOK
<1>4. ASSUME NEW u \in Users, Stamp(u) PROVE AgeInv'
  <2>1. stamp[u] <= readAt[u] /\ "diff" \notin Careful
    BY <1>4 DEF Stamp, AgeInv, Careful
  <2>2. QED
    BY <1>4, <2>1, ShowAge DEF Stamp
<1>5. ASSUME NEW u \in Users, Refuse(u) PROVE AgeInv'
  <2>1. stamp[u] <= now
    BY DEF TypeOK
  <2>2. QED
    BY <1>5, <2>1, ShowAge DEF Refuse
<1>6. ASSUME NEW u \in Users, Saved(u) \/ WriteFails(u) PROVE AgeInv'
  BY <1>6, ShowAge DEF Saved, WriteFails, Careful
<1>7. ASSUME NEW u \in Users, Overwrite(u)
      PROVE  \A l \in lost' : l.kind \in Careful => l.time <= l.read
  BY <1>7 DEF Overwrite, AgeInv
<1>8. ASSUME NEW u \in Users, Truncate(u) \/ Write(u) PROVE AgeInv'
  BY <1>7, <1>8 DEF Truncate, Write, Goto, AgeInv, TypeOK
<1>9. ASSUME NEW u \in Users, Kill(u) PROVE AgeInv'
  BY <1>9 DEF Kill, End, AgeInv, TypeOK
<1>10. CASE Tick \/ UNCHANGED vars
  BY <1>10 DEF Tick, vars, process, AgeInv
<1>11. QED
  BY <1>1, <1>2, <1>3, <1>4, <1>5, <1>6, <1>8, <1>9, <1>10, StepCases DEF Act, Serve

\* A page that came from the card editor or was refused protects every later
\* change but one of the same millisecond, unless it was raced
\* (diff/index.cgi 76-89, 111; stack/js/app.js 170-176).
THEOREM ReviewedIsProtectedHolds == Spec => []ReviewedIsProtected
<1>1. Init => AgeInv
  BY DEF Init, AgeInv, NoPage, Careful
<1>2. TypeOK /\ AgeInv /\ LostOnlyInWindow => ReviewedIsProtected
  <2> SUFFICES ASSUME TypeOK, AgeInv, LostOnlyInWindow,
                      NEW l \in lost, l.kind \in Careful, ~l.raced
               PROVE  l.wrote = l.time
    BY DEF ReviewedIsProtected, Careful
  <2>1. l.read \in Nat /\ l.wrote \in Nat /\ l.time \in Nat
    BY DEF TypeOK
  <2>2. l.read <= l.wrote /\ l.wrote <= l.time
    BY Zenon DEF LostOnlyInWindow
  <2>3. l.time <= l.read
    BY DEF AgeInv
  <2>4. QED
    BY <2>1, <2>2, <2>3
<1>3. QED
  BY <1>1, <1>2, AgeStep, TypeCorrect, LostOnlyInWindowHolds, PTL DEF Spec
=============================================================================
