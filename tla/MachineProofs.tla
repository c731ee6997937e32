---------------------------- MODULE MachineProofs ----------------------------
(***************************************************************************)
(* Proofs about Machine, for any number of files and any list of tasks in  *)
(* the order etc/init.json asks for.  Each theorem names what it needs:    *)
(* that members rest while init runs, that gpg does not fail to encrypt,   *)
(* that the machine crashes once at most, that git tracks every file.      *)
(***************************************************************************)
EXTENDS Machine, SequenceTheorems, TLAPS

\* Where the runner is: what todo, step and visit say together.
TaskInv ==
  /\ phase \notin {"boot", "halt"} => todo = <<>>
  /\ todo = <<>> => step = "begin"
  /\ step = "begin" => visit = {}
  /\ phase = "boot" => /\ ~Lists(todo, "savemeta") /\ ~Lists(todo, "encryptfs")
                       /\ Before(todo, "loadmeta", "decryptfs")
                       /\ Before(todo, "createusers", "loadmeta")
                       /\ Lists(todo, "createusers") => Lists(todo, "loadmeta")
  /\ phase = "halt" => /\ ~Lists(todo, "createusers") /\ ~Lists(todo, "loadmeta")
                       /\ ~Lists(todo, "decryptfs") /\ ~Lists(todo, "fsck")
                       /\ Before(todo, "savemeta", "encryptfs")
  /\ step = "move" => Head(todo) \in {"encryptfs", "decryptfs"}
  /\ step = "copy" => Head(todo) = "decryptfs"
  /\ \A f \in Files : latest[f] > 0

Inv == TypeOK /\ TaskInv

\* A list that cannot be parsed is being rewritten, or something went wrong.
JsonInv ==
  json \/ ~Smooth \/ (step = "each" /\ Head(todo) \in {"savegroups", "saveusers"})

\* The task that runs is past its beginning; and has left f behind.
Within(task) == Running(task) /\ step # "begin"
Left(task, f) == Within(task) /\ f \notin visit

\* decryptfs visits files that only their owner can read.
DecryptInv == \A f \in visit : Within("decryptfs") => ~world[f]

\* A closed file is encrypted, or passed over.
Sealed(f) == data[f].cipher \/ open[f] \/ f \in PassedOver

\* Why nothing is exposed: encryptfs leaves every closed file encrypted, and
\* none is decrypted before the last loadmeta ended.
SealInv ==
  Smooth =>
    /\ phase # "off"
    /\ step = "move" => buffer.version > 0
    /\ step = "copy" => buffer.version > 0
    /\ \A f \in Files :
         /\ data[f].version > 0 \/ (step = "copy" /\ buffer.file = f)
         /\ world[f] /\ ~data[f].cipher /\ data[f].version > 0 => Sealed(f)
         /\ phase = "halt" /\ ~Lists(todo, "encryptfs") => Sealed(f)
         /\ phase = "halt" /\ Left("encryptfs", f) => Sealed(f)
         /\ phase = "halted" => Sealed(f)
         /\ phase = "boot" /\ Lists(todo, "loadmeta") => Sealed(f)

\* Where f is on its way through a halt that goes well ...
Halting(f) ==
  /\ data[f].version = latest[f]
  /\ step = "move" => buffer.version = latest[buffer.file]
  /\ data[f].cipher => ~open[f]
  /\ ~data[f].cipher => world[f] = open[f]
  /\ Lists(todo, "savemeta") => ~data[f].cipher
  /\ ~Lists(todo, "savemeta") \/ Left("savemeta", f) => acl[f] = Recorded(open[f])
  /\ ~Lists(todo, "encryptfs") \/ Left("encryptfs", f) => Sealed(f)
  /\ Within("encryptfs") /\ f \in visit => ~open[f]

\* ... and through a boot.
Booting(f) ==
  /\ acl[f] = Recorded(open[f])
  /\ step \in {"move", "copy"} => buffer.version = latest[buffer.file]
  /\ data[f].version = latest[f] \/ (step = "copy" /\ buffer.file = f)
  /\ data[f].cipher => ~open[f]
  /\ Lists(todo, "loadmeta") => Sealed(f)
  /\ ~Lists(todo, "loadmeta") \/ Left("loadmeta", f) => world[f] = open[f]
  /\ ~Lists(todo, "decryptfs") \/ Left("decryptfs", f) => ~data[f].cipher

\* In between.
Halted(f) ==
  /\ data[f].version = latest[f]
  /\ data[f].cipher => ~open[f]
  /\ Sealed(f)
  /\ acl[f] = Recorded(open[f])

TripInv ==
  Smooth =>
    \A f \in Files :
      /\ phase # "off"
      /\ phase = "up" => AsLeft(f)
      /\ phase = "halt" => Halting(f)
      /\ phase = "halted" => Halted(f)
      /\ phase = "boot" => Booting(f)

\* What a halt, whatever went wrong before it, does to the files it records.
PushInv ==
  \A f \in Files \ PassedOver :
    /\ repo.acl[f] = "closed" => repo.data[f].cipher
    /\ phase = "halt" =>
         /\ ~Lists(todo, "savemeta") \/ Within("savemeta") =>
              (acl[f] = "closed" => ~world[f])
         /\ ~Lists(todo, "encryptfs") \/ Left("encryptfs", f) =>
              (~world[f] => data[f].cipher)
    /\ phase = "halted" /\ acl[f] = "closed" => data[f].cipher

\* Until the machine crashed, a file is only cut when git has its last version.
KeepInv ==
  /\ phase = "off" => crashes > 0
  /\ step = "move" => buffer.version = data[buffer.file].version
  /\ step = "copy" => data[buffer.file].version = 0
  /\ \A f \in Files :
       /\ \/ latest[f] \in kept[f] \union {data[f].version}
          \/ step = "copy" /\ buffer = [file |-> f, version |-> latest[f]]
       /\ phase = "boot" /\ crashes = 0 => latest[f] \in kept[f]
-----------------------------------------------------------------------------
\* Lists of tasks.

LEMMA EmptyList == (\A t : ~Lists(<<>>, t)) /\ (\A a, b : Before(<<>>, a, b))
BY DEF Lists, Before

LEMMA ListTail ==
  ASSUME NEW order \in Seq(STRING), order # <<>>
  PROVE  /\ Tail(order) \in Seq(STRING)
         /\ Lists(order, Head(order))
         /\ \A t : Lists(Tail(order), t) => Lists(order, t)
         /\ \A t : Lists(order, t) => t = Head(order) \/ Lists(Tail(order), t)
         /\ \A a, b : Before(order, a, b) => Before(Tail(order), a, b)
         /\ \A a, b : Before(order, a, b) /\ Head(order) = b => ~Lists(order, a)
<1>1. /\ DOMAIN order = 1 .. Len(order) /\ Len(order) \in Nat /\ Len(order) # 0
      /\ Head(order) = order[1]
      /\ Tail(order) \in Seq(STRING) /\ Len(Tail(order)) = Len(order) - 1
      /\ DOMAIN Tail(order) = 1 .. Len(Tail(order))
      /\ \A i \in 1 .. Len(Tail(order)) : Tail(order)[i] = order[i + 1]
  BY LenProperties, EmptySeq, HeadTailProperties
<1>2. \A i \in DOMAIN Tail(order) : i + 1 \in DOMAIN order /\ Tail(order)[i] = order[i + 1]
  BY <1>1
<1>3. 1 \in DOMAIN order /\ Lists(order, Head(order))
  BY <1>1 DEF Lists
<1>4. ASSUME NEW t, Lists(Tail(order), t) PROVE Lists(order, t)
  BY <1>2, <1>4 DEF Lists
<1>5. ASSUME NEW t, Lists(order, t), t # Head(order) PROVE Lists(Tail(order), t)
  <2>1. PICK i \in DOMAIN order : order[i] = t
    BY <1>5 DEF Lists
  <2>2. i # 1
    BY <1>1, <1>5, <2>1
  <2>3. i - 1 \in DOMAIN Tail(order) /\ (i - 1) + 1 = i
    BY <1>1, <2>1, <2>2
  <2>4. Tail(order)[i - 1] = t
    BY <1>2, <2>1, <2>3
  <2>5. QED
    BY <2>3, <2>4 DEF Lists
<1>6. ASSUME NEW a, NEW b, Before(order, a, b) PROVE Before(Tail(order), a, b)
  <2> SUFFICES ASSUME NEW i \in DOMAIN Tail(order), NEW k \in DOMAIN Tail(order),
                      Tail(order)[i] = a, Tail(order)[k] = b
               PROVE  i < k
    BY DEF Before
  <2>1. i + 1 < k + 1
    BY <1>2, <1>6 DEF Before
  <2>2. QED
    BY <1>1, <2>1
<1>7. ASSUME NEW a, NEW b, Before(order, a, b), Head(order) = b, Lists(order, a) PROVE FALSE
  <2>1. PICK i \in DOMAIN order : order[i] = a
    BY <1>7 DEF Lists
  <2>2. i < 1
    BY <1>1, <1>3, <1>7, <2>1 DEF Before
  <2>3. QED
    BY <1>1, <2>1, <2>2
<1>8. QED
  BY <1>1, <1>3, <1>4, <1>5, <1>6, <1>7

\* What the list to do says while it is run.
LEMMA Todo ==
  ASSUME Inv, todo # <<>>
  PROVE  /\ Tail(todo) \in Seq(STRING)
         /\ Lists(todo, Head(todo))
         /\ \A t : Lists(Tail(todo), t) => Lists(todo, t)
         /\ \A t : Lists(todo, t) => t = Head(todo) \/ Lists(Tail(todo), t)
         /\ \A a, b : Before(todo, a, b) => Before(Tail(todo), a, b)
         /\ \A a, b : Before(todo, a, b) /\ Head(todo) = b => ~Lists(todo, a)
BY ListTail DEF Inv, TypeOK
-----------------------------------------------------------------------------
\* Type correctness.

LEMMA Bounds == MaxEdits \in Nat /\ MaxCrashes \in Nat /\ MaxFaults \in Nat
BY MachineAssumption

LEMMA InitInv == Init => Inv
<1> SUFFICES ASSUME Init PROVE Inv
  OBVIOUS
<1>1. TypeOK
  <2>1. /\ phase \in Phases /\ todo \in Seq(STRING) /\ step = "begin"
        /\ visit \subseteq Files /\ buffer = NoBuffer
        /\ edits \in 0 .. MaxEdits /\ crashes \in 0 .. MaxCrashes /\ faults \in 0 .. MaxFaults
    BY Bounds DEF Init, Phases
  <2>2. /\ data \in [Files -> Content] /\ world \in [Files -> BOOLEAN]
        /\ json \in BOOLEAN /\ kept \in [Files -> SUBSET Nat]
        /\ latest \in [Files -> Nat] /\ open \in [Files -> BOOLEAN]
    BY DEF Init, Content
  <2>3. acl \in [Files -> Modes]
    BY DEF Init, Modes
  <2>4. QED
    BY <2>1, <2>2, <2>3 DEF TypeOK
<1>2. TaskInv
  BY DEF Init, TaskInv
<1>3. QED
  BY <1>1, <1>2 DEF Inv

\* A task runs: the list, the repository and the members stay as they are.
Inside ==
  /\ phase' = phase /\ todo' = todo /\ repo' = repo /\ kept' = kept
  /\ latest' = latest /\ open' = open /\ edits' = edits /\ crashes' = crashes

\* A task starts, at the head of a list.
LEMMA BeginInv ==
  ASSUME Inv, NEW task, NEW files \in SUBSET Files, Begin(task, files), Inside,
         buffer' = buffer, data' = data, world' = world, faults' = faults,
         acl' \in [Files -> Modes], json' \in BOOLEAN
  PROVE  Inv'
<1>1. todo # <<>> /\ step = "begin" /\ step' = "each" /\ visit' = files
  BY DEF Begin, InTask, Running
<1>2. TypeOK'
  BY <1>1 DEF Inv, TypeOK, Inside
<1>3. TaskInv'
  BY <1>1 DEF Inv, TaskInv, Inside
<1>4. QED
  BY <1>2, <1>3 DEF Inv

\* A task goes on to the next file, or to the next thing it does with one.
LEMMA EachInv ==
  ASSUME Inv, NEW task, NEW at, InTask(task, at), at # "begin", Inside, json' = json,
         visit' \in SUBSET Files, faults' \in 0 .. MaxFaults,
         step' \in {"each", "move", "copy"},
         IF step' = "each" THEN buffer' = NoBuffer
                           ELSE buffer' \in [file : visit', version : Nat],
         step' = "move" => task \in {"encryptfs", "decryptfs"},
         step' = "copy" => task = "decryptfs",
         data' \in [Files -> Content], world' \in [Files -> BOOLEAN],
         acl' \in [Files -> Modes]
  PROVE  Inv'
<1>1. todo # <<>> /\ Head(todo) = task
  BY DEF InTask, Running
<1>2. TypeOK'
  BY DEF Inv, TypeOK, Inside
<1>3. TaskInv'
  BY <1>1 DEF Inv, TaskInv, Inside
<1>4. QED
  BY <1>2, <1>3 DEF Inv

LEMMA FinishInv == ASSUME Inv, Finish PROVE Inv'
<1>1. /\ phase \in {"boot", "halt"} /\ todo # <<>> /\ visit = {} /\ step = "each"
      /\ todo' = <<>> \/ todo' = Tail(todo)
      /\ step' = "begin" /\ json' \in BOOLEAN /\ visit' = {} /\ buffer' = buffer
      /\ UNCHANGED <<phase, data, world, acl, repo, kept, latest, open, edits>>
      /\ UNCHANGED <<crashes, faults>>
  BY DEF Finish, Inv, TypeOK, repoVars, memberVars, bounds
<1>2. todo' \in Seq(STRING)
  <2>1. <<>> \in Seq(STRING) /\ Tail(todo) \in Seq(STRING)
    BY <1>1, Todo, EmptySeq
  <2>2. QED
    BY <1>1, <2>1
<1>3. TypeOK'
  BY <1>1, <1>2 DEF Inv, TypeOK
<1>4. /\ \A t : Lists(todo', t) => Lists(todo, t)
      /\ \A a, b : Before(todo, a, b) => Before(todo', a, b)
  BY <1>1, Todo, EmptyList
\* createusers has not run yet while it is listed, and loadmeta comes after it.
<1>5. phase = "boot" /\ Lists(todo', "createusers") => Lists(todo', "loadmeta")
  <2> SUFFICES ASSUME phase = "boot", Lists(todo', "createusers") PROVE Lists(todo', "loadmeta")
    OBVIOUS
  <2>1. todo' = Tail(todo)
    BY <1>1, EmptyList
  <2>2. /\ Lists(todo, "createusers") /\ Lists(todo, "loadmeta")
        /\ Before(todo, "createusers", "loadmeta")
    BY <1>4 DEF Inv, TaskInv
  <2>3. Head(todo) # "loadmeta"
    BY <1>1, <2>2, Todo
  <2>4. QED
    BY <1>1, <2>1, <2>2, <2>3, Todo
<1>6. TaskInv'
  BY <1>1, <1>4, <1>5 DEF Inv, TaskInv
<1>7. QED
  BY <1>3, <1>6 DEF Inv

LEMMA StepInv == Inv /\ [Next]_vars => Inv'
<1> SUFFICES ASSUME Inv, [Next]_vars PROVE Inv'
  OBVIOUS
<1>0. TypeOK /\ TaskInv
  BY DEF Inv
<1>1. CASE BeginOther
  <2>1. PICK task \in OtherTasks : Begin(task, {})
    BY <1>1 DEF BeginOther
  <2>2. /\ Inside /\ buffer' = buffer /\ data' = data /\ world' = world /\ faults' = faults
        /\ acl' \in [Files -> Modes] /\ json' \in BOOLEAN /\ {} \in SUBSET Files
    BY <1>0, <1>1 DEF BeginOther, TypeOK, Inside, repoVars, memberVars, bounds
  <2>3. QED
    BY <2>1, <2>2, BeginInv
<1>2. CASE BeginSaveJson
  <2>1. PICK task \in {"savegroups", "saveusers"} : Begin(task, {})
    BY <1>2 DEF BeginSaveJson
  <2>2. /\ Inside /\ buffer' = buffer /\ data' = data /\ world' = world /\ faults' = faults
        /\ acl' \in [Files -> Modes] /\ json' \in BOOLEAN /\ {} \in SUBSET Files
    BY <1>0, <1>2 DEF BeginSaveJson, TypeOK, Inside, repoVars, memberVars, bounds
  <2>3. QED
    BY <2>1, <2>2, BeginInv
<1>3. CASE BeginSaveMeta
  <2>1. /\ Inside /\ buffer' = buffer /\ data' = data /\ world' = world /\ faults' = faults
        /\ acl' \in [Files -> Modes] /\ json' \in BOOLEAN
    BY <1>0, <1>3 DEF BeginSaveMeta, TypeOK, Modes, Inside, repoVars, memberVars, bounds
  <2>2. PICK files \in SUBSET Files : Begin("savemeta", files)
    BY <1>3 DEF BeginSaveMeta, Private
  <2>3. QED
    BY <2>1, <2>2, BeginInv
<1>4. CASE BeginLoadMeta
  <2>1. /\ Inside /\ buffer' = buffer /\ data' = data /\ world' = world /\ faults' = faults
        /\ acl' \in [Files -> Modes] /\ json' \in BOOLEAN
    BY <1>0, <1>4 DEF BeginLoadMeta, TypeOK, Inside, repoVars, memberVars, bounds
  <2>2. PICK files \in SUBSET Files : Begin("loadmeta", files)
    BY <1>4 DEF BeginLoadMeta, Private
  <2>3. QED
    BY <2>1, <2>2, BeginInv
<1>5. CASE BeginEncrypt
  <2>1. /\ Inside /\ buffer' = buffer /\ data' = data /\ world' = world /\ faults' = faults
        /\ acl' \in [Files -> Modes] /\ json' \in BOOLEAN
    BY <1>0, <1>5 DEF BeginEncrypt, TypeOK, Inside, repoVars, memberVars, bounds
  <2>2. PICK files \in SUBSET Files : Begin("encryptfs", files)
    BY <1>5 DEF BeginEncrypt, Private
  <2>3. QED
    BY <2>1, <2>2, BeginInv
<1>6. CASE BeginDecrypt
  <2>1. /\ Inside /\ buffer' = buffer /\ data' = data /\ world' = world /\ faults' = faults
        /\ acl' \in [Files -> Modes] /\ json' \in BOOLEAN
    BY <1>0, <1>6 DEF BeginDecrypt, TypeOK, Inside, repoVars, memberVars, bounds
  <2>2. PICK files \in SUBSET Files : Begin("decryptfs", files)
    BY <1>6 DEF BeginDecrypt, Private
  <2>3. QED
    BY <2>1, <2>2, BeginInv
<1>7. CASE RestoreFails
  <2>1. PICK task \in {"loadmeta"} : InTask(task, "each")
    BY <1>7 DEF RestoreFails
  <2>2. /\ Inside /\ json' = json /\ step = "each"
        /\ step' = "each"
    BY <1>7, <2>1 DEF RestoreFails, InTask, Inside, repoVars, memberVars, bounds
  <2>3. /\ visit' \in SUBSET Files /\ faults' \in 0 .. MaxFaults
        /\ buffer' = NoBuffer
        /\ data' \in [Files -> Content] /\ world' \in [Files -> BOOLEAN] /\ acl' \in [Files -> Modes]
    BY <1>0, <1>7, <2>2, Bounds DEF RestoreFails, Fault, TypeOK, repoVars, memberVars, bounds
  <2>4. QED
    BY <2>1, <2>2, <2>3, EachInv
<1>8. CASE Finish
  BY <1>8, FinishInv
<1>9. CASE InitExits
  <2>1. /\ phase' \in {"up", "halted"} /\ todo = <<>>
        /\ UNCHANGED <<todo, step, visit, buffer, data, world, acl, json, repo, kept>>
        /\ UNCHANGED <<latest, open, edits, crashes, faults>>
    BY <1>9 DEF InitExits, repoVars, memberVars, bounds
  <2>2. TypeOK' /\ TaskInv'
    BY <1>0, <2>1 DEF TypeOK, TaskInv, Phases
  <2>3. QED
    BY <2>2 DEF Inv
<1>10. ASSUME NEW f \in Files, SaveMode(f) PROVE Inv'
  <2>1. PICK task \in {"savemeta"} : InTask(task, "each")
    BY <1>10 DEF SaveMode
  <2>2. /\ Inside /\ json' = json /\ step = "each"
        /\ step' = "each"
    BY <1>10, <2>1 DEF SaveMode, InTask, Inside, repoVars, memberVars, bounds
  <2>3. /\ visit' \in SUBSET Files /\ faults' \in 0 .. MaxFaults
        /\ buffer' = NoBuffer
        /\ data' \in [Files -> Content] /\ world' \in [Files -> BOOLEAN] /\ acl' \in [Files -> Modes]
    BY <1>0, <1>10, <2>2, Bounds DEF SaveMode, Recorded, Modes, TypeOK, repoVars, memberVars, bounds
  <2>4. QED
    BY <2>1, <2>2, <2>3, EachInv
<1>11. ASSUME NEW f \in Files, RestoreMode(f) PROVE Inv'
  <2>1. PICK task \in {"loadmeta"} : InTask(task, "each")
    BY <1>11 DEF RestoreMode
  <2>2. /\ Inside /\ json' = json /\ step = "each"
        /\ step' = "each"
    BY <1>11, <2>1 DEF RestoreMode, InTask, Inside, repoVars, memberVars, bounds
  <2>3. /\ visit' \in SUBSET Files /\ faults' \in 0 .. MaxFaults
        /\ buffer' = NoBuffer
        /\ data' \in [Files -> Content] /\ world' \in [Files -> BOOLEAN] /\ acl' \in [Files -> Modes]
    BY <1>0, <1>11, <2>2, Bounds DEF RestoreMode, TypeOK, repoVars, memberVars, bounds
  <2>4. QED
    BY <2>1, <2>2, <2>3, EachInv
<1>12. ASSUME NEW f \in Files, Skip(f) PROVE Inv'
  <2>1. PICK task \in {"encryptfs", "decryptfs"} : InTask(task, "each")
    BY <1>12 DEF Skip
  <2>2. /\ Inside /\ json' = json /\ step = "each"
        /\ step' = "each"
    BY <1>12, <2>1 DEF Skip, InTask, Inside, repoVars, memberVars, bounds
  <2>3. /\ visit' \in SUBSET Files /\ faults' \in 0 .. MaxFaults
        /\ buffer' = NoBuffer
        /\ data' \in [Files -> Content] /\ world' \in [Files -> BOOLEAN] /\ acl' \in [Files -> Modes]
    BY <1>0, <1>12, <2>2, Bounds DEF Skip, TypeOK, repoVars, memberVars, bounds
  <2>4. QED
    BY <2>1, <2>2, <2>3, EachInv
<1>13. ASSUME NEW f \in Files, Gpg(f) PROVE Inv'
  <2>1. PICK task \in {"encryptfs", "decryptfs"} : InTask(task, "each")
    BY <1>13 DEF Gpg
  <2>2. /\ Inside /\ json' = json /\ step = "each"
        /\ step' = "move"
    BY <1>13, <2>1 DEF Gpg, InTask, Inside, repoVars, memberVars, bounds
  <2>3. /\ visit' \in SUBSET Files /\ faults' \in 0 .. MaxFaults
        /\ buffer' \in [file : visit', version : Nat]
        /\ data' \in [Files -> Content] /\ world' \in [Files -> BOOLEAN] /\ acl' \in [Files -> Modes]
    BY <1>0, <1>13, <2>2, Bounds DEF Gpg, Content, TypeOK, repoVars, memberVars, bounds
  <2>4. QED
    BY <2>1, <2>2, <2>3, EachInv
<1>14. ASSUME NEW f \in Files, GpgFails(f) PROVE Inv'
  <2>1. PICK task \in {"encryptfs", "decryptfs"} : InTask(task, "each")
    BY <1>14 DEF GpgFails
  <2>2. /\ Inside /\ json' = json /\ step = "each"
        /\ step' = "each"
    BY <1>14, <2>1 DEF GpgFails, InTask, Inside, repoVars, memberVars, bounds
  <2>3. /\ visit' \in SUBSET Files /\ faults' \in 0 .. MaxFaults
        /\ buffer' = NoBuffer
        /\ data' \in [Files -> Content] /\ world' \in [Files -> BOOLEAN] /\ acl' \in [Files -> Modes]
    <3>1. faults' = faults + 1 /\ faults < MaxFaults /\ visit' = visit \ {f}
      BY <1>14 DEF GpgFails, Fault
    <3>2. buffer' = buffer /\ data' = data /\ world' = world /\ acl' = acl
      BY <1>14 DEF GpgFails
    <3>3. QED
      BY <1>0, <2>2, <3>1, <3>2, Bounds DEF TypeOK
  <2>4. QED
    BY <2>1, <2>2, <2>3, EachInv
<1>15. ASSUME NEW f \in Files, Move(f) PROVE Inv'
  <2>1. PICK task \in {"encryptfs"} : InTask(task, "move")
    BY <1>15 DEF Move
  <2>2. /\ Inside /\ json' = json /\ step = "move"
        /\ step' = "each"
    BY <1>15, <2>1 DEF Move, InTask, Inside, repoVars, memberVars, bounds
  <2>3. /\ visit' \in SUBSET Files /\ faults' \in 0 .. MaxFaults
        /\ buffer' = NoBuffer
        /\ data' \in [Files -> Content] /\ world' \in [Files -> BOOLEAN] /\ acl' \in [Files -> Modes]
    BY <1>0, <1>15, <2>2, Bounds DEF Move, Content, TypeOK, repoVars, memberVars, bounds
  <2>4. QED
    BY <2>1, <2>2, <2>3, EachInv
<1>16. ASSUME NEW f \in Files, Truncate(f) PROVE Inv'
  <2>1. PICK task \in {"decryptfs"} : InTask(task, "move")
    BY <1>16 DEF Truncate
  <2>2. /\ Inside /\ json' = json /\ step = "move"
        /\ step' = "copy"
    BY <1>16, <2>1 DEF Truncate, InTask, Inside, repoVars, memberVars, bounds
  <2>3. /\ visit' \in SUBSET Files /\ faults' \in 0 .. MaxFaults
        /\ buffer' \in [file : visit', version : Nat]
        /\ data' \in [Files -> Content] /\ world' \in [Files -> BOOLEAN] /\ acl' \in [Files -> Modes]
    BY <1>0, <1>16, <2>2, Bounds DEF Truncate, Content, Cut, TypeOK, repoVars, memberVars, bounds
  <2>4. QED
    BY <2>1, <2>2, <2>3, EachInv
<1>17. ASSUME NEW f \in Files, Copy(f) PROVE Inv'
  <2>1. PICK task \in {"decryptfs"} : InTask(task, "copy")
    BY <1>17 DEF Copy
  <2>2. /\ Inside /\ json' = json /\ step = "copy"
        /\ step' = "each"
    BY <1>17, <2>1 DEF Copy, InTask, Inside, repoVars, memberVars, bounds
  <2>3. /\ visit' \in SUBSET Files /\ faults' \in 0 .. MaxFaults
        /\ buffer' = NoBuffer
        /\ data' \in [Files -> Content] /\ world' \in [Files -> BOOLEAN] /\ acl' \in [Files -> Modes]
    BY <1>0, <1>17, <2>2, Bounds DEF Copy, Content, TypeOK, repoVars, memberVars, bounds
  <2>4. QED
    BY <2>1, <2>2, <2>3, EachInv
<1>18. CASE Halt
  <2>1. /\ phase = "up" /\ phase' = "halt" /\ todo' = HaltOrder /\ step' = "begin"
        /\ UNCHANGED <<visit, buffer, data, world, acl, json, repo, kept>>
        /\ UNCHANGED <<latest, open, edits, crashes, faults>>
    BY <1>18 DEF Halt, repoVars, memberVars, bounds
  <2>2. todo = <<>> /\ step = "begin" /\ visit = {}
    BY <1>0, <2>1 DEF TaskInv
  <2>3. HaltOrder \in Seq(STRING)
    BY MachineAssumption
  <2>4. TypeOK'
    BY <1>0, <2>1, <2>2, <2>3 DEF TypeOK, Phases
  <2>5. TaskInv'
    BY <1>0, <2>1, <2>2, OrderAssumption DEF TaskInv
  <2>6. QED
    BY <2>4, <2>5 DEF Inv
<1>19. CASE Deploy
  <2>1. /\ phase = "halted" /\ phase' = "boot" /\ todo' = BootOrder /\ step' = "begin"
        /\ UNCHANGED <<visit, buffer, data, acl, json>>
        /\ UNCHANGED <<latest, open, edits, crashes, faults>>
    BY <1>19 DEF Deploy, memberVars, bounds
  <2>2. todo = <<>> /\ step = "begin" /\ visit = {}
    BY <1>0, <2>1 DEF TaskInv
  <2>3. BootOrder \in Seq(STRING)
    BY MachineAssumption
  <2>4. kept' \in [Files -> SUBSET Nat] /\ world' \in [Files -> BOOLEAN]
    <3>1. \A f \in Files : kept[f] \in SUBSET Nat /\ data[f].version \in Nat
      BY <1>0 DEF TypeOK, Content
    <3>2. kept' \in [Files -> SUBSET Nat]
      BY <1>19, <3>1 DEF Deploy
    <3>3. PICK clone \in BOOLEAN :
            world' = [f \in Files |-> IF clone THEN TRUE ELSE world[f]]
      BY <1>19, MachineAssumption DEF Deploy
    <3>4. \A f \in Files : world[f] \in BOOLEAN
      BY <1>0 DEF TypeOK
    <3>5. QED
      BY <3>2, <3>3, <3>4
  <2>5. TypeOK'
    BY <1>0, <2>1, <2>2, <2>3, <2>4 DEF TypeOK, Phases
  <2>6. TaskInv'
    BY <1>0, <2>1, <2>2, OrderAssumption DEF TaskInv
  <2>7. QED
    BY <2>5, <2>6 DEF Inv
<1>20. CASE Crash
  <2>1. /\ phase' = "off" /\ todo' = <<>> /\ step' = "begin" /\ visit' = {} /\ buffer' = NoBuffer
        /\ UNCHANGED <<data, world, acl, json, repo, kept, latest, open, edits, faults>>
    BY <1>20 DEF Crash, repoVars, memberVars
  <2>2. crashes' \in 0 .. MaxCrashes
    BY <1>0, <1>20, Bounds DEF Crash, TypeOK
  <2>3. <<>> \in Seq(STRING)
    BY EmptySeq
  <2>4. TypeOK'
    BY <1>0, <2>1, <2>2, <2>3 DEF TypeOK, Phases
  <2>5. TaskInv'
    BY <1>0, <2>1 DEF TaskInv
  <2>6. QED
    BY <2>4, <2>5 DEF Inv
<1>21. CASE PowerOn
  <2>1. /\ phase = "off" /\ phase' = "boot" /\ todo' = BootOrder
        /\ UNCHANGED <<step, visit, buffer, data, world, acl, json, repo, kept>>
        /\ UNCHANGED <<latest, open, edits, crashes, faults>>
    BY <1>21 DEF PowerOn, repoVars, memberVars, bounds
  <2>2. todo = <<>> /\ step = "begin" /\ visit = {}
    BY <1>0, <2>1 DEF TaskInv
  <2>3. BootOrder \in Seq(STRING)
    BY MachineAssumption
  <2>4. TypeOK'
    BY <1>0, <2>1, <2>2, <2>3 DEF TypeOK, Phases
  <2>5. TaskInv'
    BY <1>0, <2>1, <2>2, OrderAssumption DEF TaskInv
  <2>6. QED
    BY <2>4, <2>5 DEF Inv
<1>22. ASSUME NEW f \in Files, Edit(f) PROVE Inv'
  <2>1. /\ edits' \in 0 .. MaxEdits /\ latest' = [latest EXCEPT ![f] = @ + 1]
        /\ data' = [data EXCEPT ![f].version = latest[f] + 1]
        /\ UNCHANGED <<phase, todo, step, visit, buffer, world, acl, json, repo, kept>>
        /\ UNCHANGED <<open, crashes, faults>>
    BY <1>0, <1>22, Bounds DEF Edit, TypeOK, bounds
  <2>2. data' \in [Files -> Content] /\ latest' \in [Files -> Nat]
    <3>1. latest[f] + 1 \in Nat /\ latest \in [Files -> Nat] /\ data \in [Files -> Content]
      BY <1>0 DEF TypeOK
    <3>2. [data[f] EXCEPT !.version = latest[f] + 1] \in Content
      BY <3>1 DEF Content
    <3>3. QED
      BY <2>1, <3>1, <3>2
  <2>3. \A g \in Files : latest'[g] > 0
    BY <1>0, <2>1 DEF TypeOK, TaskInv
  <2>4. TypeOK'
    BY <1>0, <2>1, <2>2 DEF TypeOK
  <2>5. TaskInv'
    BY <1>0, <2>1, <2>3 DEF TaskInv
  <2>6. QED
    BY <2>4, <2>5 DEF Inv
<1>23. ASSUME NEW f \in Files, Chmod(f) PROVE Inv'
  <2>1. /\ edits' \in 0 .. MaxEdits
        /\ world' \in [Files -> BOOLEAN] /\ open' \in [Files -> BOOLEAN]
        /\ UNCHANGED <<phase, todo, step, visit, buffer, data, acl, json, repo, kept>>
        /\ UNCHANGED <<latest, crashes, faults>>
    BY <1>0, <1>23, Bounds DEF Chmod, TypeOK, bounds
  <2>2. TypeOK' /\ TaskInv'
    BY <1>0, <2>1 DEF TypeOK, TaskInv
  <2>3. QED
    BY <2>2 DEF Inv
<1>24. CASE BeginCreateUsers
  <2>1. /\ Inside /\ buffer' = buffer /\ data' = data /\ world' = world /\ faults' = faults
        /\ acl' \in [Files -> Modes] /\ json' \in BOOLEAN
    BY <1>0, <1>24 DEF BeginCreateUsers, TypeOK, Inside, repoVars, memberVars, bounds
  <2>2. Begin("createusers", Homes) /\ Homes \in SUBSET Files
    BY <1>24, MachineAssumption DEF BeginCreateUsers
  <2>3. QED
    BY <2>1, <2>2, BeginInv
<1>25. ASSUME NEW f \in Files, OpenMode(f) PROVE Inv'
  <2>1. PICK task \in {"createusers"} : InTask(task, "each")
    BY <1>25 DEF OpenMode
  <2>2. /\ Inside /\ json' = json /\ step = "each"
        /\ step' = "each"
    BY <1>25, <2>1 DEF OpenMode, InTask, Inside, repoVars, memberVars, bounds
  <2>3. /\ visit' \in SUBSET Files /\ faults' \in 0 .. MaxFaults
        /\ buffer' = NoBuffer
        /\ data' \in [Files -> Content] /\ world' \in [Files -> BOOLEAN] /\ acl' \in [Files -> Modes]
    BY <1>0, <1>25, <2>2, Bounds DEF OpenMode, TypeOK, repoVars, memberVars, bounds
  <2>4. QED
    BY <2>1, <2>2, <2>3, EachInv
<1>26. CASE UNCHANGED vars
  BY <1>26 DEF Inv, TypeOK, TaskInv, vars, repoVars, memberVars, bounds
<1>27. QED
  BY <1>1, <1>2, <1>3, <1>4, <1>5, <1>6, <1>7, <1>8, <1>9, <1>10, <1>11, <1>12, <1>13,
     <1>14, <1>15, <1>16, <1>17, <1>18, <1>19, <1>20, <1>21, <1>22, <1>23, <1>24, <1>25, <1>26
     DEF Next, RunTask

\* The variables keep their types, and a copy that is under way is one of a file
\* that its task has still to visit.
THEOREM TypeCorrect == Spec => []TypeOK
<1>1. Inv => TypeOK
  BY DEF Inv
<1>2. QED
  BY InitInv, StepInv, <1>1, PTL DEF Spec
-----------------------------------------------------------------------------
\* What decryptfs does to files.

\* Members work on a machine that is up, and nothing runs there then.
LEMMA Rest ==
  ASSUME Inv, Active = FALSE, MayWork
  PROVE  phase = "up" /\ todo = <<>> /\ step = "begin" /\ visit = {} /\ buffer = NoBuffer
BY DEF MayWork, Inv, TaskInv, TypeOK

\* A task of one name is not one of another.
LEMMA OneTask ==
  ASSUME NEW task, NEW at, InTask(task, at)
  PROVE  /\ Running(task) /\ step = at
         /\ \A other : Running(other) => other = task
BY DEF InTask, Running

LEMMA StepDecrypt ==
  ASSUME Active = FALSE, Inv, DecryptInv, [Next]_vars
  PROVE  DecryptInv'
<1> SUFFICES ASSUME NEW g \in visit', Within("decryptfs")'
             PROVE  ~world'[g]
  BY DEF DecryptInv
<1>0. /\ todo' # <<>> /\ Head(todo') = "decryptfs" /\ step' # "begin"
      /\ phase' \in {"boot", "halt"}
  BY DEF Within, Running
<1>1. CASE BeginDecrypt
  BY <1>1 DEF BeginDecrypt, Begin, Private
<1>2. CASE \/ BeginOther \/ BeginSaveJson \/ BeginCreateUsers \/ BeginSaveMeta
           \/ BeginLoadMeta \/ BeginEncrypt
  BY <1>0, <1>2 DEF BeginOther, BeginSaveJson, BeginCreateUsers, BeginSaveMeta, BeginLoadMeta, BeginEncrypt,
                    Begin, InTask, Running, OtherTasks
<1>3. CASE RestoreFails \/ Finish \/ InitExits
  BY <1>0, <1>3 DEF RestoreFails, Finish, InitExits
<1>4. ASSUME NEW f \in Files, OpenMode(f) \/ SaveMode(f) \/ RestoreMode(f) \/ Move(f) PROVE FALSE
  BY <1>0, <1>4 DEF OpenMode, SaveMode, RestoreMode, Move, InTask, Running
<1>5. ASSUME NEW f \in Files, Skip(f) \/ Gpg(f) \/ GpgFails(f) \/ Truncate(f) \/ Copy(f)
      PROVE  ~world'[g]
  <2>1. /\ phase' = phase /\ todo' = todo /\ world' = world /\ step # "begin" /\ visit' \subseteq visit
    BY <1>5 DEF Skip, Gpg, GpgFails, Truncate, Copy, InTask
  <2>2. Within("decryptfs") /\ g \in visit
    BY <1>0, <2>1 DEF Within, Running
  <2>3. QED
    BY <2>1, <2>2 DEF DecryptInv
<1>6. CASE Halt \/ Deploy \/ Crash
  BY <1>0, <1>6 DEF Halt, Deploy, Crash
<1>7. CASE PowerOn
  BY <1>0, <1>7 DEF PowerOn, Inv, TaskInv
<1>8. ASSUME NEW f \in Files, Edit(f) \/ Chmod(f) PROVE FALSE
  <2>1. MayWork /\ step' = step
    BY <1>8 DEF Edit, Chmod
  <2>2. QED
    BY <1>0, <2>1, Rest
<1>9. CASE UNCHANGED vars
  BY <1>0, <1>9 DEF vars, DecryptInv, Within, Running
<1>10. QED
  BY <1>1, <1>2, <1>3, <1>4, <1>5, <1>6, <1>7, <1>8, <1>9 DEF Next, RunTask

\* When members rest while init runs, the copy decryptfs puts in the place of a
\* cipher text is one that only its owner can read.
THEOREM DecryptedOnlyIfPrivateHolds ==
  ASSUME Active = FALSE
  PROVE  Spec => DecryptedOnlyIfPrivate
<1>1. Init => DecryptInv
  BY DEF Init, DecryptInv
<1>2. Inv /\ DecryptInv /\ [Next]_vars => DecryptInv'
  BY StepDecrypt
<1> DEFINE Plain(f) == ~data'[f].cipher /\ data'[f].version > 0
           Was(f) == data[f].cipher \/ data[f] = Cut
<1>3. Inv /\ DecryptInv /\ [Next]_vars => [\A f \in Files : Plain(f) /\ Was(f) => ~world[f]]_vars
  <2> SUFFICES ASSUME Inv, DecryptInv, Next, NEW g \in Files, Plain(g), Was(g)
               PROVE  ~world[g]
    OBVIOUS
  <2>0. data \in [Files -> Content] /\ visit \subseteq Files
    BY DEF Inv, TypeOK
  <2>1. data' # data
    BY <2>0 DEF Cut, Content
  <2>2. PICK f \in Files : Edit(f) \/ Move(f) \/ Truncate(f) \/ Copy(f)
    BY <2>1 DEF Next, RunTask, Halt, Deploy, Crash, PowerOn, Chmod, BeginOther, BeginSaveJson,
                BeginCreateUsers, BeginSaveMeta, BeginLoadMeta, BeginEncrypt, BeginDecrypt,
                RestoreFails, Finish, InitExits, OpenMode, SaveMode, RestoreMode, Skip, Gpg, GpgFails
  <2>3. CASE Edit(f)
    <3>1. data[f] = [version |-> latest[f], cipher |-> FALSE] /\ latest[f] > 0 /\ latest[f] \in Nat
      BY <2>3 DEF Edit, Inv, TaskInv, TypeOK
    <3>2. g = f
      BY <2>0, <2>3 DEF Edit, Cut, Content
    <3>3. QED
      BY <3>1, <3>2 DEF Cut
  <2>4. CASE Move(f)
    BY <2>0, <2>4 DEF Move, Cut, Content
  <2>5. CASE Truncate(f)
    BY <2>0, <2>5 DEF Truncate, Cut, Content
  <2>6. CASE Copy(f)
    <3>1. g = f /\ Within("decryptfs") /\ step = "copy" /\ buffer.file = f
      BY <2>0, <2>6 DEF Copy, Cut, Content, InTask, Within
    <3>2. f \in visit
      BY <3>1 DEF Inv, TypeOK
    <3>3. QED
      BY <3>1, <3>2 DEF DecryptInv
  <2>7. QED
    BY <2>2, <2>3, <2>4, <2>5, <2>6
<1>4. QED
  BY InitInv, StepInv, <1>1, <1>2, <1>3, PTL DEF Spec, DecryptedOnlyIfPrivate
-----------------------------------------------------------------------------
\* What is never lost.

LEMMA StepKeep ==
  ASSUME Active = FALSE, MaxCrashes <= 1, Inv, KeepInv, [Next]_vars
  PROVE  KeepInv'
<1>0. /\ data \in [Files -> Content] /\ latest \in [Files -> Nat] /\ kept \in [Files -> SUBSET Nat]
      /\ visit \subseteq Files /\ crashes \in 0 .. MaxCrashes /\ step \in {"begin", "each", "move", "copy"}
      /\ (step \in {"move", "copy"} => buffer \in [file : visit, version : Nat])
  BY DEF Inv, TypeOK
\* Nothing is copied, and the content of the files is left alone.
<1>1. ASSUME step \in {"begin", "each"}, step' \in {"begin", "each"},
             data' = data, latest' = latest, kept' = kept, crashes' = crashes,
             phase' = "off" => phase = "off", phase' = "boot" => phase \in {"boot", "off"}
      PROVE  KeepInv'
  BY <1>0, <1>1 DEF KeepInv
<1>2. CASE \/ BeginOther \/ BeginSaveJson \/ BeginCreateUsers \/ BeginSaveMeta
           \/ BeginLoadMeta \/ BeginEncrypt \/ BeginDecrypt
  <2>1. /\ step = "begin" /\ step' = "each" /\ phase' = phase
        /\ data' = data /\ latest' = latest /\ kept' = kept /\ crashes' = crashes
    BY <1>2 DEF BeginOther, BeginSaveJson, BeginCreateUsers, BeginSaveMeta, BeginLoadMeta,
                BeginEncrypt, BeginDecrypt, Begin, InTask, repoVars, memberVars, bounds
  <2>2. QED
    BY <1>1, <2>1
<1>3. CASE RestoreFails \/ Finish
  <2>1. /\ step = "each" /\ step' \in {"begin", "each"} /\ phase' = phase
        /\ data' = data /\ latest' = latest /\ kept' = kept /\ crashes' = crashes
    BY <1>3 DEF RestoreFails, Finish, InTask, repoVars, memberVars, bounds
  <2>2. QED
    BY <1>1, <2>1
<1>4. ASSUME NEW f \in Files,
             OpenMode(f) \/ SaveMode(f) \/ RestoreMode(f) \/ Skip(f) \/ GpgFails(f)
      PROVE  KeepInv'
  <2>1. /\ step = "each" /\ step' = "each" /\ phase' = phase
        /\ data' = data /\ latest' = latest /\ kept' = kept /\ crashes' = crashes
    BY <1>4 DEF OpenMode, SaveMode, RestoreMode, Skip, GpgFails, InTask, repoVars, memberVars,
                bounds
  <2>2. QED
    BY <1>1, <2>1
<1>5. CASE InitExits \/ Halt \/ PowerOn
  <2>1. /\ phase' \in {"up", "halted", "halt"} \/ (phase = "off" /\ phase' = "boot")
        /\ data' = data /\ latest' = latest /\ kept' = kept /\ crashes' = crashes
    BY <1>5 DEF InitExits, Halt, PowerOn, repoVars, memberVars, bounds
  <2>2. step = "begin" /\ step' = "begin"
    BY <1>5 DEF InitExits, Halt, PowerOn, Inv, TaskInv
  <2>3. QED
    BY <1>1, <2>1, <2>2
<1>6. ASSUME NEW f \in Files, Chmod(f) PROVE KeepInv'
  <2>1. MayWork /\ step' = step /\ phase' = phase
        /\ data' = data /\ latest' = latest /\ kept' = kept /\ crashes' = crashes
    BY <1>6 DEF Chmod, bounds
  <2>2. QED
    BY <1>1, <2>1, Rest
<1>7. ASSUME NEW f \in Files, Edit(f) PROVE KeepInv'
  <2>1. /\ phase = "up" /\ phase' = "up" /\ step = "begin" /\ step' = "begin"
    BY <1>7, Rest DEF Edit
  <2>2. /\ data' = [data EXCEPT ![f] = [@ EXCEPT !.version = latest[f] + 1]]
        /\ latest' = [latest EXCEPT ![f] = @ + 1] /\ kept' = kept /\ crashes' = crashes
    BY <1>7 DEF Edit, bounds
  <2>3. \A g \in Files : latest'[g] \in kept'[g] \union {data'[g].version}
    BY <1>0, <2>1, <2>2 DEF KeepInv, Content
  <2>4. QED
    BY <2>1, <2>3 DEF KeepInv
<1>8. ASSUME NEW f \in Files, Gpg(f) PROVE KeepInv'
  <2>1. /\ step = "each" /\ step' = "move" /\ buffer' = [file |-> f, version |-> data[f].version]
        /\ phase' = phase /\ data' = data /\ latest' = latest /\ kept' = kept /\ crashes' = crashes
    BY <1>8 DEF Gpg, InTask, repoVars, memberVars, bounds
  <2>2. QED
    BY <1>0, <2>1 DEF KeepInv
<1>9. ASSUME NEW f \in Files, Move(f) PROVE KeepInv'
  <2>1. /\ step = "move" /\ step' = "each" /\ buffer.file = f
        /\ data' = [data EXCEPT ![f] = [version |-> buffer.version, cipher |-> TRUE]]
        /\ phase' = phase /\ latest' = latest /\ kept' = kept /\ crashes' = crashes
    BY <1>9 DEF Move, InTask, repoVars, memberVars, bounds
  <2>2. \A g \in Files : data'[g].version = data[g].version
    BY <1>0, <2>1 DEF KeepInv
  <2>3. QED
    BY <1>0, <2>1, <2>2 DEF KeepInv
<1>10. ASSUME NEW f \in Files, Truncate(f) PROVE KeepInv'
  <2>1. /\ step = "move" /\ step' = "copy" /\ buffer.file = f /\ buffer' = buffer
        /\ data' = [data EXCEPT ![f] = Cut]
        /\ phase' = phase /\ latest' = latest /\ kept' = kept /\ crashes' = crashes
    BY <1>10 DEF Truncate, InTask, repoVars, memberVars, bounds
  <2>2. buffer = [file |-> f, version |-> data[f].version]
    BY <1>0, <2>1 DEF KeepInv
  <2>3. data'[f].version = 0 /\ \A g \in Files : g # f => data'[g] = data[g]
    BY <1>0, <2>1 DEF Cut
  <2>4. ASSUME NEW g \in Files
        PROVE  latest[g] \in kept[g] \union {data'[g].version} \/ buffer = [file |-> g, version |-> latest[g]]
    BY <1>0, <2>1, <2>2, <2>3 DEF KeepInv
  <2>5. QED
    BY <2>1, <2>3, <2>4 DEF KeepInv
<1>11. ASSUME NEW f \in Files, Copy(f) PROVE KeepInv'
  <2>1. /\ step = "copy" /\ step' = "each" /\ buffer.file = f
        /\ data' = [data EXCEPT ![f] = [version |-> buffer.version, cipher |-> FALSE]]
        /\ phase' = phase /\ latest' = latest /\ kept' = kept /\ crashes' = crashes
    BY <1>11 DEF Copy, InTask, repoVars, memberVars, bounds
  <2>2. latest[f] \in kept[f] \/ buffer.version = latest[f]
    <3>1. latest[f] > 0 /\ data[f].version = 0
      BY <2>1 DEF KeepInv, Inv, TaskInv
    <3>2. QED
      BY <1>0, <2>1, <3>1 DEF KeepInv
  <2>3. data'[f].version = buffer.version /\ \A g \in Files : g # f => data'[g] = data[g]
    BY <1>0, <2>1
  <2>4. ASSUME NEW g \in Files PROVE latest[g] \in kept[g] \union {data'[g].version}
    <3>1. buffer = [file |-> g, version |-> latest[g]] => g = f
      BY <2>1
    <3>2. QED
      BY <2>1, <2>2, <2>3, <3>1 DEF KeepInv
  <2>5. QED
    BY <2>1, <2>4 DEF KeepInv
\* The agent commits every version before it boots what it deployed.
<1>12. CASE Deploy
  <2>1. /\ phase = "halted" /\ phase' = "boot" /\ step' = "begin"
        /\ data' = data /\ latest' = latest /\ crashes' = crashes
        /\ kept' = [f \in Files |-> kept[f] \union {data[f].version}]
    BY <1>12 DEF Deploy, memberVars, bounds
  <2>2. step = "begin"
    BY <2>1 DEF Inv, TaskInv
  <2>3. \A f \in Files : latest'[f] \in kept'[f]
    BY <1>0, <2>1, <2>2 DEF KeepInv
  <2>4. QED
    BY <2>1, <2>3 DEF KeepInv
\* Files are cut by decryptfs only, and the first crash finds all of them in git.
<1>13. CASE Crash
  <2>1. /\ crashes < MaxCrashes /\ crashes' = crashes + 1 /\ phase' = "off" /\ step' = "begin"
        /\ data' = data /\ latest' = latest /\ kept' = kept
    BY <1>13 DEF Crash, repoVars, memberVars
  <2>2. crashes = 0 /\ crashes' = 1
    BY <1>0, <2>1, Bounds
  <2>3. step = "copy" => phase = "boot"
    <3>1. ASSUME step = "copy" PROVE todo # <<>> /\ Head(todo) = "decryptfs"
      BY <3>1 DEF Inv, TaskInv
    <3>2. ASSUME step = "copy" PROVE Lists(todo, "decryptfs")
      BY <3>1, <3>2, Todo
    <3>3. QED
      BY <3>1, <3>2 DEF Inv, TaskInv
  <2>4. \A f \in Files : latest[f] \in kept[f] \union {data[f].version}
    BY <2>2, <2>3 DEF KeepInv
  <2>5. QED
    BY <2>1, <2>2, <2>4 DEF KeepInv
<1>14. CASE UNCHANGED vars
  BY <1>14 DEF KeepInv, vars, repoVars, memberVars, bounds
<1>15. QED
  BY <1>2, <1>3, <1>4, <1>5, <1>6, <1>7, <1>8, <1>9, <1>10, <1>11, <1>12, <1>13, <1>14
     DEF Next, RunTask

\* When members rest while init runs, the last version of every file survives one
\* crash at any step, gpg and setfacl failing as they like.
THEOREM ContentNotLostHolds ==
  ASSUME Active = FALSE, MaxCrashes <= 1
  PROVE  Spec => []ContentNotLost
<1>1. Init => KeepInv
  BY DEF Init, KeepInv
<1>2. Inv /\ KeepInv /\ [Next]_vars => KeepInv'
  BY StepKeep
<1>3. KeepInv => ContentNotLost
  BY DEF KeepInv, ContentNotLost
<1>4. QED
  BY InitInv, StepInv, <1>1, <1>2, <1>3, PTL DEF Spec
-----------------------------------------------------------------------------
\* What is pushed.

\* A task of one context does not run in the other, and the list remembers it.
LEMMA WhichPhase ==
  ASSUME Inv, NEW task, Running(task)
  PROVE  /\ task \in {"createusers", "loadmeta", "decryptfs", "fsck"} => phase = "boot"
         /\ task \in {"savemeta", "encryptfs"} => phase = "halt"
         /\ Lists(todo, task)
         /\ \A first : Before(todo, first, task) => ~Lists(todo, first)
<1>1. todo # <<>> /\ Head(todo) = task /\ phase \in {"boot", "halt"}
  BY DEF Running
<1>2. Lists(todo, task) /\ \A first : Before(todo, first, task) => ~Lists(todo, first)
  BY <1>1, Todo
<1>3. QED
  BY <1>1, <1>2 DEF Inv, TaskInv

\* A halt skips no task: what the list forgets is what just ran.
LEMMA FinishHalt ==
  ASSUME Inv, Finish, phase = "halt"
  PROVE  /\ todo # <<>> /\ todo' = Tail(todo) /\ step = "each" /\ visit = {}
         /\ \A task : Lists(todo, task) => Lists(todo', task) \/ Within(task)
         /\ \A task : Lists(todo', task) => Lists(todo, task)
<1>1. /\ todo # <<>> /\ step = "each" /\ visit = {}
      /\ todo' = IF Head(todo) = "fsck" /\ ~json THEN <<>> ELSE Tail(todo)
  BY DEF Finish
<1>2. Lists(todo, Head(todo)) /\ ~Lists(todo, "fsck")
  BY <1>1, Todo DEF Inv, TaskInv
<1>3. todo' = Tail(todo)
  BY <1>1, <1>2
<1>4. QED
  BY <1>1, <1>3, Todo DEF Within, Running

\* Files, modes and lists stay, and no other task is past its beginning.
LEMMA PushSame ==
  ASSUME PushInv, phase' = phase, todo' = todo, data' = data, world' = world, acl' = acl,
         repo' = repo, Within("savemeta")' => Within("savemeta"),
         \A f \in Files : Left("encryptfs", f)' => Left("encryptfs", f)
  PROVE  PushInv'
BY DEF PushInv

LEMMA PushElsewhere ==
  ASSUME PushInv, repo' = repo, phase' \notin {"halt", "halted"}
  PROVE  PushInv'
BY DEF PushInv

LEMMA StepPush ==
  ASSUME Active = FALSE, "gpg -e" \notin Faulty, Inv, PushInv, [Next]_vars
  PROVE  PushInv'
<1>0. /\ data \in [Files -> Content] /\ acl \in [Files -> Modes] /\ world \in [Files -> BOOLEAN]
      /\ visit \subseteq Files
  BY DEF Inv, TypeOK
<1>1. CASE BeginOther \/ BeginSaveJson \/ BeginCreateUsers \/ BeginLoadMeta \/ BeginDecrypt
  <2>1. PICK task : Running(task) /\ task \notin {"savemeta", "encryptfs"}
    <3>1. PICK task \in OtherTasks \union {"savegroups", "saveusers", "createusers", "loadmeta", "decryptfs"} :
            Running(task)
      BY <1>1 DEF BeginOther, BeginSaveJson, BeginCreateUsers, BeginLoadMeta, BeginDecrypt, Begin, InTask
    <3>2. QED
      BY <3>1 DEF OtherTasks
  <2>2. /\ phase' = phase /\ todo' = todo /\ data' = data /\ world' = world /\ acl' = acl /\ repo' = repo
    BY <1>1 DEF BeginOther, BeginSaveJson, BeginCreateUsers, BeginLoadMeta, BeginDecrypt, repoVars
  <2>3. ~Within("savemeta")' /\ ~Within("encryptfs")'
    BY <2>1, <2>2 DEF Within, Running
  <2>4. QED
    BY <2>2, <2>3, PushSame DEF Left
<1>2. CASE BeginSaveMeta
  <2>1. /\ Running("savemeta") /\ acl' = [f \in Files |-> "none"] /\ phase' = phase /\ todo' = todo
        /\ data' = data /\ world' = world /\ repo' = repo
    BY <1>2 DEF BeginSaveMeta, Begin, InTask, repoVars
  <2>2. ~Within("encryptfs")' /\ phase = "halt"
    BY <2>1, WhichPhase DEF Within, Running
  <2>3. QED
    BY <2>1, <2>2 DEF PushInv, Left
<1>3. CASE BeginEncrypt
  <2>1. /\ Running("encryptfs") /\ visit' = Private /\ phase' = phase /\ todo' = todo
        /\ data' = data /\ world' = world /\ acl' = acl /\ repo' = repo
    BY <1>3 DEF BeginEncrypt, Begin, InTask, repoVars
  <2>2. ~Within("savemeta")' /\ phase = "halt" /\ Lists(todo, "encryptfs")
    BY <2>1, WhichPhase DEF Within, Running
  <2>3. \A f \in Files : Left("encryptfs", f)' => world'[f]
    BY <2>1 DEF Left, Private
  <2>4. QED
    BY <2>1, <2>2, <2>3 DEF PushInv
<1>4. ASSUME NEW f \in Files, SaveMode(f) PROVE PushInv'
  <2>1. /\ Running("savemeta") /\ step = "each" /\ step' = step /\ phase' = phase /\ todo' = todo
        /\ acl' = [acl EXCEPT ![f] = Recorded(world[f])]
        /\ data' = data /\ world' = world /\ repo' = repo
    BY <1>4 DEF SaveMode, InTask, repoVars
  <2>2. ~Within("encryptfs")' /\ phase = "halt" /\ Within("savemeta")
    BY <2>1, WhichPhase DEF Within, Running
  <2>3. \A g \in Files \ PassedOver : acl'[g] = "closed" => ~world[g]
    BY <1>0, <2>1, <2>2 DEF PushInv, Recorded
  <2>4. QED
    BY <2>1, <2>2, <2>3 DEF PushInv, Left
<1>5. CASE RestoreFails
  <2>1. Running("loadmeta") /\ phase' = phase /\ repo' = repo
    BY <1>5 DEF RestoreFails, InTask, repoVars
  <2>2. QED
    BY <2>1, WhichPhase, PushElsewhere
<1>6. ASSUME NEW f \in Files, OpenMode(f) \/ RestoreMode(f) \/ Truncate(f) \/ Copy(f) PROVE PushInv'
  <2>1. /\ Running("createusers") \/ Running("loadmeta") \/ Running("decryptfs")
        /\ phase' = phase /\ repo' = repo
    BY <1>6 DEF OpenMode, RestoreMode, Truncate, Copy, InTask, repoVars
  <2>2. QED
    BY <2>1, WhichPhase, PushElsewhere
\* What encryptfs does with a file: afterwards it is encrypted, or not left yet.
<1>7. ASSUME NEW f \in Files, Skip(f) \/ Gpg(f) \/ GpgFails(f) \/ Move(f) PROVE PushInv'
  <2>1. PICK task \in {"encryptfs", "decryptfs"} : Running(task)
    BY <1>7 DEF Skip, Gpg, GpgFails, Move, InTask
  <2>2. phase' = phase /\ todo' = todo /\ acl' = acl /\ repo' = repo
    BY <1>7 DEF Skip, Gpg, GpgFails, Move, repoVars
  <2>3. CASE task = "decryptfs"
    BY <2>1, <2>2, <2>3, WhichPhase, PushElsewhere
  <2>4. CASE task = "encryptfs"
    <3>1. /\ phase = "halt" /\ ~Within("savemeta") /\ ~Within("savemeta")' /\ step # "begin"
          /\ Lists(todo, "encryptfs") /\ ~Running("decryptfs")
      BY <1>7, <2>1, <2>2, <2>4, WhichPhase DEF Within, Running, Skip, Gpg, GpgFails, Move, InTask
    <3>2. /\ \A g \in Files : g # f => data'[g] = data[g] /\ world'[g] = world[g]
          /\ visit' \subseteq visit /\ visit \subseteq visit' \union {f}
          /\ \/ f \in visit' /\ data' = data /\ world' = world
             \/ f \in PassedOver /\ (world'[f] => world[f])
             \/ data'[f].cipher /\ (world'[f] => world[f])
      <4>1. CASE Skip(f)
        BY <3>1, <4>1 DEF Skip, InTask
      <4>2. CASE Gpg(f)
        BY <4>2 DEF Gpg
      <4>3. CASE GpgFails(f)
        BY <3>1, <4>3 DEF GpgFails, Fault, InTask
      <4>4. CASE Move(f)
        BY <1>0, <4>4 DEF Move
      <4>5. QED
        BY <1>7, <4>1, <4>2, <4>3, <4>4
    <3>3. ASSUME NEW g \in Files \ PassedOver, Left("encryptfs", g)', ~world'[g]
          PROVE  data'[g].cipher
      <4>1. CASE g = f
        BY <3>2, <3>3, <4>1 DEF Left
      <4>2. CASE g # f
        <5>1. Left("encryptfs", g) /\ ~world[g]
          BY <2>1, <2>4, <3>1, <3>2, <3>3, <4>2 DEF Left, Within
        <5>2. QED
          BY <3>1, <3>2, <4>2, <5>1 DEF PushInv
      <4>3. QED
        BY <4>1, <4>2
    <3>4. \A g \in Files : world'[g] => world[g]
      BY <3>2
    <3>5. QED
      BY <2>2, <3>1, <3>3, <3>4 DEF PushInv
  <2>5. QED
    BY <2>3, <2>4
<1>8. CASE Finish
  <2>1. /\ phase' = phase /\ step' = "begin" /\ data' = data /\ world' = world /\ acl' = acl /\ repo' = repo
        /\ phase \in {"boot", "halt"}
    BY <1>8 DEF Finish, repoVars
  <2>2. CASE phase = "boot"
    BY <2>1, <2>2, PushElsewhere
  <2>3. CASE phase = "halt"
    <3>1. /\ \A task : ~Within(task)'
          /\ \A task : ~Lists(todo', task) => ~Lists(todo, task) \/ Within(task)
          /\ visit = {}
      BY <1>8, <2>1, <2>3, FinishHalt DEF Within
    <3>2. QED
      BY <2>1, <2>3, <3>1 DEF PushInv, Left
  <2>4. QED
    BY <2>1, <2>2, <2>3
<1>9. CASE InitExits
  <2>1. /\ phase' \in {"up", "halted"} /\ (phase' = "halted" => phase = "halt") /\ todo = <<>>
        /\ data' = data /\ world' = world /\ acl' = acl /\ repo' = repo
    BY <1>9 DEF InitExits, repoVars
  <2>2. ~Lists(todo, "savemeta") /\ ~Lists(todo, "encryptfs")
    BY <2>1, EmptyList
  <2>3. QED
    BY <2>1, <2>2 DEF PushInv
<1>10. CASE Halt
  <2>1. /\ phase' = "halt" /\ todo' = HaltOrder /\ step' = "begin" /\ repo' = repo
    BY <1>10 DEF Halt, repoVars
  <2>2. /\ Lists(todo', "savemeta") /\ Lists(todo', "encryptfs") /\ \A task : ~Within(task)'
    BY <2>1, OrderAssumption DEF Within
  <2>3. QED
    BY <2>1, <2>2 DEF PushInv, Left
<1>11. CASE Deploy
  <2>1. /\ phase = "halted" /\ phase' = "boot" /\ repo' = [data |-> data, acl |-> acl, json |-> json]
    BY <1>11 DEF Deploy
  <2>2. QED
    BY <2>1 DEF PushInv
<1>12. CASE Crash \/ PowerOn
  <2>1. phase' \in {"off", "boot"} /\ repo' = repo
    BY <1>12 DEF Crash, PowerOn, repoVars
  <2>2. QED
    BY <2>1, PushElsewhere
<1>13. ASSUME NEW f \in Files, Edit(f) \/ Chmod(f) PROVE PushInv'
  <2>1. phase' = "up" /\ repo' = repo
    BY <1>13, Rest DEF Edit, Chmod
  <2>2. QED
    BY <2>1, PushElsewhere
<1>14. CASE UNCHANGED vars
  BY <1>14, PushSame DEF vars, repoVars, Within, Left, Running
<1>15. QED
  BY <1>1, <1>2, <1>3, <1>4, <1>5, <1>6, <1>7, <1>8, <1>9, <1>10, <1>11, <1>12, <1>13, <1>14
     DEF Next, RunTask

\* When members rest while init runs and gpg does not fail to encrypt, no plain
\* text of a file that is recorded as closed is ever committed, whatever crashed
\* before: for the files encryptfs does not pass over.
THEOREM PushedPrivateIsEncryptedHolds ==
  ASSUME Active = FALSE, "gpg -e" \notin Faulty
  PROVE  Spec => []PushedPrivateIsEncrypted
<1>1. Init => PushInv
  <2> SUFFICES ASSUME Init, NEW f \in Files
               PROVE  repo.acl[f] # "closed" /\ phase = "up"
    BY DEF PushInv
  <2>1. repo.acl = acl /\ acl[f] \in {"none", "open"}
    BY DEF Init
  <2>2. QED
    BY <2>1 DEF Init
<1>2. Inv /\ PushInv /\ [Next]_vars => PushInv'
  BY StepPush
<1>3. PushInv => PushedPrivateIsEncrypted
  BY DEF PushInv, PushedPrivateIsEncrypted
<1>4. QED
  BY InitInv, StepInv, <1>1, <1>2, <1>3, PTL DEF Spec
-----------------------------------------------------------------------------
\* While nothing goes wrong.

LEMMA SmoothStep ==
  ASSUME Inv, [Next]_vars, Smooth'
  PROVE  Smooth /\ ~Crash /\ ~RestoreFails /\ \A f \in Files : ~GpgFails(f)
<1>0. crashes \in Nat /\ faults \in Nat
  BY Bounds DEF Inv, TypeOK
<1>1. \A program : ~Fault(program)
  BY <1>0 DEF Smooth, Fault
<1>2. ~Crash /\ ~RestoreFails /\ \A f \in Files : ~GpgFails(f)
  <2>1. ~Crash
    BY <1>0 DEF Smooth, Crash
  <2>2. ~RestoreFails
    BY <1>1 DEF RestoreFails
  <2>3. ASSUME NEW f \in Files, GpgFails(f) PROVE FALSE
    <3>1. Fault("gpg -e") \/ Fault("gpg -d")
      BY <2>3 DEF GpgFails
    <3>2. QED
      BY <1>1, <3>1
  <2>4. QED
    BY <2>1, <2>2, <2>3
<1>3. crashes' = crashes /\ faults' = faults
  <2>1. CASE \/ BeginOther \/ BeginSaveJson \/ BeginCreateUsers \/ BeginSaveMeta
             \/ BeginLoadMeta \/ BeginEncrypt \/ BeginDecrypt
    BY <2>1 DEF BeginOther, BeginSaveJson, BeginCreateUsers, BeginSaveMeta, BeginLoadMeta,
                BeginEncrypt, BeginDecrypt, bounds
  <2>2. CASE Finish \/ InitExits \/ Halt \/ Deploy \/ PowerOn
    BY <2>2 DEF Finish, InitExits, Halt, Deploy, PowerOn, bounds
  <2>3. ASSUME NEW f \in Files, OpenMode(f) \/ SaveMode(f) \/ RestoreMode(f) \/ Skip(f) \/ Gpg(f)
               \/ Move(f) \/ Truncate(f) \/ Copy(f) \/ Edit(f) \/ Chmod(f)
        PROVE  crashes' = crashes /\ faults' = faults
    BY <2>3 DEF OpenMode, SaveMode, RestoreMode, Skip, Gpg, Move, Truncate, Copy, Edit, Chmod, bounds
  <2>4. CASE UNCHANGED vars
    BY <2>4 DEF vars, bounds
  <2>5. QED
    BY <1>2, <2>1, <2>2, <2>3, <2>4 DEF Next, RunTask
<1>4. QED
  BY <1>2, <1>3 DEF Smooth

LEMMA StepJson == Inv /\ JsonInv /\ [Next]_vars => JsonInv'
<1> SUFFICES ASSUME Inv, JsonInv, [Next]_vars, Smooth'
             PROVE  json' \/ (step' = "each" /\ Head(todo') \in {"savegroups", "saveusers"})
  BY DEF JsonInv
<1>0. Smooth /\ ~Crash /\ ~RestoreFails /\ \A f \in Files : ~GpgFails(f)
  BY SmoothStep
<1>1. CASE \/ BeginOther \/ BeginCreateUsers \/ BeginSaveMeta \/ BeginLoadMeta
           \/ BeginEncrypt \/ BeginDecrypt
  <2>1. step = "begin" /\ json' = json
    BY <1>1 DEF BeginOther, BeginCreateUsers, BeginSaveMeta, BeginLoadMeta, BeginEncrypt,
                BeginDecrypt, Begin, InTask
  <2>2. QED
    BY <1>0, <2>1 DEF JsonInv
<1>2. CASE BeginSaveJson
  BY <1>2 DEF BeginSaveJson, Begin, InTask, Running
<1>3. CASE Finish
  <2>1. step = "each" /\ json' = (json \/ Head(todo) \in {"savegroups", "saveusers"})
    BY <1>3 DEF Finish
  <2>2. QED
    BY <1>0, <2>1 DEF JsonInv
<1>4. CASE InitExits \/ Halt \/ Deploy \/ PowerOn
  <2>1. todo = <<>> /\ json' = json
    BY <1>4 DEF InitExits, Halt, Deploy, PowerOn, Inv, TaskInv
  <2>2. step = "begin"
    BY <2>1 DEF Inv, TaskInv
  <2>3. QED
    BY <1>0, <2>1, <2>2 DEF JsonInv
<1>5. ASSUME NEW f \in Files, OpenMode(f) \/ SaveMode(f) \/ RestoreMode(f) \/ Skip(f) \/ Gpg(f)
             \/ Move(f) \/ Truncate(f) \/ Copy(f)
      PROVE  json'
  <2>1. json' = json /\ Head(todo) \notin {"savegroups", "saveusers"}
    BY <1>5 DEF OpenMode, SaveMode, RestoreMode, Skip, Gpg, Move, Truncate, Copy, InTask, Running
  <2>2. QED
    BY <1>0, <2>1 DEF JsonInv
<1>6. ASSUME NEW f \in Files, Edit(f) \/ Chmod(f)
      PROVE  json' \/ (step' = "each" /\ Head(todo') \in {"savegroups", "saveusers"})
  BY <1>0, <1>6 DEF Edit, Chmod, JsonInv
<1>7. CASE UNCHANGED vars
  BY <1>0, <1>7 DEF vars, JsonInv
<1>8. QED
  BY <1>0, <1>1, <1>2, <1>3, <1>4, <1>5, <1>6, <1>7 DEF Next, RunTask

\* Nor does a boot skip a task, while nothing goes wrong.
LEMMA FinishSmooth ==
  ASSUME Inv, JsonInv, Smooth, Finish
  PROVE  /\ todo # <<>> /\ todo' = Tail(todo) /\ step = "each" /\ visit = {}
         /\ \A task : Lists(todo, task) => Lists(todo', task) \/ Within(task)
         /\ \A task : Lists(todo', task) => Lists(todo, task)
<1>1. /\ todo # <<>> /\ step = "each" /\ visit = {} /\ phase \in {"boot", "halt"}
      /\ todo' = IF Head(todo) = "fsck" /\ ~json THEN <<>> ELSE Tail(todo)
  BY DEF Finish
<1>2. todo' = Tail(todo)
  BY <1>1 DEF JsonInv
<1>3. QED
  BY <1>1, <1>2, Todo DEF Within, Running
-----------------------------------------------------------------------------
\* What is exposed.

\* Files and lists stay, and encryptfs left no more of them behind.
LEMMA SealSame ==
  ASSUME SealInv, Smooth, phase' = phase, todo' = todo, data' = data, world' = world,
         open' = open, step # "copy", step' # "copy", step' = "move" => buffer'.version > 0,
         \A f \in Files : Left("encryptfs", f)' => Left("encryptfs", f) \/ Sealed(f)
  PROVE  SealInv'
BY DEF SealInv, Sealed

LEMMA StepSeal ==
  ASSUME Active = FALSE, Inv, JsonInv, DecryptInv, SealInv, [Next]_vars
  PROVE  SealInv'
<1> SUFFICES ASSUME Smooth' PROVE SealInv'
  BY DEF SealInv
<1>0. /\ data \in [Files -> Content] /\ world \in [Files -> BOOLEAN] /\ open \in [Files -> BOOLEAN]
      /\ visit \subseteq Files /\ step \in {"begin", "each", "move", "copy"}
      /\ (step \in {"move", "copy"} => buffer \in [file : visit, version : Nat])
  BY DEF Inv, TypeOK
<1>00. Smooth /\ ~Crash /\ ~RestoreFails /\ (\A f \in Files : ~GpgFails(f)) /\ phase # "off"
  BY SmoothStep DEF SealInv
<1>1. CASE \/ BeginOther \/ BeginSaveJson \/ BeginCreateUsers \/ BeginSaveMeta
           \/ BeginLoadMeta \/ BeginDecrypt
  <2>1. PICK task : Running(task) /\ task # "encryptfs"
    <3>1. PICK task \in OtherTasks \union {"savegroups", "saveusers", "createusers",
                                            "savemeta", "loadmeta", "decryptfs"} : Running(task)
      BY <1>1 DEF BeginOther, BeginSaveJson, BeginCreateUsers, BeginSaveMeta, BeginLoadMeta,
                  BeginDecrypt, Begin, InTask
    <3>2. QED
      BY <3>1 DEF OtherTasks
  <2>2. /\ phase' = phase /\ todo' = todo /\ data' = data /\ world' = world /\ open' = open
        /\ step = "begin" /\ step' = "each"
    BY <1>1 DEF BeginOther, BeginSaveJson, BeginCreateUsers, BeginSaveMeta, BeginLoadMeta,
                BeginDecrypt, Begin, InTask, memberVars
  <2>3. ~Within("encryptfs")'
    BY <2>1, <2>2 DEF Within, Running
  <2>4. QED
    BY <1>00, <2>2, <2>3, SealSame DEF Left
<1>2. CASE BeginEncrypt
  <2>1. /\ visit' = Private /\ phase' = phase /\ todo' = todo /\ step = "begin" /\ step' = "each"
        /\ data' = data /\ world' = world /\ open' = open
    BY <1>2 DEF BeginEncrypt, Begin, InTask, memberVars
  <2>2. \A f \in Files : Left("encryptfs", f)' => Sealed(f)
    BY <1>00, <2>1 DEF Left, Private, SealInv, Sealed
  <2>3. QED
    BY <1>00, <2>1, <2>2, SealSame
<1>3. ASSUME NEW f \in Files, SaveMode(f) PROVE SealInv'
  <2>1. /\ Running("savemeta") /\ step = "each" /\ step' = "each" /\ phase' = phase /\ todo' = todo
        /\ data' = data /\ world' = world /\ open' = open
    BY <1>3 DEF SaveMode, InTask, memberVars
  <2>2. ~Within("encryptfs")'
    BY <2>1 DEF Within, Running
  <2>3. QED
    BY <1>00, <2>1, <2>2, SealSame DEF Left
\* createusers and loadmeta open files, but all that are closed are still encrypted.
<1>4. ASSUME NEW f \in Files, OpenMode(f) \/ RestoreMode(f) PROVE SealInv'
  <2>1. /\ Running("createusers") \/ Running("loadmeta")
        /\ step = "each" /\ step' = "each" /\ phase' = phase /\ todo' = todo
        /\ data' = data /\ open' = open
    BY <1>4 DEF OpenMode, RestoreMode, InTask, memberVars
  <2>2. phase = "boot" /\ Lists(todo, "loadmeta")
    BY <2>1, WhichPhase DEF Inv, TaskInv
  <2>3. \A g \in Files : Sealed(g) /\ data[g].version > 0
    BY <1>00, <2>1, <2>2 DEF SealInv
  <2>4. QED
    BY <2>1, <2>2, <2>3 DEF SealInv, Sealed
<1>5. ASSUME NEW f \in Files, Skip(f) PROVE SealInv'
  <2>1. PICK task \in {"encryptfs", "decryptfs"} : Running(task) /\ (task = "encryptfs" => Sealed(f))
    BY <1>5 DEF Skip, InTask, Sealed
  <2>2. /\ phase' = phase /\ todo' = todo /\ data' = data /\ world' = world /\ open' = open
        /\ step = "each" /\ step' = "each" /\ visit' = visit \ {f}
    BY <1>5 DEF Skip, InTask, memberVars
  <2>3. \A g \in Files : Left("encryptfs", g)' => Left("encryptfs", g) \/ Sealed(g)
    BY <2>1, <2>2 DEF Left, Within, Running, Sealed
  <2>4. QED
    BY <1>00, <2>2, <2>3, SealSame
<1>6. ASSUME NEW f \in Files, Gpg(f) PROVE SealInv'
  <2>1. /\ phase' = phase /\ todo' = todo /\ data' = data /\ world' = world /\ open' = open
        /\ step = "each" /\ step' = "move" /\ visit' = visit
        /\ buffer' = [file |-> f, version |-> data[f].version]
    BY <1>6 DEF Gpg, InTask, memberVars
  <2>2. buffer'.version > 0
    BY <1>00, <2>1 DEF SealInv
  <2>3. \A g \in Files : Left("encryptfs", g)' => Left("encryptfs", g)
    BY <2>1 DEF Left, Within, Running
  <2>4. QED
    BY <1>00, <2>1, <2>2, <2>3, SealSame
<1>7. ASSUME NEW f \in Files, Move(f) PROVE SealInv'
  <2>1. /\ Running("encryptfs") /\ phase' = phase /\ todo' = todo /\ open' = open
        /\ step = "move" /\ step' = "each" /\ visit' = visit \ {f}
        /\ data' = [data EXCEPT ![f] = [version |-> buffer.version, cipher |-> TRUE]]
        /\ world' = [world EXCEPT ![f] = FALSE]
    BY <1>7 DEF Move, InTask, memberVars
  <2>2. phase = "halt" /\ Lists(todo, "encryptfs") /\ buffer.version > 0
    BY <1>00, <2>1, WhichPhase DEF SealInv
  <2>3. /\ data'[f].cipher /\ data'[f].version > 0
        /\ \A g \in Files : g # f => data'[g] = data[g] /\ world'[g] = world[g]
    BY <1>0, <2>1, <2>2
  <2>4. \A g \in Files : g # f /\ Left("encryptfs", g)' => Left("encryptfs", g)
    BY <2>1 DEF Left, Within, Running
  <2>5. QED
    BY <1>00, <2>1, <2>2, <2>3, <2>4 DEF SealInv, Sealed
<1>8. ASSUME NEW f \in Files, Truncate(f) PROVE SealInv'
  <2>1. /\ Running("decryptfs") /\ phase' = phase /\ todo' = todo /\ open' = open /\ world' = world
        /\ step = "move" /\ step' = "copy" /\ buffer.file = f /\ buffer' = buffer
        /\ data' = [data EXCEPT ![f] = Cut]
    BY <1>8 DEF Truncate, InTask, memberVars
  <2>2. phase = "boot" /\ ~Lists(todo, "loadmeta") /\ buffer.version > 0
    BY <1>00, <2>1, WhichPhase DEF SealInv, Inv, TaskInv
  <2>3. /\ data'[f].version = 0
        /\ \A g \in Files : g # f => data'[g] = data[g]
    BY <1>0, <2>1 DEF Cut
  <2>4. QED
    BY <1>00, <2>1, <2>2, <2>3 DEF SealInv, Sealed
\* decryptfs brings back plain text that only the owner can read.
<1>9. ASSUME NEW f \in Files, Copy(f) PROVE SealInv'
  <2>1. /\ Running("decryptfs") /\ phase' = phase /\ todo' = todo /\ open' = open /\ world' = world
        /\ step = "copy" /\ step' = "each" /\ buffer.file = f
        /\ data' = [data EXCEPT ![f] = [version |-> buffer.version, cipher |-> FALSE]]
    BY <1>9 DEF Copy, InTask, memberVars
  <2>2. phase = "boot" /\ ~Lists(todo, "loadmeta") /\ buffer.version > 0
    BY <1>00, <2>1, WhichPhase DEF SealInv, Inv, TaskInv
  <2>3. /\ data'[f].version > 0 /\ ~world'[f]
        /\ \A g \in Files : g # f => data'[g] = data[g]
    BY <1>0, <2>1, <2>2 DEF DecryptInv, Within
  <2>4. QED
    BY <1>00, <2>1, <2>2, <2>3 DEF SealInv, Sealed
<1>10. CASE Finish
  <2>1. /\ phase' = phase /\ step' = "begin" /\ data' = data /\ world' = world /\ open' = open
    BY <1>10 DEF Finish, memberVars
  <2>2. /\ \A task : ~Lists(todo', task) => ~Lists(todo, task) \/ Within(task)
        /\ \A task : Lists(todo', task) => Lists(todo, task)
        /\ step = "each" /\ visit = {}
    BY <1>00, <1>10, FinishSmooth
  <2>3. \A f \in Files : phase = "halt" /\ ~Lists(todo', "encryptfs") => Sealed(f)
    BY <1>00, <2>2 DEF SealInv, Left
  <2>4. \A task : ~Within(task)'
    BY <2>1 DEF Within
  <2>5. QED
    BY <1>00, <2>1, <2>2, <2>3, <2>4 DEF SealInv, Sealed, Left
<1>11. CASE InitExits
  <2>1. /\ phase' \in {"up", "halted"} /\ (phase' = "halted" => phase = "halt")
        /\ data' = data /\ world' = world /\ open' = open
        /\ step = "begin" /\ step' = "begin" /\ ~Lists(todo, "encryptfs")
    BY <1>11, EmptyList DEF InitExits, memberVars, Inv, TaskInv
  <2>2. QED
    BY <1>00, <2>1 DEF SealInv, Sealed
<1>12. CASE Halt
  <2>1. /\ phase' = "halt" /\ todo' = HaltOrder /\ step' = "begin"
        /\ data' = data /\ world' = world /\ open' = open /\ step = "begin"
    BY <1>12 DEF Halt, memberVars, Inv, TaskInv
  <2>2. Lists(todo', "encryptfs") /\ ~Within("encryptfs")'
    BY <2>1, OrderAssumption DEF Within
  <2>3. QED
    BY <1>00, <2>1, <2>2 DEF SealInv, Sealed, Left
\* A fresh clone can be read by everybody: what is closed has to be encrypted.
<1>13. CASE Deploy
  <2>1. /\ phase = "halted" /\ phase' = "boot" /\ step' = "begin" /\ data' = data /\ open' = open
        /\ step = "begin"
    BY <1>13 DEF Deploy, memberVars, Inv, TaskInv
  <2>2. \A f \in Files : Sealed(f) /\ data[f].version > 0
    BY <1>00, <2>1 DEF SealInv
  <2>3. QED
    BY <2>1, <2>2 DEF SealInv, Sealed
<1>14. CASE PowerOn
  BY <1>00, <1>14 DEF PowerOn
<1>15. ASSUME NEW f \in Files, Edit(f) PROVE SealInv'
  <2>1. /\ phase = "up" /\ phase' = "up" /\ step = "begin" /\ step' = "begin"
        /\ world' = world /\ open' = open
        /\ data' = [data EXCEPT ![f] = [@ EXCEPT !.version = latest[f] + 1]]
    BY <1>15, Rest DEF Edit
  <2>2. latest[f] + 1 > 0
    BY DEF Inv, TypeOK
  <2>3. \A g \in Files : data'[g].version > 0 /\ data'[g].cipher = data[g].cipher
    BY <1>0, <1>00, <2>1, <2>2 DEF SealInv, Content
  <2>4. \A g \in Files : world[g] /\ ~data[g].cipher => Sealed(g)
    BY <1>00, <2>1 DEF SealInv
  <2>5. QED
    BY <2>1, <2>3, <2>4 DEF SealInv, Sealed
<1>16. ASSUME NEW f \in Files, Chmod(f) PROVE SealInv'
  <2>1. /\ phase = "up" /\ phase' = "up" /\ step = "begin" /\ step' = "begin" /\ data' = data
        /\ world' = [world EXCEPT ![f] = ~@] /\ open' = [open EXCEPT ![f] = ~world[f]]
    BY <1>16, Rest DEF Chmod
  <2>2. \A g \in Files : world'[g] /\ ~data[g].cipher => Sealed(g)'
    BY <1>0, <1>00, <2>1 DEF SealInv, Sealed
  <2>3. QED
    BY <1>00, <2>1, <2>2 DEF SealInv
<1>17. CASE UNCHANGED vars
  BY <1>17, <1>00 DEF SealInv, Sealed, Left, Within, Running, vars, memberVars
<1>18. QED
  BY <1>00, <1>1, <1>2, <1>3, <1>4, <1>5, <1>6, <1>7, <1>8, <1>9, <1>10, <1>11, <1>12, <1>13,
     <1>14, <1>15, <1>16, <1>17 DEF Next, RunTask

\* When members rest while init runs and nothing goes wrong, what a member closed
\* is never on disk, readable and in plain text, in a fresh clone or under the chmod
\* of createusers neither: for the files encryptfs does not pass over.
THEOREM NeverExposedHolds ==
  ASSUME Active = FALSE
  PROVE  Spec => []NeverExposed
<1>1. Init => JsonInv /\ DecryptInv /\ SealInv
  <2> SUFFICES ASSUME Init PROVE JsonInv /\ DecryptInv /\ SealInv
    OBVIOUS
  <2>1. /\ json /\ visit = {} /\ phase = "up" /\ step = "begin"
        /\ \A f \in Files : data[f].version = 1 /\ open[f]
    BY DEF Init
  <2>2. QED
    BY <2>1 DEF JsonInv, DecryptInv, SealInv, Sealed
<1>2. Inv /\ JsonInv /\ DecryptInv /\ SealInv /\ [Next]_vars => SealInv'
  BY StepSeal
<1>3. Inv /\ DecryptInv /\ [Next]_vars => DecryptInv'
  BY StepDecrypt
<1>4. SealInv => NeverExposed
  BY DEF SealInv, Sealed, NeverExposed
<1>5. QED
  BY InitInv, StepInv, StepJson, <1>1, <1>2, <1>3, <1>4, PTL DEF Spec
-----------------------------------------------------------------------------
\* What comes back.

\* Files, lists and modes stay, and what a task left behind was as it should be.
LEMMA TripSame ==
  ASSUME TripInv, Smooth, phase' = phase, todo' = todo, data' = data, world' = world,
         acl' = acl, open' = open, latest' = latest, step # "copy", step' # "copy",
         step' = "move" => buffer'.version = latest[buffer'.file],
         \A f \in Files :
           /\ Left("savemeta", f)' => Left("savemeta", f)
           /\ Left("encryptfs", f)' => Left("encryptfs", f) \/ Sealed(f)
           /\ Within("encryptfs")' /\ f \in visit' =>
                (Within("encryptfs") /\ f \in visit) \/ ~open[f]
           /\ Left("loadmeta", f)' => Left("loadmeta", f)
           /\ Left("decryptfs", f)' => Left("decryptfs", f) \/ ~data[f].cipher
  PROVE  TripInv'
<1> SUFFICES ASSUME NEW f \in Files
             PROVE  /\ phase' # "off"
                    /\ (phase = "up" => AsLeft(f))'
                    /\ (phase = "halt" => Halting(f))'
                    /\ (phase = "halted" => Halted(f))'
                    /\ (phase = "boot" => Booting(f))'
  BY DEF TripInv
<1>1. /\ phase # "off"
      /\ phase = "up" => AsLeft(f)
      /\ phase = "halt" => Halting(f)
      /\ phase = "halted" => Halted(f)
      /\ phase = "boot" => Booting(f)
  BY DEF TripInv
<1>2. phase' # "off" /\ (phase = "up" => AsLeft(f))'
  BY <1>1 DEF AsLeft
<1>3. (phase = "halt" => Halting(f))'
  BY <1>1 DEF Halting, Sealed, Recorded
<1>4. (phase = "boot" => Booting(f))'
  BY <1>1 DEF Booting, Sealed, Recorded
<1>5. (phase = "halted" => Halted(f))'
  BY <1>1 DEF Halted, Sealed, Recorded
<1>6. QED
  BY <1>2, <1>3, <1>4, <1>5

\* In a phase where a step leads, the invariant says this.
LEMMA TripHalt ==
  ASSUME phase' = "halt", \A f \in Files : Halting(f)'
  PROVE  TripInv'
BY DEF TripInv

LEMMA TripBoot ==
  ASSUME phase' = "boot", \A f \in Files : Booting(f)'
  PROVE  TripInv'
BY DEF TripInv

LEMMA TripUp ==
  ASSUME phase' = "up", \A f \in Files : AsLeft(f)'
  PROVE  TripInv'
BY DEF TripInv

\* A task runs that touches no file: none of the four is past its beginning.
LEMMA NotWithin ==
  ASSUME NEW task, Running(task), phase' = phase, todo' = todo
  PROVE  \A other : other # task => ~Within(other)' /\ \A f : ~Left(other, f)'
BY DEF Within, Left, Running

LEMMA StepTrip ==
  ASSUME Active = FALSE, Untracked = {}, Inv, JsonInv, TripInv, [Next]_vars
  PROVE  TripInv'
<1> SUFFICES ASSUME Smooth' PROVE TripInv'
  BY DEF TripInv
<1>0. /\ data \in [Files -> Content] /\ world \in [Files -> BOOLEAN] /\ open \in [Files -> BOOLEAN]
      /\ acl \in [Files -> Modes] /\ latest \in [Files -> Nat]
      /\ visit \subseteq Files /\ step \in {"begin", "each", "move", "copy"}
      /\ (step \in {"move", "copy"} => buffer \in [file : visit, version : Nat])
  BY DEF Inv, TypeOK
<1>00. Smooth /\ ~Crash /\ ~RestoreFails /\ \A f \in Files : ~GpgFails(f)
  BY SmoothStep
<1>01. /\ phase = "up" => \A f \in Files : AsLeft(f)
       /\ phase = "halt" => \A f \in Files : Halting(f)
       /\ phase = "boot" => \A f \in Files : Booting(f)
       /\ phase = "off" => Files = {}
  BY <1>00 DEF TripInv
<1>1. CASE BeginOther \/ BeginSaveJson \/ BeginCreateUsers
  <2>1. PICK task : Running(task) /\ task \notin {"savemeta", "encryptfs", "loadmeta", "decryptfs"}
    <3>1. PICK task \in OtherTasks \union {"savegroups", "saveusers", "createusers"} : Running(task)
      BY <1>1 DEF BeginOther, BeginSaveJson, BeginCreateUsers, Begin, InTask
    <3>2. QED
      BY <3>1 DEF OtherTasks
  <2>2. /\ phase' = phase /\ todo' = todo /\ data' = data /\ world' = world /\ acl' = acl
        /\ open' = open /\ latest' = latest /\ step = "begin" /\ step' = "each"
    BY <1>1 DEF BeginOther, BeginSaveJson, BeginCreateUsers, Begin, InTask, memberVars
  <2>3. \A t \in {"savemeta", "encryptfs", "loadmeta", "decryptfs"} :
          ~Within(t)' /\ \A f : ~Left(t, f)'
    BY <2>1, <2>2, NotWithin
  <2>4. QED
    BY <1>00, <2>2, <2>3, TripSame
<1>2. CASE BeginSaveMeta
  <2>1. /\ Running("savemeta") /\ phase' = phase /\ todo' = todo /\ data' = data /\ world' = world
        /\ open' = open /\ latest' = latest /\ step = "begin" /\ step' = "each" /\ visit' = Files
    BY <1>2 DEF BeginSaveMeta, Begin, InTask, memberVars
  <2>2. /\ phase = "halt" /\ Lists(todo, "savemeta")
        /\ ~Within("encryptfs")' /\ \A f : ~Left("encryptfs", f)'
    BY <2>1, WhichPhase, NotWithin
  <2>3. \A f \in Files : ~Left("savemeta", f)'
    BY <2>1 DEF Left
  <2>4. \A f \in Files : Halting(f)'
    BY <1>01, <2>1, <2>2, <2>3 DEF Halting, Sealed
  <2>5. QED
    BY <2>1, <2>2, <2>4, TripHalt
<1>3. CASE BeginLoadMeta
  <2>1. /\ Running("loadmeta") /\ visit' = {f \in Files : acl[f] # "none"}
        /\ phase' = phase /\ todo' = todo /\ data' = data /\ world' = world /\ acl' = acl
        /\ open' = open /\ latest' = latest /\ step = "begin" /\ step' = "each"
    BY <1>3 DEF BeginLoadMeta, Begin, InTask, memberVars
  <2>2. \A t \in {"savemeta", "encryptfs", "decryptfs"} : ~Within(t)' /\ \A f : ~Left(t, f)'
    BY <2>1, NotWithin
  <2>3. \A f \in Files : ~Left("loadmeta", f)'
    <3>1. \A f \in Files : acl[f] # "none"
      BY <1>01, <2>1, WhichPhase DEF Booting, Recorded
    <3>2. QED
      BY <2>1, <3>1 DEF Left
  <2>4. QED
    BY <1>00, <2>1, <2>2, <2>3, TripSame
<1>4. CASE BeginEncrypt
  <2>1. /\ Running("encryptfs") /\ visit' = Private
        /\ phase' = phase /\ todo' = todo /\ data' = data /\ world' = world /\ acl' = acl
        /\ open' = open /\ latest' = latest /\ step = "begin" /\ step' = "each"
    BY <1>4 DEF BeginEncrypt, Begin, InTask, memberVars
  <2>2. \A t \in {"savemeta", "loadmeta", "decryptfs"} : ~Within(t)' /\ \A f : ~Left(t, f)'
    BY <2>1, NotWithin
  <2>3. \A f \in Files : IF f \in visit' THEN ~open[f] ELSE Sealed(f)
    BY <1>0, <1>01, <2>1, WhichPhase DEF Halting, Private, Sealed
  <2>4. \A f \in Files : /\ Left("encryptfs", f)' => Sealed(f)
                         /\ Within("encryptfs")' /\ f \in visit' => ~open[f]
    BY <2>3 DEF Left
  <2>5. QED
    BY <1>00, <2>1, <2>2, <2>4, TripSame
<1>5. CASE BeginDecrypt
  <2>1. /\ Running("decryptfs") /\ visit' = Private
        /\ phase' = phase /\ todo' = todo /\ data' = data /\ world' = world /\ acl' = acl
        /\ open' = open /\ latest' = latest /\ step = "begin" /\ step' = "each"
    BY <1>5 DEF BeginDecrypt, Begin, InTask, memberVars
  <2>2. \A t \in {"savemeta", "loadmeta", "encryptfs"} : ~Within(t)' /\ \A f : ~Left(t, f)'
    BY <2>1, NotWithin
  <2>3. phase = "boot" /\ ~Lists(todo, "loadmeta")
    BY <2>1, WhichPhase DEF Inv, TaskInv
  <2>4. \A f \in Files : Left("decryptfs", f)' => ~data[f].cipher
    <3>1. \A f \in Files : (data[f].cipher => ~open[f]) /\ world[f] = open[f]
      BY <1>01, <2>3 DEF Booting
    <3>2. QED
      BY <2>1, <3>1 DEF Left, Private
  <2>5. QED
    BY <1>00, <2>1, <2>2, <2>4, TripSame
<1>6. ASSUME NEW f \in Files, SaveMode(f) PROVE TripInv'
  <2>1. /\ Running("savemeta") /\ visit' = visit \ {f} /\ acl' = [acl EXCEPT ![f] = Recorded(world[f])]
        /\ phase' = phase /\ todo' = todo /\ data' = data /\ world' = world
        /\ open' = open /\ latest' = latest /\ step = "each" /\ step' = "each"
    BY <1>6 DEF SaveMode, InTask, memberVars
  <2>2. /\ phase = "halt" /\ Lists(todo, "savemeta") /\ Within("savemeta")
        /\ ~Within("encryptfs")' /\ \A g : ~Left("encryptfs", g)'
    <3>1. phase = "halt" /\ Lists(todo, "savemeta")
      BY <2>1, WhichPhase
    <3>2. ~Within("encryptfs")' /\ \A g : ~Left("encryptfs", g)'
      BY <2>1, NotWithin
    <3>3. QED
      BY <2>1, <3>1, <3>2 DEF Within
  <2>3. ASSUME NEW g \in Files, Left("savemeta", g)' PROVE acl'[g] = Recorded(open[g])
    <3>1. CASE g = f
      BY <1>0, <1>01, <2>1, <2>2, <3>1 DEF Halting
    <3>2. CASE g # f
      <4>1. Left("savemeta", g)
        BY <2>1, <2>2, <2>3, <3>2 DEF Left
      <4>2. QED
        BY <1>0, <1>01, <2>1, <2>2, <3>2, <4>1 DEF Halting
    <3>3. QED
      BY <3>1, <3>2
  <2>4. \A g \in Files : Halting(g)'
    BY <1>01, <2>1, <2>2, <2>3 DEF Halting, Sealed
  <2>5. QED
    BY <2>1, <2>2, <2>4, TripHalt
<1>7. ASSUME NEW f \in Files, RestoreMode(f) PROVE TripInv'
  <2>1. /\ Running("loadmeta") /\ visit' = visit \ {f} /\ world' = [world EXCEPT ![f] = acl[f] = "open"]
        /\ phase' = phase /\ todo' = todo /\ data' = data /\ acl' = acl
        /\ open' = open /\ latest' = latest /\ step = "each" /\ step' = "each"
    BY <1>7 DEF RestoreMode, InTask, memberVars
  <2>2. /\ phase = "boot" /\ Lists(todo, "loadmeta") /\ Within("loadmeta")
        /\ ~Within("decryptfs")' /\ \A g : ~Left("decryptfs", g)'
    BY <2>1, WhichPhase, NotWithin DEF Within
  <2>3. ASSUME NEW g \in Files, Left("loadmeta", g)' PROVE world'[g] = open[g]
    <3>1. CASE g = f
      <4>1. acl[f] = Recorded(open[f]) /\ open[f] \in BOOLEAN /\ world'[f] = (acl[f] = "open")
        BY <1>0, <1>01, <2>1, <2>2 DEF Booting
      <4>2. QED
        BY <3>1, <4>1 DEF Recorded
    <3>2. CASE g # f
      <4>1. Left("loadmeta", g)
        BY <2>1, <2>2, <2>3, <3>2 DEF Left
      <4>2. QED
        BY <1>0, <1>01, <2>1, <2>2, <3>2, <4>1 DEF Booting
    <3>3. QED
      BY <3>1, <3>2
  <2>4. \A g \in Files : Booting(g)'
    BY <1>01, <2>1, <2>2, <2>3 DEF Booting, Sealed
  <2>5. QED
    BY <2>1, <2>2, <2>4, TripBoot
<1>8. ASSUME NEW f \in Files, Skip(f) PROVE TripInv'
  <2>1. PICK task \in {"encryptfs", "decryptfs"} :
          /\ Running(task)
          /\ task = "encryptfs" => Sealed(f)
          /\ task = "decryptfs" => ~data[f].cipher
    BY <1>8 DEF Skip, InTask, Sealed
  <2>2. /\ phase' = phase /\ todo' = todo /\ data' = data /\ world' = world /\ acl' = acl
        /\ open' = open /\ latest' = latest /\ step = "each" /\ step' = "each" /\ visit' = visit \ {f}
    BY <1>8 DEF Skip, InTask, memberVars
  <2>3. \A t \in {"savemeta", "loadmeta"} : ~Within(t)' /\ \A g : ~Left(t, g)'
    BY <2>1, <2>2, NotWithin
  <2>4. ASSUME NEW g \in Files
        PROVE  /\ Left("encryptfs", g)' => Left("encryptfs", g) \/ Sealed(g)
               /\ Within("encryptfs")' /\ g \in visit' => Within("encryptfs") /\ g \in visit
               /\ Left("decryptfs", g)' => Left("decryptfs", g) \/ ~data[g].cipher
    BY <2>1, <2>2 DEF Left, Within, Running, Sealed
  <2>5. QED
    BY <1>00, <2>2, <2>3, <2>4, TripSame
<1>9. ASSUME NEW f \in Files, Gpg(f) PROVE TripInv'
  <2>1. /\ phase' = phase /\ todo' = todo /\ data' = data /\ world' = world /\ acl' = acl
        /\ open' = open /\ latest' = latest /\ step = "each" /\ step' = "move" /\ visit' = visit
        /\ buffer' = [file |-> f, version |-> data[f].version] /\ phase \in {"boot", "halt"}
    BY <1>9 DEF Gpg, InTask, Running, memberVars
  <2>2. data[f].version = latest[f]
    BY <1>01, <2>1 DEF Halting, Booting
  <2>3. \A g \in Files : \A t : /\ Left(t, g)' => Left(t, g)
                                /\ Within(t)' => Within(t)
    BY <2>1 DEF Left, Within, Running
  <2>4. QED
    BY <1>00, <2>1, <2>2, <2>3, TripSame
<1>10. ASSUME NEW f \in Files, Move(f) PROVE TripInv'
  <2>1. /\ Running("encryptfs") /\ step = "move" /\ step' = "each" /\ buffer.file = f
        /\ visit' = visit \ {f} /\ world' = [world EXCEPT ![f] = FALSE]
        /\ data' = [data EXCEPT ![f] = [version |-> buffer.version, cipher |-> TRUE]]
        /\ phase' = phase /\ todo' = todo /\ acl' = acl /\ open' = open /\ latest' = latest
    BY <1>10 DEF Move, InTask, memberVars
  <2>2. /\ phase = "halt" /\ Lists(todo, "encryptfs") /\ ~Lists(todo, "savemeta")
        /\ Within("encryptfs") /\ f \in visit
    BY <1>0, <2>1, WhichPhase DEF Inv, TaskInv, Within
  <2>3. \A t \in {"savemeta", "loadmeta", "decryptfs"} : ~Within(t)' /\ \A g : ~Left(t, g)'
    BY <2>1, NotWithin
  <2>4. /\ data'[f].version = latest[f] /\ data'[f].cipher /\ ~open[f]
        /\ \A g \in Files : g # f => data'[g] = data[g] /\ world'[g] = world[g]
    BY <1>0, <1>01, <2>1, <2>2 DEF Halting
  <2>5. \A g \in Files : /\ g # f /\ Left("encryptfs", g)' => Left("encryptfs", g)
                         /\ Within("encryptfs")' /\ g \in visit' => g \in visit
    BY <2>1, <2>2 DEF Left, Within
  <2>6. ASSUME NEW g \in Files PROVE Halting(g)'
    <3>1. CASE g = f
      BY <1>01, <2>1, <2>2, <2>3, <2>4, <2>5, <3>1 DEF Halting, Sealed
    <3>2. CASE g # f
      BY <1>01, <2>1, <2>2, <2>3, <2>4, <2>5, <3>2 DEF Halting, Sealed
    <3>3. QED
      BY <3>1, <3>2
  <2>7. QED
    BY <2>1, <2>2, <2>6, TripHalt
<1>11. ASSUME NEW f \in Files, Truncate(f) PROVE TripInv'
  <2>1. /\ Running("decryptfs") /\ step = "move" /\ step' = "copy" /\ buffer.file = f
        /\ visit' = visit /\ buffer' = buffer /\ world' = world
        /\ data' = [data EXCEPT ![f] = Cut]
        /\ phase' = phase /\ todo' = todo /\ acl' = acl /\ open' = open /\ latest' = latest
    BY <1>11 DEF Truncate, InTask, memberVars
  <2>2. phase = "boot" /\ Lists(todo, "decryptfs") /\ ~Lists(todo, "loadmeta")
    BY <2>1, WhichPhase DEF Inv, TaskInv
  <2>3. ~data'[f].cipher /\ \A g \in Files : g # f => data'[g] = data[g]
    BY <1>0, <2>1 DEF Cut
  <2>4. \A g \in Files : Left("decryptfs", g)' => Left("decryptfs", g)
    BY <2>1 DEF Left, Within, Running
  <2>5. ASSUME NEW g \in Files PROVE Booting(g)'
    <3>1. CASE g = f
      BY <1>01, <2>1, <2>2, <2>3, <3>1 DEF Booting, Sealed
    <3>2. CASE g # f
      BY <1>01, <2>1, <2>2, <2>3, <2>4, <3>2 DEF Booting, Sealed
    <3>3. QED
      BY <3>1, <3>2
  <2>6. QED
    BY <2>1, <2>2, <2>5, TripBoot
<1>12. ASSUME NEW f \in Files, Copy(f) PROVE TripInv'
  <2>1. /\ Running("decryptfs") /\ step = "copy" /\ step' = "each" /\ buffer.file = f
        /\ visit' = visit \ {f} /\ world' = world
        /\ data' = [data EXCEPT ![f] = [version |-> buffer.version, cipher |-> FALSE]]
        /\ phase' = phase /\ todo' = todo /\ acl' = acl /\ open' = open /\ latest' = latest
    BY <1>12 DEF Copy, InTask, memberVars
  <2>2. phase = "boot" /\ Lists(todo, "decryptfs") /\ ~Lists(todo, "loadmeta") /\ Within("decryptfs")
    BY <2>1, WhichPhase DEF Inv, TaskInv, Within
  <2>3. /\ data'[f].version = latest[f] /\ ~data'[f].cipher
        /\ \A g \in Files : g # f => data'[g] = data[g]
    BY <1>0, <1>01, <2>1, <2>2 DEF Booting
  <2>4. \A g \in Files : g # f /\ Left("decryptfs", g)' => Left("decryptfs", g)
    BY <2>1, <2>2 DEF Left
  <2>5. ASSUME NEW g \in Files PROVE Booting(g)'
    <3>1. CASE g = f
      BY <1>01, <2>1, <2>2, <2>3, <3>1 DEF Booting, Sealed
    <3>2. CASE g # f
      BY <1>01, <2>1, <2>2, <2>3, <2>4, <3>2 DEF Booting, Sealed
    <3>3. QED
      BY <3>1, <3>2
  <2>6. QED
    BY <2>1, <2>2, <2>5, TripBoot
<1>13. CASE Finish
  <2>1. /\ phase' = phase /\ step' = "begin" /\ data' = data /\ world' = world /\ acl' = acl
        /\ open' = open /\ latest' = latest /\ phase \in {"boot", "halt"}
    BY <1>13 DEF Finish, memberVars
  <2>2. /\ \A task : ~Lists(todo', task) => ~Lists(todo, task) \/ Within(task)
        /\ \A task : Lists(todo', task) => Lists(todo, task)
        /\ step = "each" /\ visit = {}
    BY <1>00, <1>13, FinishSmooth
  <2>3. /\ \A task : ~Within(task)' /\ \A f : ~Left(task, f)'
        /\ \A task : \A f \in Files : ~Lists(todo', task) => ~Lists(todo, task) \/ Left(task, f)
    BY <2>1, <2>2 DEF Within, Left
  <2>4. CASE phase = "halt"
    <3>1. \A f \in Files : Halting(f)'
      BY <1>01, <2>1, <2>2, <2>3, <2>4 DEF Halting, Sealed
    <3>2. QED
      BY <2>1, <2>4, <3>1, TripHalt
  <2>5. CASE phase = "boot"
    <3>1. \A f \in Files : Booting(f)'
      BY <1>01, <2>1, <2>2, <2>3, <2>5 DEF Booting, Sealed
    <3>2. QED
      BY <2>1, <2>5, <3>1, TripBoot
  <2>6. QED
    BY <2>1, <2>4, <2>5
<1>14. CASE InitExits
  <2>1. /\ phase' = (IF phase = "boot" THEN "up" ELSE "halted") /\ phase \in {"boot", "halt"}
        /\ data' = data /\ world' = world /\ acl' = acl /\ open' = open /\ latest' = latest
        /\ step = "begin" /\ \A task : ~Lists(todo, task)
    BY <1>14, EmptyList DEF InitExits, memberVars, Inv, TaskInv
  <2>2. CASE phase = "halt"
    <3>1. \A f \in Files : Halted(f)'
      BY <1>01, <2>1, <2>2 DEF Halting, Halted, Sealed, Recorded
    <3>2. QED
      BY <2>1, <2>2, <3>1 DEF TripInv
  <2>3. CASE phase = "boot"
    <3>1. \A f \in Files : data[f].version = latest[f] /\ data[f].cipher = FALSE /\ world[f] = open[f]
      BY <1>0, <1>01, <2>1, <2>3 DEF Booting, Content
    <3>2. \A f \in Files : AsLeft(f)
      BY <1>0, <3>1 DEF AsLeft, Content
    <3>3. QED
      BY <2>1, <2>3, <3>2, TripUp DEF AsLeft
  <2>4. QED
    BY <2>1, <2>2, <2>3
<1>15. CASE Halt
  <2>1. /\ phase = "up" /\ phase' = "halt" /\ todo' = HaltOrder /\ step' = "begin"
        /\ data' = data /\ world' = world /\ acl' = acl /\ open' = open /\ latest' = latest
    BY <1>15 DEF Halt, memberVars
  <2>2. /\ Lists(todo', "encryptfs") /\ Lists(todo', "savemeta")
        /\ \A task : ~Within(task)' /\ \A f : ~Left(task, f)'
    BY <2>1, OrderAssumption DEF Within, Left
  <2>3. ASSUME NEW f \in Files
        PROVE  data[f].version = latest[f] /\ ~data[f].cipher /\ world[f] = open[f]
    <3>1. data[f] = [version |-> latest[f], cipher |-> FALSE] /\ world[f] = open[f]
      BY <1>01, <2>1 DEF AsLeft
    <3>2. data[f].version = latest[f] /\ data[f].cipher = FALSE
      BY <3>1
    <3>3. QED
      BY <3>1, <3>2
  <2>4. \A f \in Files : Halting(f)'
    BY <2>1, <2>2, <2>3 DEF Halting, Sealed
  <2>5. QED
    BY <2>1, <2>4, TripHalt
<1>16. CASE Deploy
  <2>1. /\ phase = "halted" /\ phase' = "boot" /\ todo' = BootOrder /\ step' = "begin"
        /\ data' = data /\ acl' = acl /\ open' = open /\ latest' = latest
    BY <1>16 DEF Deploy, memberVars
  <2>2. /\ Lists(todo', "loadmeta") /\ Lists(todo', "decryptfs")
        /\ \A task : ~Within(task)' /\ \A f : ~Left(task, f)'
    BY <2>1, OrderAssumption DEF Within, Left
  <2>3. \A f \in Files : Halted(f)
    BY <1>00, <2>1 DEF TripInv
  <2>4. \A f \in Files : Booting(f)'
    BY <2>1, <2>2, <2>3 DEF Booting, Halted, Sealed
  <2>5. QED
    BY <2>1, <2>4, TripBoot
<1>17. CASE PowerOn
  BY <1>01, <1>17 DEF PowerOn, TripInv
<1>18. ASSUME NEW f \in Files, Edit(f) PROVE TripInv'
  <2>1. /\ phase = "up" /\ phase' = "up" /\ world' = world /\ open' = open
        /\ latest' = [latest EXCEPT ![f] = @ + 1]
        /\ data' = [data EXCEPT ![f] = [@ EXCEPT !.version = latest[f] + 1]]
    BY <1>18, Rest DEF Edit
  <2>2. \A g \in Files : data[g] = [version |-> latest[g], cipher |-> FALSE] /\ world[g] = open[g]
    BY <1>01, <2>1 DEF AsLeft
  <2>3. /\ data'[f] = [version |-> latest[f] + 1, cipher |-> FALSE] /\ latest'[f] = latest[f] + 1
        /\ \A g \in Files : g # f => data'[g] = data[g] /\ latest'[g] = latest[g]
    <3>1. latest[f] + 1 \in Nat /\ data[f] \in Content
      BY <1>0
    <3>2. data[f].cipher = FALSE
      <4>1. data[f] = [version |-> latest[f], cipher |-> FALSE]
        BY <2>2
      <4>2. data[f].cipher = [version |-> latest[f], cipher |-> FALSE].cipher
        BY <4>1, Zenon
      <4>3. [version |-> latest[f], cipher |-> FALSE].cipher = FALSE
        OBVIOUS
      <4>4. QED
        BY <4>2, <4>3, Zenon
    <3>3. PICK d \in Content : d = [data[f] EXCEPT !.version = latest[f] + 1]
      BY <3>1 DEF Content
    <3>4. d.version = latest[f] + 1
      BY <3>1, <3>3 DEF Content
    <3>5. d.cipher = data[f].cipher
      BY <3>1, <3>3 DEF Content
    <3>6. d.cipher = FALSE
      BY <3>2, <3>5
    <3>7. d = [version |-> latest[f] + 1, cipher |-> FALSE]
      BY <3>3, <3>4, <3>6 DEF Content
    <3>8. QED
      BY <1>0, <2>1, <3>3, <3>7
  <2>4. \A g \in Files : AsLeft(g)'
    BY <2>1, <2>2, <2>3 DEF AsLeft
  <2>5. QED
    BY <2>1, <2>4, TripUp
<1>19. ASSUME NEW f \in Files, Chmod(f) PROVE TripInv'
  <2>1. /\ phase = "up" /\ phase' = "up" /\ data' = data /\ latest' = latest
        /\ world' = [world EXCEPT ![f] = ~@] /\ open' = [open EXCEPT ![f] = ~world[f]]
    BY <1>19, Rest DEF Chmod
  <2>2. \A g \in Files : AsLeft(g)'
    BY <1>0, <1>01, <2>1 DEF AsLeft
  <2>3. QED
    BY <2>1, <2>2, TripUp
\* createusers opens files whose modes loadmeta has yet to restore.
<1>20. ASSUME NEW f \in Files, OpenMode(f) PROVE TripInv'
  <2>1. /\ Running("createusers") /\ phase' = phase /\ todo' = todo /\ data' = data /\ acl' = acl
        /\ open' = open /\ latest' = latest /\ step = "each" /\ step' = "each"
    BY <1>20 DEF OpenMode, InTask, memberVars
  <2>2. phase = "boot" /\ Lists(todo, "loadmeta")
    BY <2>1, WhichPhase DEF Inv, TaskInv
  <2>3. \A t \in {"loadmeta", "decryptfs"} : \A g : ~Left(t, g)'
    BY <2>1, NotWithin
  <2>4. \A g \in Files : Booting(g)'
    BY <1>01, <2>1, <2>2, <2>3 DEF Booting, Sealed
  <2>5. QED
    BY <2>1, <2>2, <2>4, TripBoot
<1>21. CASE UNCHANGED vars
  BY <1>21, <1>00 DEF TripInv, AsLeft, Halting, Halted, Booting, Sealed, Left, Within, Running, Recorded,
                      vars, memberVars
<1>22. QED
  BY <1>00, <1>1, <1>2, <1>3, <1>4, <1>5, <1>6, <1>7, <1>8, <1>9, <1>10, <1>11, <1>12, <1>13,
     <1>14, <1>15, <1>16, <1>17, <1>18, <1>19, <1>20, <1>21 DEF Next, RunTask

\* When members rest while init runs, git tracks every file and nothing goes wrong,
\* a machine that is up again has every file as its owner left it: readable, of the
\* last version, with the mode it was given.
THEOREM RoundTripHolds ==
  ASSUME Active = FALSE, Untracked = {}
  PROVE  Spec => []RoundTrip
<1>1. Init => JsonInv /\ TripInv
  BY DEF Init, JsonInv, TripInv, AsLeft
<1>2. Inv /\ JsonInv /\ TripInv /\ [Next]_vars => TripInv'
  BY StepTrip
<1>3. TripInv => RoundTrip
  BY DEF TripInv, RoundTrip
<1>4. QED
  BY InitInv, StepInv, StepJson, <1>1, <1>2, <1>3, PTL DEF Spec
=============================================================================
