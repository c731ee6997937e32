------------------------------ MODULE Machine ------------------------------
(***************************************************************************)
(* The life of the machine: sbin/init runs the boot tasks, the machine is  *)
(* up, init runs the halt tasks, the git agent commits the file system and *)
(* deploys it again.  What is followed through this cycle are files: their *)
(* content, whether it is encrypted, whether everybody may read it, and    *)
(* the list of permissions that git does not keep.  The machine may crash  *)
(* at any step.  Programs gpg and setfacl may fail where Faulty says so.   *)
(***************************************************************************)
EXTENDS Naturals, Sequences, FiniteSets

CONSTANTS
  Files,       \* the files of the members
  Homes,       \* those in the home directory of an account
  Untracked,   \* those with "node_modules" or ".git" in their path
  PassedOver,  \* those encryptfs never encrypts: "file" says PGP of their path or
               \* content (a directory pgp, a key block), or their path has a blank
  BootOrder,   \* the tasks init runs for "boot", in this order
  HaltOrder,   \* the tasks init runs for "halt", in this order
  Clones,      \* whether the agent deploys into a fresh clone, or in place
  Faulty,      \* the programs that may fail: "gpg -e", "gpg -d", "setfacl"
  Active,      \* members go on working while init runs
  MaxEdits,    \* bound: how often a member changes a file
  MaxCrashes,  \* bound: how often the machine crashes
  MaxFaults    \* bound: how often a program fails

ASSUME MachineAssumption ==
  /\ Homes \subseteq Files /\ Untracked \subseteq Files /\ PassedOver \subseteq Files
  /\ IsFiniteSet(Files)
  /\ BootOrder \in Seq(STRING) /\ HaltOrder \in Seq(STRING)
  /\ Clones \subseteq BOOLEAN /\ Active \in BOOLEAN
  /\ Faulty \subseteq {"gpg -e", "gpg -d", "setfacl"}
  /\ MaxEdits \in Nat /\ MaxCrashes \in Nat /\ MaxFaults \in Nat

\* A list of tasks names this one, and one task before the other.
Lists(order, task) == \E i \in DOMAIN order : order[i] = task
Before(order, first, second) ==
  \A i, k \in DOMAIN order : order[i] = first /\ order[k] = second => i < k

\* What etc/init.json says, and sbin/init keeps, about the order of its tasks.
ASSUME OrderAssumption ==
  /\ \A task \in {"createusers", "loadmeta", "decryptfs"} :
       Lists(BootOrder, task) /\ ~Lists(HaltOrder, task)
  /\ \A task \in {"savemeta", "encryptfs"} :
       Lists(HaltOrder, task) /\ ~Lists(BootOrder, task)
  /\ ~Lists(HaltOrder, "fsck")
  /\ Before(BootOrder, "createusers", "loadmeta")
  /\ Before(BootOrder, "loadmeta", "decryptfs")
  /\ Before(HaltOrder, "savemeta", "encryptfs")

VARIABLES
  phase,   \* what the machine is doing
  todo,    \* the lines init has not piped to the runner yet
  step,    \* where the running task is
  visit,   \* the files the running task has not come to yet
  buffer,  \* the temporary file of encryptfs and decryptfs
  data,    \* the content of each file
  world,   \* whether everybody may read it (permission 004)
  acl,     \* etc/permissions.acl
  json,    \* whether etc/passwd.json and etc/group.json can be parsed
  repo,    \* what was committed last
  kept,    \* the versions of each file that the history of git holds
  latest,  \* history: the version its owner wrote last
  open,    \* history: whether its owner wants everybody to read it
  edits, crashes, faults

repoVars == <<repo, kept>>
memberVars == <<latest, open, edits>>
bounds == <<crashes, faults>>
vars == <<phase, todo, step, visit, buffer, data, world, acl, json, repoVars,
          memberVars, bounds>>

Phases == {"boot", "up", "halt", "halted", "off"}
Content == [version : Nat, cipher : BOOLEAN]
Cut == [version |-> 0, cipher |-> FALSE]        \* truncated and not yet rewritten
Modes == {"open", "closed", "none"}
NoBuffer == [file |-> "none", version |-> 0]
Recorded(isOpen) == IF isOpen THEN "open" ELSE "closed"

Init ==
  /\ phase = "up"
  /\ todo = <<>> /\ step = "begin" /\ visit = {} /\ buffer = NoBuffer
  /\ data = [f \in Files |-> [version |-> 1, cipher |-> FALSE]]
  /\ world = [f \in Files |-> TRUE]
  /\ acl = [f \in Files |-> IF f \in Untracked THEN "none" ELSE "open"]
  /\ json = TRUE
  /\ repo = [data |-> data, acl |-> acl, json |-> json]
  /\ kept = [f \in Files |-> {1}]
  /\ latest = [f \in Files |-> 1]
  /\ open = [f \in Files |-> TRUE]
  /\ edits = 0 /\ crashes = 0 /\ faults = 0

Running(task) == phase \in {"boot", "halt"} /\ todo # <<>> /\ Head(todo) = task
InTask(task, at) == Running(task) /\ step = at
Private == {f \in Files : ~world[f]}
-----------------------------------------------------------------------------
\* Members.

MayWork == phase = "up" \/ (Active /\ phase \in {"boot", "halt"})

\* A member writes a file that is not encrypted.
Edit(f) ==
  /\ MayWork /\ edits < MaxEdits
  /\ edits' = edits + 1
  /\ data[f] = [version |-> latest[f], cipher |-> FALSE]
  /\ latest' = [latest EXCEPT ![f] = @ + 1]
  /\ data' = [data EXCEPT ![f].version = latest[f] + 1]
  /\ UNCHANGED <<phase, todo, step, visit, buffer, world, acl, json, repo,
                 kept, open, bounds>>

Chmod(f) ==
  /\ MayWork /\ edits < MaxEdits
  /\ edits' = edits + 1
  /\ world' = [world EXCEPT ![f] = ~@]
  /\ open' = [open EXCEPT ![f] = ~world[f]]
  /\ UNCHANGED <<phase, todo, step, visit, buffer, data, acl, json, repo, kept,
                 latest, bounds>>
-----------------------------------------------------------------------------
\* The runner of sbin/init.

\* The agent calls "init halt".
Halt ==
  /\ phase = "up"
  /\ phase' = "halt"
  /\ todo' = HaltOrder
  /\ step' = "begin"
  /\ UNCHANGED <<visit, buffer, data, world, acl, json, repoVars, memberVars,
                 bounds>>

\* A task starts.  What it will visit is listed now.
Begin(task, files) ==
  /\ InTask(task, "begin")
  /\ step' = "each"
  /\ visit' = files

\* Variant: fsck is run again until it succeeds.
FinishRetries ==
  /\ phase \in {"boot", "halt"} /\ todo # <<>> /\ visit = {} /\ step = "each"
  /\ todo' = IF Head(todo) = "fsck" /\ ~json THEN todo ELSE Tail(todo)
  /\ step' = "begin"
  /\ json' = (json \/ Head(todo) \in {"savegroups", "saveusers"})
  /\ UNCHANGED <<phase, visit, buffer, data, world, acl, repoVars, memberVars,
                 bounds>>

\* The running task has nothing left to do.  fsck fails when a JSON file cannot
\* be parsed, and that ends the subshell with all the tasks after it.
Finish ==
  /\ phase \in {"boot", "halt"} /\ todo # <<>> /\ visit = {} /\ step = "each"
  /\ todo' = IF Head(todo) = "fsck" /\ ~json THEN <<>> ELSE Tail(todo)
  /\ step' = "begin"
  /\ json' = (json \/ Head(todo) \in {"savegroups", "saveusers"})
  /\ UNCHANGED <<phase, visit, buffer, data, world, acl, repoVars, memberVars,
                 bounds>>

\* init exits with status 0, whatever its subshell did.
InitExits ==
  /\ phase \in {"boot", "halt"} /\ todo = <<>>
  /\ phase' = IF phase = "boot" THEN "up" ELSE "halted"
  /\ UNCHANGED <<todo, step, visit, buffer, data, world, acl, json, repoVars,
                 memberVars, bounds>>

\* Tasks that do not touch the files followed here.
OtherTasks == {"fsck", "launch", "lockfs", "creategroups", "modusers", "securefs",
               "startcron", "rc", "releasefs"}

BeginOther ==
  /\ \E task \in OtherTasks : Begin(task, {})
  /\ UNCHANGED <<phase, todo, buffer, data, world, acl, json, repoVars,
                 memberVars, bounds>>

\* savegroups and saveusers: "> $DEST" truncates the JSON file they rewrite.
BeginSaveJson ==
  /\ \E task \in {"savegroups", "saveusers"} : Begin(task, {})
  /\ json' = FALSE
  /\ UNCHANGED <<phase, todo, buffer, data, world, acl, repoVars, memberVars,
                 bounds>>
-----------------------------------------------------------------------------
\* createusers, savemeta and loadmeta.

\* createusers makes the accounts again at each boot, and then "chmod -R o+r" of
\* every home directory.
BeginCreateUsers ==
  /\ Begin("createusers", Homes)
  /\ UNCHANGED <<phase, todo, buffer, data, world, acl, json, repoVars,
                 memberVars, bounds>>

OpenMode(f) ==
  /\ InTask("createusers", "each") /\ f \in visit
  /\ visit' = visit \ {f}
  /\ world' = [world EXCEPT ![f] = TRUE]
  /\ UNCHANGED <<phase, todo, step, buffer, data, acl, json, repoVars,
                 memberVars, bounds>>

\* "> $ACL" truncates the list; find leaves out node_modules and .git.
BeginSaveMeta ==
  /\ Begin("savemeta", Files \ Untracked)
  /\ acl' = [f \in Files |-> "none"]
  /\ UNCHANGED <<phase, todo, buffer, data, world, json, repoVars, memberVars,
                 bounds>>

SaveMode(f) ==
  /\ InTask("savemeta", "each") /\ f \in visit
  /\ visit' = visit \ {f}
  /\ acl' = [acl EXCEPT ![f] = Recorded(world[f])]
  /\ UNCHANGED <<phase, todo, step, buffer, data, world, json, repoVars,
                 memberVars, bounds>>

BeginLoadMeta ==
  /\ Begin("loadmeta", {f \in Files : acl[f] # "none"})
  /\ UNCHANGED <<phase, todo, buffer, data, world, acl, json, repoVars,
                 memberVars, bounds>>

RestoreMode(f) ==
  /\ InTask("loadmeta", "each") /\ f \in visit
  /\ visit' = visit \ {f}
  /\ world' = [world EXCEPT ![f] = acl[f] = "open"]
  /\ UNCHANGED <<phase, todo, step, buffer, data, acl, json, repoVars,
                 memberVars, bounds>>

\* A program fails and the script goes on with status 0.
Fault(program) ==
  /\ program \in Faulty /\ faults < MaxFaults
  /\ faults' = faults + 1

\* setfacl gives up half-way.
RestoreFails ==
  /\ InTask("loadmeta", "each") /\ Fault("setfacl")
  /\ visit' = {}
  /\ UNCHANGED <<phase, todo, step, buffer, data, world, acl, json, repoVars,
                 memberVars, crashes>>
-----------------------------------------------------------------------------
\* encryptfs and decryptfs.

\* Variant: the test of the permission is inverted.
BeginEncryptPublic ==
  /\ Begin("encryptfs", Files \ Private)
  /\ UNCHANGED <<phase, todo, buffer, data, world, acl, json, repoVars,
                 memberVars, bounds>>

BeginEncrypt ==
  /\ Begin("encryptfs", Private)
  /\ UNCHANGED <<phase, todo, buffer, data, world, acl, json, repoVars,
                 memberVars, bounds>>

\* Variant: the files are listed without looking at their permissions.
BeginDecryptAll ==
  /\ Begin("decryptfs", Files)
  /\ UNCHANGED <<phase, todo, buffer, data, world, acl, json, repoVars,
                 memberVars, bounds>>

BeginDecrypt ==
  /\ Begin("decryptfs", Private)
  /\ UNCHANGED <<phase, todo, buffer, data, world, acl, json, repoVars,
                 memberVars, bounds>>

\* A file that is in the state the task would bring it to, or that "file" takes
\* for one; of these decryptfs has gpg try some, which refuses, and leaves them.
Skip(f) ==
  /\ \/ InTask("encryptfs", "each") /\ (data[f].cipher \/ f \in PassedOver)
     \/ InTask("decryptfs", "each") /\ ~data[f].cipher
  /\ f \in visit
  /\ visit' = visit \ {f}
  /\ UNCHANGED <<phase, todo, step, buffer, data, world, acl, json, repoVars,
                 memberVars, bounds>>

\* gpg writes its output to a temporary file.
Gpg(f) ==
  /\ \/ InTask("encryptfs", "each") /\ ~data[f].cipher /\ f \notin PassedOver
     \/ InTask("decryptfs", "each") /\ data[f].cipher
  /\ f \in visit
  /\ step' = "move"
  /\ buffer' = [file |-> f, version |-> data[f].version]
  /\ UNCHANGED <<phase, todo, visit, data, world, acl, json, repoVars,
                 memberVars, bounds>>

\* gpg fails: the file stays as it is.
GpgFails(f) ==
  /\ \/ /\ InTask("encryptfs", "each") /\ ~data[f].cipher /\ f \notin PassedOver
        /\ Fault("gpg -e")
     \/ InTask("decryptfs", "each") /\ data[f].cipher /\ Fault("gpg -d")
  /\ f \in visit
  /\ visit' = visit \ {f}
  /\ UNCHANGED <<phase, todo, step, buffer, data, world, acl, json, repoVars,
                 memberVars, crashes>>

\* Variant: encryptfs copies like decryptfs, and the file is cut meanwhile.
MoveByCopy(f) ==
  /\ InTask("encryptfs", "move") /\ buffer.file = f
  /\ step' = "copy"
  /\ data' = [data EXCEPT ![f] = Cut]
  /\ UNCHANGED <<phase, todo, visit, buffer, world, acl, json, repoVars,
                 memberVars, bounds>>

\* encryptfs: mv replaces the file by one with the mode mktemp gave it.
Move(f) ==
  /\ InTask("encryptfs", "move") /\ buffer.file = f
  /\ step' = "each"
  /\ visit' = visit \ {f}
  /\ buffer' = NoBuffer
  /\ data' = [data EXCEPT ![f] = [version |-> buffer.version, cipher |-> TRUE]]
  /\ world' = [world EXCEPT ![f] = FALSE]
  /\ UNCHANGED <<phase, todo, acl, json, repoVars, memberVars, bounds>>

\* decryptfs: "cat TMP > FILE" keeps the mode; it truncates the file first.
Truncate(f) ==
  /\ InTask("decryptfs", "move") /\ buffer.file = f
  /\ step' = "copy"
  /\ data' = [data EXCEPT ![f] = Cut]
  /\ UNCHANGED <<phase, todo, visit, buffer, world, acl, json, repoVars,
                 memberVars, bounds>>

Copy(f) ==
  /\ InTask("decryptfs", "copy") /\ buffer.file = f
  /\ step' = "each"
  /\ visit' = visit \ {f}
  /\ buffer' = NoBuffer
  /\ data' = [data EXCEPT ![f] = [version |-> buffer.version, cipher |-> FALSE]]
  /\ UNCHANGED <<phase, todo, world, acl, json, repoVars, memberVars, bounds>>
-----------------------------------------------------------------------------
\* The agent and the world.

\* Variant: the last task of the list is run first.
DeployReversed ==
  /\ phase = "halted"
  /\ repo' = [data |-> data, acl |-> acl, json |-> json]
  /\ kept' = [f \in Files |-> kept[f] \union {data[f].version}]
  /\ \E clone \in Clones :
       world' = [f \in Files |-> IF clone THEN TRUE ELSE world[f]]
  /\ phase' = "boot"
  /\ todo' = [i \in DOMAIN BootOrder |-> BootOrder[Len(BootOrder) + 1 - i]]
  /\ step' = "begin"
  /\ UNCHANGED <<visit, buffer, data, acl, json, memberVars, bounds>>

\* The agent commits what is there and calls "init boot" in what it deployed: a
\* fresh clone has the default mode for every file.
Deploy ==
  /\ phase = "halted"
  /\ repo' = [data |-> data, acl |-> acl, json |-> json]
  /\ kept' = [f \in Files |-> kept[f] \union {data[f].version}]
  /\ \E clone \in Clones :
       world' = [f \in Files |-> IF clone THEN TRUE ELSE world[f]]
  /\ phase' = "boot"
  /\ todo' = BootOrder
  /\ step' = "begin"
  /\ UNCHANGED <<visit, buffer, data, acl, json, memberVars, bounds>>

\* The machine crashes; its disk survives.
Crash ==
  /\ crashes < MaxCrashes /\ phase # "off"
  /\ crashes' = crashes + 1
  /\ phase' = "off"
  /\ todo' = <<>> /\ step' = "begin" /\ visit' = {} /\ buffer' = NoBuffer
  /\ UNCHANGED <<data, world, acl, json, repoVars, memberVars, faults>>

PowerOn ==
  /\ phase = "off"
  /\ phase' = "boot"
  /\ todo' = BootOrder
  /\ UNCHANGED <<step, visit, buffer, data, world, acl, json, repoVars,
                 memberVars, bounds>>

RunTask ==
  \/ BeginOther \/ BeginSaveJson \/ BeginCreateUsers \/ BeginSaveMeta \/ BeginLoadMeta
  \/ BeginEncrypt \/ BeginDecrypt \/ RestoreFails \/ Finish \/ InitExits
  \/ \E f \in Files : \/ OpenMode(f) \/ SaveMode(f) \/ RestoreMode(f) \/ Skip(f) \/ Gpg(f)
                      \/ GpgFails(f) \/ Move(f) \/ Truncate(f) \/ Copy(f)

Next ==
  \/ RunTask \/ Halt \/ Deploy \/ Crash \/ PowerOn
  \/ \E f \in Files : Edit(f) \/ Chmod(f)

Spec == Init /\ [][Next]_vars

\* Scripts run on, and the agent and the operator do their part.
FairSpec == Spec /\ WF_vars(RunTask) /\ WF_vars(Deploy) /\ WF_vars(PowerOn)
-----------------------------------------------------------------------------
TypeOK ==
  /\ phase \in Phases
  /\ todo \in Seq(STRING)
  /\ step \in {"begin", "each", "move", "copy"}
  /\ visit \subseteq Files
  /\ IF step \in {"move", "copy"} THEN buffer \in [file : visit, version : Nat]
                                 ELSE buffer = NoBuffer
  /\ data \in [Files -> Content]
  /\ world \in [Files -> BOOLEAN]
  /\ acl \in [Files -> Modes]
  /\ json \in BOOLEAN
  /\ kept \in [Files -> SUBSET Nat]
  /\ latest \in [Files -> Nat]
  /\ open \in [Files -> BOOLEAN]
  /\ edits \in 0 .. MaxEdits /\ crashes \in 0 .. MaxCrashes /\ faults \in 0 .. MaxFaults

\* Nothing went wrong so far.
Smooth == crashes = 0 /\ faults = 0

\* A member finds a file as it was left: readable, of the last version, with
\* the mode it was given ("Everything is Saved", README.md 346-352).
AsLeft(f) ==
  /\ data[f] = [version |-> latest[f], cipher |-> FALSE]
  /\ world[f] = open[f]

\* A whole cycle of halt, commit, deployment and boot changes nothing a member
\* can see: the mode is saved before encryptfs replaces the file, and restored
\* before decryptfs lists the private ones (etc/init.json 50-64, 91-121).
RoundTrip == phase = "up" /\ Smooth => \A f \in Files : AsLeft(f)

\* What a member closed is never on disk, readable and in plain text, not even
\* in the fresh clone, or after the chmod of createusers, before its modes are
\* restored: for all files but those encryptfs passes over.
NeverExposed ==
  Smooth => \A f \in Files \ PassedOver :
              world[f] /\ ~data[f].cipher /\ data[f].version > 0 => open[f]

\* "If a file is not "world readable", it will be encrypted ... Once encrypted,
\* the file will be committed" (README.md 397-400): no plain text of a file that
\* is recorded as closed is in the repository, as long as gpg encrypts (Faulty),
\* and but for the files encryptfs passes over.
PushedPrivateIsEncrypted ==
  \A f \in Files \ PassedOver : repo.acl[f] = "closed" => repo.data[f].cipher

\* "so they aren't lost" (README.md 351): the last version of a file is on disk,
\* in the history of git or about to be copied, one crash at any point included.
ContentNotLost ==
  \A f \in Files :
    \/ latest[f] \in kept[f] \union {data[f].version}
    \/ buffer = [file |-> f, version |-> latest[f]]

\* "Files are only decrypted once permissions have been restored" (README.md
\* 406): the copy that replaces a cipher text is one only its owner can read.
DecryptedOnlyIfPrivate ==
  [][\A f \in Files :
       ~data'[f].cipher /\ data'[f].version > 0 /\ (data[f].cipher \/ data[f] = Cut)
         => ~world[f]]_vars

\* The agent waits for init: a machine that halts comes up again.
SyncCompletes == phase = "halt" ~> phase = "up"
-----------------------------------------------------------------------------
\* "Permissions are tracked and recorded ... and are saved and applied whenever
\* the server is synchronized" (README.md 402-404): after a boot a file has the
\* mode its owner gave it.
ModesAreApplied == phase = "up" => world = open

\* The same words of README.md 397-400, of every file.
PrivateIsNeverPushedPlain ==
  \A f \in Files : repo.acl[f] = "closed" => repo.data[f].cipher
=============================================================================
