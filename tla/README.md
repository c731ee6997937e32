# A verification project for hackerunion/root

`hackerunion/root` is the root file system (`/srv`) of a community server.  A node
"kernel" (a git submodule, not part of this repository) runs the programs of the
tree as CGI processes of the logged-in user; a git agent commits what they change.
What the repository itself contains is a set of small programs that share files:
shell scripts that boot the machine, manage users and encrypt private files,
node CGI programs for events, announcements, diffs and applications, two browser
applications (a shell and a card editor), a vendored lock-file library, and an
archived Django portal with mentorship, bulletins and mailing lists.

Almost every program is short, runs to completion in milliseconds, and is correct when
it runs alone.  What is hard is everything between programs: who else has the
file open, who was killed with a lock, what was read before the lock, in which
order the boot runs its steps.  That is what the modules are about.

## 1. The system

| Part | Source | State | Operations | Talks to |
|---|---|---|---|---|
| Events RSVP | `var/www/events/index.cgi` | `events.json`, `events.lock` | POST (lock, load, answer, write, unlock), GET | lock-file library |
| Announce | `var/www/announce/{index.cgi,lib.js,dispatch}` | `database.json`, `announce.lock`, mail that left | announce, vote by token, save topics, view; cron: dispatch | lock-file library, `bin/contact`, `etc/passwd.json` |
| Lock-file library | `lib/js/lockfile.js` | lock files, the table of locks of each process | lock, lockSync, unlock, check, exit listener | every node program |
| Boot and halt | `sbin/init`, `etc/init.json`, `sbin/{fsck,savemeta,loadmeta,encryptfs,decryptfs}` | file contents and modes, `etc/permissions.acl` | `init boot`, `init halt` | git agent, gpg, setfacl |
| Accounts | `sbin/{creategroups,createusers,modusers,savegroups,saveusers,sync}` | `/etc/passwd`, `/etc/group`, `etc/passwd.json`, `etc/group.json` | create, modify, save, sync | boot and halt, `decide` |
| Applications | `home/guest/apply/index.cgi`, `home/server/bin/decide` | the data file, the log, accounts, `etc/contact.json`, mail | apply; decide: accept, reject, email, skip, delete | useradd, mail |
| Diff and save | `var/www/diff/index.cgi` | any file; the page in each browser | show, save, refuse | card editor |
| Card editor | `var/www/stack/` | a stack of cards in the browser | add, remove, rename, shift, import, save | diff |
| Browser shell | `var/www/shell/js/` | working directory, cache, handlers | cd, ls, cat, exec, edit | `cgi-bin/*`, diff |
| Archived portal | `home/server/portal.old/.../petri` | a relational database | registration, mentorship requests, bulletins, mailing lists | mail gateway |
| Helpers | `lib/js/body.js`, `bin/*`, `cgi-bin/*`, `lib/c/super` | none of their own | print, parse, mail | everything above |

How they interact: by files, never by calls.  A web request, a cron job, an
administrator's session and the boot are processes of their own that read a file,
compute, and write it back; some of them take a lock file, in an order that is not
always the right one.  `init halt` and the git agent move the whole tree, and with it
the databases of all the others, through a commit and back.

What is hard, and at which part:

- *interleavings at system calls*: all node programs; a write is a truncation and a
  write, and whoever reads in between finds an empty file (Events, Announce, Diff).
- *what was read before the lock*: Announce reads its database, then tries the lock
  and goes on without it when it is taken.
- *orphaned locks*: a killed process leaves its lock file; the library takes stale
  locks over with a second lock, and that one with a third.
- *order of the boot*: permissions have to be recorded before files are replaced, and
  restored before files are decrypted.
- *crashes*: between truncation and write of an encrypted file, between a mail and the
  database that remembers it, between an account and the log that names it.
- *lists that are saved while they change*: accounts are made between the two files of a
  halt, and a list that cannot be parsed stops the next boot before it makes any account.
- *answers that come late, code that throws*: a stack is replaced by the answer of a load
  while it is edited, and a card's own code may end any function that paints it.
- *old copies*: a request of the portal saves all the fields of a profile it loaded earlier.
- *a human in the middle*: `decide` holds the data file in its hands while a reviewer
  thinks and more people apply; a page of `diff` is reviewed while others save.

What makes each part correct, in one line each: an RSVP that was answered 200 is in the
table exactly once; a token votes once and nobody gets the same announcement twice; one
process holds a lock, and an orphaned one is recovered; a file survives a cycle of halt
and boot as its owner left it, and is never readable to others when it is private;
nobody's application is lost, decided twice or answered with the wrong password;
nobody overwrites a text nobody showed them; an account survives a cycle with its
password and its groups; a stack can always be navigated; moderators lead, mentees are
led by somebody who does, and nobody leads more than the limit.

## 2. Modules

All modules follow the same conventions.  A process is a slot with a program counter
`pc`; an action is one system call together with the computation up to the next one
(node is single-threaded, so nothing else can be seen of it).  `Torn` is a file that was
truncated and not yet rewritten.  A variable marked *history* is not in the code: it
remembers what a property has to compare with.  A definition introduced by *Variant* is
not part of the specification: it is a plausible mistake in the definition after it, and
shows that the property named for it can fail.

**`RsvpTable`, `AtomicRsvp`, `Events`, `EventsProofs`.**  `RsvpTable` is the table
`events.json` holds.  `AtomicRsvp` is what the page promises: each request takes effect
in one step or answers an error.  `Events` is the handler, call by call: `Lock` (line 31),
`Load` (36), the early returns, which leave with the lock taken, `Truncate` and
`Write` (55), the unlock, and `Exit`, which runs the exit listener of the library.  `Kill`
may come at any step and a write may fail.  `Events` is shown to implement `AtomicRsvp`
under the mapping that takes the table from the memory of the writer
as soon as the file is truncated: that is the instant at which an RSVP takes effect, or
the table is lost.

**`Reputation`, `Votes`, `Announce`, `AnnounceProofs`.**  `Reputation` is the arithmetic of `lib.js`, in
ten-thousandths; it is exact enough to tell any two scores of the counts in question
apart.  `Votes` walks a profile through all numbers of votes.  `Announce` is the web
handlers and the cron job: `BeginWeb` and `BeginDispatch` read the database, `Lock` tries
the lock and ignores the outcome, one action per handler changes the copy, then
`Truncate`, `Write`, `Unlock`, `Exit`.  Two quirks of JavaScript decide who gets mail and
are modelled as what they do: `"general" in topics` tests an index of a list
(`TargetUsers`), and an array is true in a condition when it is empty (`Truthy`);
`processQueue` splices the list it walks over, so the task behind an expired one is not
visited (`SkipExpired`).  Which recipients a broadcast has is any sample of the right
size; `MailTask` lets any of their mails fail, which `dispatch` catches (39) and counts like
the others (44, 47), so `sent` is what was tried and `left` says what left.

**`LockFile`, `LockFileProofs`.**  `lock` with retries, `wait`, stale times and takeover, `lockSync`,
`unlock`, the exit listener and kills.  Files are numbered by level: the lock that guards
the takeover of level *n* is level *n + 1* (`path.STALE`, `path.STALE.STALE`, ...).  Time
is abstracted to *fresh* and *stale*, and `Age` may come at any moment once the owner has
gone.  `guarded` is `hasStaleLock`; `stale` is `opts.stale`, one object for all levels and
retries of a call, which the code clears when it finds a file gone (201, `Vanished`): from then
on any age is above it, so a caller that gets the `.STALE` lock after all removes a fresh
lock (`TakenForStale`).  `gone` is a history of that.  `locks` is the table, which keeps
`path.STALE` and not `path` after a takeover, as the code does.

**`InitOrder`, `Machine`, `MachineProofs`.**  `InitOrder` is the list of tasks of `etc/init.json` and
the textual sort of `sbin/init`.  `Machine` follows files through halt, commit, deployment
(in place or in a fresh clone, where git restores no modes) and boot: `savemeta` and
`loadmeta` file by file, `createusers` with its `chmod -R o+r` of every home (`OpenMode`),
`encryptfs` with its `mv`, `decryptfs` with its truncate-and-copy,
`fsck`, and a runner that stops after a failing task and still exits 0.  `Crash` may come
at any step.  `PassedOver` are the files that `encryptfs` never encrypts: it looks for PGP
in all that `file` prints of them, the path included (11), and splits paths at blanks (10).
What the account tasks do to accounts is left out here and is in `Accounts`; the others take a step.
`Machine` takes any two lists of tasks for boot and halt; `OrderAssumption` says what it
needs of their order, and TLC evaluates it on the order that `InitOrder` computes from
`etc/init.json`.

**`Applications`, with its proofs in `MembershipProofs`.**  `Apply` appends a line, whoever is reading.
`decide` is followed line by line: `Read`, `EndOfFile`, `Choose`, one action for each of
its answers, the mail that may fail, `UserAdd`, which may fail after the mail left, the
contact list, the log, and the rewrite of the data file in two halves (`Truncate`,
`Write`), during which `Apply` may append.  The specification is `AppSpec` (with `AppInit`
and `AppNext`), because its proofs share a module with those of `Accounts`.  `Kill` is a closed terminal.  `continue`
inside the functions of the script goes on with the loop of its caller, as bash before 4.4
does.

**`DiffSave`, `DiffSaveProofs`.**  A request of `var/www/diff` is stat, read, then a refusal or a
truncation and a write; a page carries the time with which the next save compares.
`OpenPage` and `Stamp` are `doDiff`, whose time comes from the card editor or from the
moment of the answer; `PressSave`, `Refuse`, `Accept`, `Truncate`, `Write`, `Saved` and
`WriteFails` are `doSave`.  A write over a text that came in between may leave the tail of
the longer one.

**`Accounts`, with its proofs in `MembershipProofs`.**  The account tasks of boot, halt and `sync`, while
members and administrators change what they save.  `users`, `groups` and `member` are the
machine; `group` and `passwd` are the two lists in `etc/`.  `savegroups` and `saveusers`
read into a temporary file (`RenderGroups`, `RenderUsers`, which truncate the list: the
redirection is opened before the text is there) and write it (`SaveGroups`, `SaveUsers`).  `useradd`
fails for an account whose group is missing (`CreateUsers`); `saveusers` finds the password
with `grep "^name"`, so a name that begins another makes the list invalid (`Clash`, and
`Begins` says which names do); `modusers` drops members whose name contains that of the
group (`Within`).  `Fsck` rejects an invalid list and ends the boot, and the machine is
up all the same, without accounts.  `Deploy` commits and boots the same machine or a new one; `Crash`
may come at any step, and the files of the machine or of the last commit come back.

**`StackEditor`, `StackEditorProofs`.**  The card editor in the browser: the cards of a
stack with their own names, the home and the current card (`NewCard`, `RemoveCard`,
`RenameCard`, `SetHome`).  JSON is not looked into when it is loaded or imported, so a stack is
any record of cards (`Stacks`), well formed or not, or something that is no stack at all;
and `name in stack.cards` finds what every object inherits (`In`).  `clean` is a history: only
well-formed stacks came in, and no inherited name was looked up.  Then there is painting
(`NavigateCard`, `NavigateStack`) with the double toggle
of the mode, the handlers of keys and tools, loads whose answers arrive late (`Load`,
`Arrive`), imports, and the form that is sent to `diff` (`Save`).  Code of a card
that throws ends the function that painted it: `FailsToOpen` is `navigateStack` up to
that point, and `threw` remembers that it happened.  `page` and `form` carry the
version a stack came from, which the code does not know, and the time, which it uses instead.

**`Mentorship`, `MentorshipProofs`.**  Leaders, mentees and requests in the archived
portal, as web requests that load profiles, check, and then save: `job` holds what a
process of the server has loaded and what it does next, and every `save()` is a step
(`Insert`, `Answer`, `Activate`, `Store`, `Demote`, `Free`, `Pair`).  There is no
transaction around a request (`settings.py` 152-163 has no such middleware), so `Die` may
leave the first saves of a request behind: a mail that is refused raises, and `approve`
mails between the answer and its effect.  A save writes all fields of the copy (`Store`).

The modules `MC*` give the constants values: a handful of users, files or processes.

## 3. Runs

| Run | Instance | What it shows |
|---|---|---|
| `events` | 2 requests by 2 users for one event or for an unknown id, 1 kill, 1 failed write | the lock excludes; no RSVP is lost or applied twice; only a kill orphans the lock; every request ends; the handler implements `AtomicRsvp` |
| `votes` | all profiles with up to 12 votes of each kind | every score has a grade; an upvote raises the score, and from two good votes on a downvote lowers it |
| `announce_serial` | 1 author, 3 readers, no overlap, 3 web requests, 1 failed mail, 1 cool-down | tokens vote once; nobody is mailed twice; totals count the mails that were tried, failed ones included; the queue drains under recurring cron jobs |
| `announce_races` | 1 author, 2 readers, 2 overlapping processes, 3 web requests, 1 kill, 1 failed write, 1 failed mail | what survives every race: tokens and votes balance, the spool matches the announcements, the cool-down is kept |
| `announce_token_twice` | as above, clicks on one link | **fails** `TokenVotesOnce` (finding 1) |
| `lockfile` | 3 callers of `lock` or of `lockSync`, one retry, 3 levels of `.STALE`, 1 kill, 1 exit | until a `.STALE` file is found gone, a holder keeps its lock and a stale lock has one taker; an orphaned lock is recovered in any case |
| `machine` | 3 files, at home, elsewhere, and one that `encryptfs` passes over, 3 edits, in place and fresh clone, 1 crash, 1 failure of `gpg -d` or `setfacl` | a cycle of halt and boot is invisible; nothing private is exposed or committed in plain text but what is passed over; the last version survives; decryption waits for permissions; a machine that halts comes up |
| `accounts` | 2 names, one beginning the other, 2 shared groups, 1 change of password each, 3 halts or syncs, 2 crashes | unless a boot stopped at `fsck`, accounts, passwords and memberships of the last committed halt are back; whoever has an account has its group and is a member |
| `applications` | 2 applications, 2 addresses, 2 logins, 2 sessions, 1 kill | nothing is lost but by the rewrite; nothing is decided twice; accounts, mails, contacts and log agree |
| `diff_save` | 2 people, 3 milliseconds, one finished save and what was under way, 1 kill or failed write | a text is overwritten unseen only in the windows the code leaves; a reviewed page protects all but the same millisecond; a review leads to a save |
| `stack_editor` | 4 names, one of them inherited, a stack that is not well formed, 2 edits, 2 saves, 1 answer under way, 2 milliseconds | the tools offer the cards there are, and break no well-formed stack: home and the current card exist; keys are handled in edit mode and at most twice; a time that was set on the current version protects what is saved later |
| `mentorship` | a moderator, a member and an applicant, 1 mentee each, 5 web requests in 2 processes, any of them failing anywhere | moderators lead; mentees are led; the limit is exceeded by overlapping requests only; answers and statuses agree; no promotion leaves a leader with a leader, and a leader gets one only from the answer to an own request |

Why the bounds are enough.  Two processes are enough for every race on one file that
the code has: each step of a process looks at the file, at the lock and at itself, and
never at how many others there are; `lockfile` has a third because a takeover is a race
between two that a third may have caused.  One kill or failed write puts a system into the state
after a fault; what a second one adds is the same fault from the state after the first,
and in `lockfile` and `applications` the runs go on long enough after the first to be that state's
successor.  A task of `announce` is broadcast at most three times (`ttl`), a stale lock
needs one level more than takeovers that overlap, and a file of `machine` has a version
before, during and after a cycle.  In `diff_save` three instants are before, at and after
a time, which is all that a comparison of times can tell apart.  `votes` stops at twelve
because the formula is rounded to ten-thousandths; the counts of a small community are
below that.  In `accounts` two names are all that a prefix or a substring relates, and two
crashes with three halts put each file out of step with the other, repair it, and do
it again; `mentorship` has one mentee as the limit, so that the second is one too many,
and five requests make a chain from an application to a promotion, an answer and a
resignation; `stack_editor` has a card that exists, one to be added, one to be
renamed to, and an inherited name.  Larger instances hold as well: three names in
`accounts` (1.0 million
states, two halts, one crash), three processes in `mentorship` (1.1 million, up to
symmetry), and, with three names, one of them inherited, three edits, three milliseconds or
two answers under way in `stack_editor` (15.7, 10.5 and 7.5 million).

The type invariants are not among the properties of the runs: eight of them are proved
(section 4), and that of `Announce` holds in the same instances (add `INVARIANT TypeOK`),
as does `QueuedIsKept` in `AnnounceSerial.cfg`.  The invariants that carry the proofs
(section 4) hold in the instances of the runs as well: those of `Announce` in
`AnnounceRaces.cfg` (`Inv`, 5.9 million states) and `AnnounceSerial.cfg` (`Inv` and
`SerialInv`, 399 thousand, and 473 thousand when a write may fail).

Deadlock is checked in every run but four: the profile of `votes` ends at its bound, the
processes of `mentorship` rest when its web requests are used up, a machine of `accounts`
may stay up, and a page of `stack_editor` without handlers may stay as it is.  Where a
system may come to rest, `Rest` (or `Done`) is a step that changes nothing and is possible
only when no process is at work, so a process that gets stuck is still a deadlock.

### Fairness

Safety is checked without fairness.  Liveness assumes, in each module:

- `Events`: weak fairness of every process that was not killed.  The handler never
  waits: `lockSync` without options throws at once, so the scheduler is all it needs.
- `Announce`: weak fairness of `Run` and of `Dispatch`; `etc/crontab.json` starts the
  cron job for ever, and a process runs to its end.
- `LockFile`: weak fairness of the steps of a process, of new requests, and of time
  (`Age`).  The callers retry, by a timer of node or by being called again.
- `Machine`: weak fairness of the running script, of the agent that deploys what it
  committed, and of an operator who turns the machine on.
- `DiffSave`: weak fairness of a request, and of a user who was asked to "review and hit
  save again" and does.  Somebody who saves for ever could refuse a reviewer for ever;
  `MaxTime` bounds that, and the property says that the refusals end when the others stop.

### Findings

1. `announce_token_twice`: `index.cgi` reads the database (154) before it takes the lock
   (167), and `lockDatabase` swallows a failure to take it (`lib.js` 114-120).  Two overlapping clicks both
   vote.  By the same race a queued announcement is lost after "Message queued!"
   (`AnnounceQueuedLost.cfg`, `lib.js` 125, `index.cgi` 80).
2. `encryptfs` (19) drops its temporary file when gpg fails, goes on, and exits 0; the
   agent commits the plain text (`MachinePlainPushed.cfg`).
3. `decide` (283) replaces the data file by the lines it kept; what `apply` appended after
   the loop met the end of the file is gone (`ApplicationsLost.cfg`).
4. `readWithMetadata` (`diff/index.cgi` 55) stores the result of comparing contents in a
   property of the buffer, and `doSave` (78) looks at another one (`DiffSaveContent.cfg`).
5. `encryptfs` (11) looks for PGP in all that `file` prints, the path included: a closed file
   in a directory `pgp`, or a key block, is committed in plain text (`MachinePassedOver.cfg`).
6. `lock` clears `opts.stale` (201) for all levels of a call, and `age <= false` (210) is never
   true of an age above zero: two callers can get one lock (`LockFileStaleCleared.cfg`).

Configurations that are kept next to the runs and violate one property each, on purpose:

| Configuration | Violated | Because |
|---|---|---|
| `AnnounceQueuedLost.cfg` | `QueuedIsKept` | see finding 1 |
| `AnnounceUnsubscribe.cfg` | `UnsubscribedGetNoMail` | an empty intersection is true (`lib.js` 214 against `database.json` 11) |
| `MachinePlainPushed.cfg` | `PushedPrivateIsEncrypted` | see finding 2; the guide says such a file "will be encrypted" (README of the repository, 397) |
| `ApplicationsLost.cfg` | `SavedIsKept` | see finding 3; `apply` said "Your request has been saved!" (47) |
| `DiffSaveContent.cfg` | `ContentIsCompared` | see finding 4; "attempt to compare original with current data" (53) |
| `LockFileStaleCleared.cfg` | `AssertsStale` | `opts.stale` is false after a `.STALE` file was found gone (201), and every age is above it (210): a fresh lock is unlinked, against step 4 of the algorithm (191) |
| `LockFileLeftBehind.cfg` | `FailureCleansUp` | a takeover that finds the lock fresh returns without removing `.STALE` (210 against 195) |
| `LockFileExitUnlinks.cfg` | `ExitRemovesOwn` | after a takeover the table names `path.STALE`, which may be another's by then (218 against 66) |
| `LockFileSync.cfg` | `HoldersHaveIt` | `lockSync` looks and unlinks in two calls (280-291) |
| `MachinePassedOver.cfg` | `PrivateIsNeverPushedPlain` | `encryptfs` (11) takes a file with PGP in its path, or a key block, for encrypted (README of the repository, 397) |
| `MachineStaleModes.cfg` | `ModesAreApplied` | after a crash the modes of the last halt are restored (README of the repository, 402) |
| `MachineUntracked.cfg` | `RoundTrip` | `savemeta` (8) skips paths with `node_modules`, `private` does not |
| `MachineLostEdit.cfg` | `ContentNotLost` | a save between `gpg` and `mv` (`encryptfs` 17-18) is overwritten |
| `MachineTwoCrashes.cfg` | `ContentNotLost` | a crash in a halt leaves a file encrypted and uncommitted, and a second one meets it cut by the copy of `decryptfs` (24) in the boot after it |
| `StackEditorAnyStack.cfg` | `CardIsThere` | a card under another key than its name opens normally, and a rename deletes by the name: renamed to the name it has already, the entry just made is gone (`app.js` 587-602) |

Three more formulas are false without a configuration of their own; put in the place of the
properties of a run, they fail there: `BroadcastNeedsRise` in `AnnounceSerial.cfg` (a task is
broadcast again when the score stayed the same, `dispatch` 24 against its comment in 23),
`DownvoteNeverRaisesReach` in `Votes.cfg` (the first downvotes raise the score of a profile with
few votes, against `templates/index.jade` 38-39), and `RunsInPriorityOrder` in `Machine.cfg`
(`sort -u` compares `10:` and `1:` as text, so `rc`, `init.json` 84, is started second,
`init` 45).

What else was found while modelling, and is part of the models without a configuration
of its own:

- *decide*: a line of another version is not kept when the reviewer is told it is
  skipped (180-183), and the welcome mail is sent before `useradd` is tried (233), so a
  failed account has a mail with a password that opens nothing; `WelcomeOpensAccount`
  states what does hold, the converse.
- *accounts*: a boot that stops at `fsck` leaves a machine that is up without accounts,
  because `exit 2` (`init` 29) leaves only the subshell of the pipe, and the next halt
  overwrites both lists with empty ones; only the history of the repository has them then
  (`stopped`).  A name that begins another one gets two passwords and a line end in a JSON
  string (`saveusers` 29), and brings that about.  An account made between `savegroups` and
  `saveusers` is listed without its group, and `createusers` never makes it again; a crash
  between the two files leaves a group without its user, and `decide` can never accept that
  name (`useradd` refuses a group there is).  `createusers` (10) loses the flag of services,
  for it asks `field` without the list; and run by `sync`, it opens the homes to everybody
  (26), with no `loadmeta` after it.
- *announce*: a mail that fails is logged and counted (`dispatch` 39-47): its recipient is not
  tried again, and the total of the author grows.
- *card editor*: Refresh and answers of loads set `stackModifiedTime` to now (`app.js` 175)
  although nothing, or something old, was read, so `diff` finds no conflict with what was saved
  before.  After an import or a load that throws, the tools have no handlers, and the
  form of `diff` is sent with what was saved last.  A second save of the same page conflicts
  with its own first.
- *mentorship*: a leader may answer the own open request and become the own mentee;
  "Leaders cannot seek new mentors." (`leadership/forms.py` 149) is not asked when the
  request is answered.  A ban never ends: it frees the mentees, and then `self.chapter =
  None` (`account/models.py` 197) raises, for the field may not be null, so nobody is ever
  `INACTIVE`; the query that would restrict bans to own mentees (`account/forms.py` 50-57) is
  not used.  `join_request` is for members only and needs somebody who may apply, so it never
  succeeds, and an applicant whose request was canceled cannot apply again.

## 4. Theorems

The proofs are for all values of the constants, that is for any number of requests,
users, kills and failed writes.  Each module has a type invariant that is proved first (in
`AnnounceProofs` it is a part of the invariant, `Shape`).
Every safety property of the runs of these modules is a theorem, under the hypotheses that
are named below.

**`EventsProofs`**, from `EventsAssumption` and `TableAssumption` (finitely many
requests; `Torn` is not a table).

- `TypeCorrect`: `Spec => []TypeOK`.
- `MutualExclusionHolds`.  Mutual exclusion is not inductive: a process is between lock
  and unlock because its lock table says so, so `LockInv` adds that the lock file exists
  while a table names it, and that at most one table does, those of dead processes included.
  `LockInvInductive` proves that action by action, and mutual exclusion follows.
- `NoLostRsvpHolds`.  `RsvpInv` adds what the processes hold in memory: the table that a
  process is about to write is exactly one request ahead of what was applied so far.  Only
  mutual exclusion keeps that true while others write.  That an RSVP is a switch is handled
  by `OddStep`, `ToggleFlips` and `ToggleReflects`: an endpoint is in the table as it was at
  first, turned over once for each request that toggled it.
- `OrphanedOnlyByKillHolds`, by `OrphanInv`: while the lock file is there some table names
  it, and a process that ended by itself has an empty table, for its exit listener ran.
- `RefinesAtomicRsvp`, the refinement of `AtomicRsvp`, step by step.  `RefInv` says that a
  file that is about to be truncated is still the one that was read, and what status and
  effect a request has at each of its steps.  `RefinesNext` then takes each action to what
  it is for the table: a truncation lets the RSVP take effect (`Become` with the table
  turned over), a failed write or a kill in the middle of one loses the table, an answer is
  an answer, and all other steps are stutters.  `OutcomeIsLocal`, `DbIsFile` and `DbIsMemory`
  say what the mapping does while nobody, or one process, rewrites the file.  (The alternatives
  of `absOutcome` exclude each other, so that the order of a `CASE` does not matter.)

**`AnnounceProofs`**, from `AnnounceAssumption`, for any users, topics, processes and votes
at the start.

- `VotesConservedHolds`, `SpoolMatchesAnnouncementsHolds` and `CoolDownIsKeptHolds`, whatever
  processes overlap, are killed or fail to write.  A race may put an old database back, but
  what is written comes whole from one copy, so `Inv` says the same of the file and of the copy of
  every process: it is `Sound`.  `Conserved`, `Matched` and `Spaced` are the three
  properties of one database, and `Dated` is what they need besides: the links are of mails
  that left, and the announcements were made in the past.  That is why the links of a
  new mail are new in any copy, and why the last announcement is the one that the
  cool-down has to be measured from.  `VoteSound`, `AnnounceSound`, `ExpiredSound`, `BroadcastSound` and
  `OlderSound` are one each for the operations of `lib.js` and `dispatch`.
- `TokenVotesOnceHolds`, `NoDuplicateMailHolds` and `TotalsCountTriesHolds`, under `Alone`: one
  process at a time, which nobody kills; writes may fail.  (With two processes they are
  false: `AnnounceTokenTwice.cfg`.)  They relate the database to the world: `Spent` (a link that was
  answered is not valid), `Reached` (whoever got a mail is a recipient in the task, while
  it is queued) and `Counted`.  `SerialInv` says these of the copy while a process works
  (`CopyOK`), and of the file except between a mail and the write that records it
  (`Stale`, `FileOK`); a write that fails leaves no file that could be read again.  Any mail may
fail: what is counted, and not sent twice, is what was tried.

**`LockFileProofs`**, from `LockFileAssumption`, for any number of callers and levels.

- `TypeCorrect`, together with `DepthInv`: a process works on a file one level up only
  after it locked it, and a file of the highest level does not go stale, so no takeover
  climbs higher.
- `HolderKeepsLockHolds` and `OneTakeoverHolds`, for callers of `lock`, by `OwnershipInv`.
  Neither is inductive: whether a lock is safe from others depends on who may be
  about to unlink it, and a process is about to unlink because of what it saw some steps
  ago.  `OwnershipInv` says whose file is whose at every step: the holder owns the lock, a
  process in a takeover owns the `.STALE` file one level up until it removes it, the
  lock it is about to unlink is stale, and the one it linked is its own.  A fresh file has
  one owner, so two takeovers of one lock cannot be under way.  All of that is until a process
  exits or a caller finds a `.STALE` file gone (`TakeoversOnly`).  Then it is false, as
  `LockFileStaleCleared.cfg` shows, and for `lockSync` it is, as `LockFileSync.cfg` does.  A
  caller that finds the lock itself gone does no harm: with `opts.stale` cleared it looks at no
  file again, but gets the lock or waits for it.

**`MachineProofs`**, from `MachineAssumption` and `OrderAssumption`, for any number of files
and any lists of tasks.  `TypeCorrect` goes with `TaskInv`, which says where the runner is
(what is left to do in which phase, and that the saved modes come before the files that
depend on them).  The other five have hypotheses, which the run `machine` satisfies, and
configurations of section 3 show what happens without them.  All five are about members who
rest while `init` runs (`Active = FALSE`); `MachineLostEdit.cfg` shows what becomes of a save
during a halt.

- `DecryptedOnlyIfPrivateHolds`, by `DecryptInv`: `decryptfs` has only files left to visit
  that only their owner can read, and rests while modes change.
- `NeverExposedHolds`, while nothing went wrong (`Smooth`, which is part of the property) and
  but for the files that `encryptfs` passes over (`PassedOver`; `MachinePassedOver.cfg` shows
  what becomes of them),
  by `SealInv`: after `encryptfs` left a file, and until the last `loadmeta` of the next
  boot, a closed file is encrypted (`Sealed`), whatever modes a fresh clone has and `createusers`
  gives.  That `createusers` comes before `loadmeta` is in `OrderAssumption`.  `JsonInv`
  says why `fsck` does not end the boot before that.
- `RoundTripHolds`, while nothing went wrong and when git tracks every file
  (`Untracked = {}`; `MachineUntracked.cfg` is the other case), by `TripInv`, which follows
  a file through the cycle: `Halting` and `Booting` say, for each task that is to come, is at
  work or is done, what holds of the version, the cipher, the mode and the recorded mode.
- `PushedPrivateIsEncryptedHolds`, whatever crashes and whatever else fails, when `gpg` does not
  fail to encrypt (`MachinePlainPushed.cfg` shows what happens when it does), by `PushInv`: a
  mode recorded as closed is the one on disk from the end of `savemeta` to the commit, and
  such a file is encrypted when `encryptfs` left it, unless it is passed over.
- `ContentNotLostHolds`, with any failures, for one crash at most (`MaxCrashes <= 1`; a
  second one in the boot after the first loses a file, see `MachineTwoCrashes.cfg`), by
  `KeepInv`: the last version of a file is on disk or in the repository, or a copy of it is
  under way, and while the machine has not crashed a boot cuts only files that the
  repository has.

**`MembershipProofs`, of `Applications`**, from `ApplicationsAssumption`.

- `AppTypeCorrect`: the data file, the kept lines and the log are sequences of applications
  and decisions with indices in range.
- `WelcomeOpensAccountHolds`, strengthened by `Announced`: a session that is at `useradd`
  has mailed the login and the password in its hands.
- `AcceptedHaveAccountsHolds`, strengthened by `Opened`: a session between `useradd`
  and the log has made the account, and after `AddContact` the contact.
- `LostOnlyByRewriteHolds`, from `ReadLinesSettled`: what the session has read is decided,
  kept for the rewrite, or in its hands.  `StepsKeep` then goes through the actions.
- `DecidedOnceHolds`, while no session was killed, from `KnownIds`
  (every line is about somebody who applied) and `Apart`: what is unread, kept, decided and
  in the hands of the reviewer are disjoint, so no rewrite brings a decided line back.

**`DiffSaveProofs`**, from `DiffAssumption`.

- `TypeCorrect`, which includes that every page carries a time.
- `LostOnlyInWindowHolds`, strengthened by `WindowInv`: the file contains what a page or a
  request has read, or was written since; a request that was not raced still knows the
  time of the file, and after the check that time is not after the time of its page.  The
  lemmas `ShowWindow`, `OverwriteWindow` and `OthersKeep` say what an answer, a write and
  the steps of others do to it.
- `ReviewedIsProtectedHolds`, from the theorem before and `AgeInv`: the time of a page from
  the card editor, and of a refused one, is not after the moment at which its text was
  read.

**`MembershipProofs`, of `Accounts`**, from `AccountsAssumption` and `BadAssumption`.

- `WholeAccountsHolds`.  That accounts are whole is false while a boot is under way, so
  the invariant `Inv` has four parts besides the types: `Control` (which tasks may be left in
  which phase), `Lists` (in two valid lists, whoever has an account and a group is listed as
  a member), `Live` (an account has its group and its membership, or will get it from the
  list the boot reads) and `Saving` (what a halt has read is not ahead of the machine).
- `AccountsSurviveHolds`, strengthened by `Survival`: the accounts of the last committed halt are
  in the repository (`Roots`), and, unless a boot stopped at `fsck`, on the machine or in
  lists that can be read and which the tasks that are left will apply (`Lasting`).  The
  lemmas `MembersLast`, `CreateUsersLast`, `ModUsersLast`, `SavesLast` and `MachineLast` are
  one each for members, the tasks, and the machines that come and go.

**`StackEditorProofs`**, from `StackAssumption`.

- `NavigableHolds`: `Inv` says that as long as only well-formed stacks came in and no
  inherited name was looked up (`clean`), every stack is well formed wherever it is, in the page,
  the file, the form and the answers under way, or it is the JSON that is no stack.  Drafts are
  any stacks; what the tools offer is proved for all of them.
- `StampProtectsHolds`, strengthened by `StampInv`: a version that is not the one a page
  came from was written no earlier than the time that was set on the right one.
- `KeysFollowModeHolds`, strengthened by `KeysInv`, which counts the handlers after each
  toggle.

**`MentorshipProofs`**, from `MentorshipAssumption`.

- `ModeratorsLeadHolds`: not only the profiles in the table have a leader's flag under a
  moderator's, but every copy a web request holds and every save it has left to do
  (`Sound`, `TypedWith(Sound)`), because each of them may be stored over a newer one.
  `Ready` says which saves there are at which step.
- `MenteesAreLedHolds`, `LedLeadersAskedHolds` and `AnswerStandsHolds`, about requests that do
  not overlap.  The second is about steps, and needs `HeedInv` besides: a leader
  that is going to be saved with a leader has that one in the table already, or the request
  at work is the answer that gives it.  `AloneInv` says that then at most one process is at work.  `SerialInv`
  says
  what it has loaded and is going to save: `Good` is a profile whose leader leads
  and which leaves no mentee behind; `Kept` is the same of
  somebody who steps down and whose mentees are still to be freed (`KnowsMentees`);
  `StandBut` and `JoinsOnce` tie the answers to the statuses.  `SafeInsert` to `SafeResign` are
  one each for the steps of a request.  A request that fails between two saves leaves what
  these say of its next step, which is why the properties survive `Die`.
- `LimitIsKeptHolds`, whatever overlaps and fails, by `RoomInv`.  The limit is asked before
  the mentee is saved, so the number of mentees is not inductive; `Potential` is the set of
  those who have the leader, those whom a process is going to save with the leader,
  and those whose request a process is going to grant.  A step adds one at most, and only after
  the check; while requests overlap each other process may add one more (`RoomBound`).

Only model-checked:

- liveness (`EveryRequestEnds`, `QueueDrains`, `OrphanIsRecovered`, `SyncCompletes`,
  `ReviewLeadsToSave`): fairness and `ENABLED` are beyond the prover;
- `Votes`: `GradeIsDefined` and `VotesMoveScore` rest on a square root that is a fold over
  the bits of a number, and what a fold computes is an induction over data, beyond the
  prover as well;
- `Announce.TypeOK`: it bounds the votes by `MaxVotes`, which is a bound of the scores that
  are computed and of the runs; no step of the code keeps to it.  The proofs use `Shape`, the
  same types without that bound.

## 5. Not modelled, and why

- *Browser shell, bulletins and mailing lists of the portal*: planned, see below.
- *Details left out of modelled parts*: the rotation of the key in
  `decryptfs` (10-13) and a missing secret, and what `createusers` does to the modes of homes
  when `sync` runs it; `check` and `checkSync` of the lock-file
  library; in `announce` the texts, their lengths, and tokens that were never mailed; the
  GET of `events`; in `decide` lines of other versions, addresses that contain each other,
  and two sessions at once; in `diff` the clocks of browsers that differ from the server's,
  the temporary file of `stack/index.cgi` (deprecated there), and rendering; in `Accounts`
the numbers of users and groups, homes, shells and comments, accounts that an administrator
deletes, and a halt that begins while a `sync` runs; in `StackEditor` the cells of a card
with their texts, colours, links and shifts, code of the whole stack, the address of the
file, cards that are no objects, what the tools do to the function of the browser that is found
under an inherited name, and that two keys of a card that was renamed under a wrong key are
one object; in `Mentorship` questions and endorsements, a second chapter, invitations, the
lists that mails go to, and the cancel view, which always raises.  Where several reads of
one check see the same table there, or two commands of one task the same `/etc/group`, they
are one step.
- *What the models assume*: `Accounts` begins with lists in which every user has a group of
  the same name, is a member, and no name begins another, which is true of the lists in the
  repository; somebody who answers a request of `Mentorship` uses the view for its kind.
- *Helpers, `super`, read-only CGI programs*: no state that outlives one call.
- *Kernel, git agent, cron, gpg, mail*: not in the repository; external actions, modelled
  from how the scripts use them.
- *Vendored libraries, data, the home directories of members*: not this program.  That
  includes the C headers of Node 0.12 under `home/server/.node-gyp`, a cache of the package
  manager: nothing in the tree is compiled against them.

## 6. Plan

| | Modules | Composes | Abstract specification | Runs | Theorems |
|---|---|---|---|---|---|
| 1 | `Events` (done) | `RsvpTable` | `AtomicRsvp` | `events` | done, with the refinement |
| 2 | `Announce` (done) | `Reputation` | - | `votes`, `announce_*` | done, but for `Votes` |
| 3 | `LockFile` (done) | - | a lock that one process has | `lockfile` | done |
| 4 | `Machine` (done) | `InitOrder` | - | `machine` | done |
| 5 | `Applications` (done) | - | - | `applications` | done |
| 6 | `DiffSave` (done) | - | - | `diff_save` | done |
| 7 | `Accounts` (done) | - | - | `accounts` | done |
| 8 | `StackEditor` (done) | - | - | `stack_editor` | done |
| 9 | `Mentorship` (done) | - | - | `mentorship` | done |
| 10 | `Machine` with `Accounts` | both | - | `sync` opens homes, lists that cannot be read and files that stay encrypted | - |
| 11 | `ShellKernel` | - | - | replies out of order | - |
| 12 | `Bulletins`, `Lists` | `Mentorship` | - | subscriptions and broadcasts | - |

The order puts what several actors share first.  Modules to be proved about use
recursive functions and folds, no recursive operators, and have their proofs in a module
of their own.
