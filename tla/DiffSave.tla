------------------------------ MODULE DiffSave ------------------------------
(***************************************************************************)
(* Saving a file through var/www/diff.  A page shows the content of a file *)
(* next to the text somebody wants to save, and carries a time.  A save is *)
(* refused if the file was modified after that time, and the refusal shows *)
(* the new content for review.  The page is opened directly, or from the   *)
(* card editor var/www/stack, which passes the time at which the browser   *)
(* painted the stack.  Every request is a process of its own; nothing is   *)
(* locked between the look at the file and the write.                      *)
(***************************************************************************)
EXTENDS Naturals, FiniteSets

CONSTANTS
  Users,       \* everybody has a page in a browser, and a text to save
  Before,      \* the content before anybody saved
  Absent,      \* there is no file
  Torn,        \* a file that is empty, or has the end of another text
  MaxTime,     \* bound: the last millisecond of the clock
  MaxWrites,   \* bound: how many saves succeed before only refused ones go on
  MaxFaults    \* bound: how many requests are killed, and writes fail

ASSUME DiffAssumption ==
  /\ IsFiniteSet(Users)
  /\ {Before, Absent, Torn} \cap Users = {} /\ Cardinality({Before, Absent, Torn}) = 3
  /\ MaxTime \in Nat \ {0} /\ MaxWrites \in Nat /\ MaxFaults \in Nat

VARIABLES
  content,   \* the file: Before, Absent, Torn or the user whose text it is
  mtime,     \* its modification time in milliseconds
  now,       \* the clock of the server, and of the browsers
  pc,        \* what the request of a user does next
  page,      \* the page a user looks at
  buf,       \* what the request read
  stamp,     \* the time the request came with, then file.timestamp, that of its stat
  writes,    \* how many saves succeeded
  faults,
  raced,     \* history: somebody else wrote since the stat of the request
  readAt,    \* history: when buf was read
  lost       \* history: what the last step destroyed that its author never saw

process == <<pc, page, buf, stamp, raced, readAt>>
file == <<content, mtime>>
vars == <<process, file, now, writes, faults, lost>>

Contents == Users \union {Before, Absent, Torn}
Kinds == {"none", "diff", "stack", "refused", "saved", "failed"}
Steps == {"page", "stamp", "read", "truncate", "write", "saved", "dead"}
NoPage == [kind |-> "none", original |-> Absent, time |-> 0, read |-> 0]

Goto(u, from, to) == pc[u] = from /\ pc' = [pc EXCEPT ![u] = to]

\* The end of a request: what the process knew goes with it.
End(u) ==
  /\ buf' = [buf EXCEPT ![u] = Absent] /\ stamp' = [stamp EXCEPT ![u] = 0]
  /\ readAt' = [readAt EXCEPT ![u] = 0] /\ raced' = [raced EXCEPT ![u] = FALSE]
  /\ lost' = {}

\* The answer is a page.
Show(u, kind, original, time, read) ==
  /\ page' = [page EXCEPT ![u] = [kind |-> kind, original |-> original,
                                  time |-> time, read |-> read]]
  /\ pc' = [pc EXCEPT ![u] = "page"]
  /\ End(u)

Init ==
  /\ content \in {Before, Absent} /\ mtime = 0 /\ now = 1
  /\ pc = [u \in Users |-> "page"] /\ page = [u \in Users |-> NoPage]
  /\ buf = [u \in Users |-> Absent] /\ stamp = [u \in Users |-> 0]
  /\ writes = 0
  /\ faults = 0
  /\ raced = [u \in Users |-> FALSE] /\ readAt = [u \in Users |-> 0]
  /\ lost = {}
-----------------------------------------------------------------------------
\* A request for the page: doDiff reads the file.  A request of the card editor
\* carries stackModifiedTime, when the browser painted the stack, any time ago.
OpenPage(u) ==
  /\ page[u] = NoPage
  /\ Goto(u, "page", "stamp")
  /\ buf' = [buf EXCEPT ![u] = content]
  /\ readAt' = [readAt EXCEPT ![u] = now]
  /\ \E painted \in 0 .. now : stamp' = [stamp EXCEPT ![u] = painted]
  /\ lost' = {}
  /\ UNCHANGED <<page, raced, writes, file, now, faults>>

\* Variant: the time of the answer, also for a stack.
StampNow(u) ==
  /\ pc[u] = "stamp"
  /\ Show(u, IF stamp[u] > 0 THEN "stack" ELSE "diff", buf[u], now, readAt[u])
  /\ UNCHANGED <<writes, file, now, faults>>

\* doDiff answers: "timestamp || getTimestamp()" is the time of the stack,
\* or the time of the answer.
Stamp(u) ==
  /\ pc[u] = "stamp"
  /\ IF stamp[u] > 0
     THEN Show(u, "stack", buf[u], stamp[u], readAt[u])
     ELSE Show(u, "diff", buf[u], now, readAt[u])
  /\ UNCHANGED <<writes, file, now, faults>>
-----------------------------------------------------------------------------
\* Save, or Save Again: doSave looks at the time of the file ...
PressSave(u) ==
  /\ page[u].kind # "none"
  /\ page[u].kind = "refused" \/ writes < MaxWrites
  /\ Goto(u, "page", "read")
  /\ stamp' = [stamp EXCEPT ![u] = IF content = Absent THEN 0 ELSE mtime]
  /\ raced' = [raced EXCEPT ![u] = FALSE]
  /\ lost' = {}
  /\ UNCHANGED <<page, buf, writes, readAt, file, now, faults>>

Conflict(u) == stamp[u] > page[u].time

\* Variant: a refusal carries the time of the page it refuses.
RefuseThen(u) ==
  /\ Conflict(u)
  /\ pc[u] = "read"
  /\ Show(u, "refused", content, page[u].time, now)
  /\ UNCHANGED <<writes, file, now, faults>>

\* ... then its content.  "File has been modified. Please review and hit save
\* again.": the answer shows the content, with the time of the file.
Refuse(u) ==
  /\ Conflict(u)
  /\ pc[u] = "read"
  /\ Show(u, "refused", content, stamp[u], now)
  /\ UNCHANGED <<writes, file, now, faults>>

\* Variant: the times are not compared.
AcceptAlways(u) ==
  /\ Goto(u, "read", "truncate")
  /\ buf' = [buf EXCEPT ![u] = content]
  /\ readAt' = [readAt EXCEPT ![u] = now]
  /\ lost' = {}
  /\ UNCHANGED <<page, stamp, writes, raced, file, now, faults>>

\* The comparison of the contents is set on the buffer and never looked at.
Accept(u) ==
  /\ ~Conflict(u)
  /\ Goto(u, "read", "truncate")
  /\ buf' = [buf EXCEPT ![u] = content]
  /\ readAt' = [readAt EXCEPT ![u] = now]
  /\ lost' = {}
  /\ UNCHANGED <<page, stamp, writes, raced, file, now, faults>>

\* What a write of u destroys without having shown it to u, and whom it races:
\* the requests between their stat and their write.
Overwrite(u) ==
  /\ mtime' = now
  /\ raced' = [v \in Users |-> raced[v] \/ (v # u /\ pc[v] \in {"read", "truncate", "write"})]
  /\ lost' = IF content \in {page[u].original, u, Torn, Absent}
             THEN {}
             ELSE {[kind |-> page[u].kind, read |-> page[u].read, time |-> page[u].time,
                    wrote |-> mtime, raced |-> raced[u]]}

Truncate(u) ==
  /\ Goto(u, "truncate", "write")
  /\ content' = Torn
  /\ Overwrite(u)
  /\ UNCHANGED <<page, buf, stamp, writes, readAt, now, faults>>

\* The text goes to the start of the file, over a text that somebody else wrote
\* since the file was truncated; a longer one shows at the end.
Write(u) ==
  /\ Goto(u, "write", "saved")
  /\ content' \in {u} \union (IF content \in Users \ {u} THEN {Torn} ELSE {})
  /\ readAt' = [readAt EXCEPT ![u] = now]
  /\ Overwrite(u)
  /\ UNCHANGED <<page, buf, stamp, writes, now, faults>>

\* The file cannot be opened, or the disk is full: the error is shown, with the
\* content that was read, and the time of the answer.
WriteFails(u) ==
  /\ faults < MaxFaults /\ faults' = faults + 1
  /\ pc[u] \in {"truncate", "write"}
  /\ Show(u, "failed", buf[u], now, readAt[u])
  /\ UNCHANGED <<writes, file, now>>

\* "File saved!": the page shows what was saved, with the time of the answer.
Saved(u) ==
  /\ pc[u] = "saved"
  /\ Show(u, "saved", u, now, readAt[u])
  /\ writes' = writes + 1
  /\ UNCHANGED <<file, now, faults>>

Kill(u) ==
  /\ faults < MaxFaults /\ faults' = faults + 1
  /\ pc[u] \notin {"page", "dead"}
  /\ pc' = [pc EXCEPT ![u] = "dead"]
  /\ End(u)
  /\ UNCHANGED <<page, writes, file, now>>

Tick ==
  /\ now < MaxTime
  /\ now' = now + 1
  /\ lost' = {}
  /\ UNCHANGED <<process, file, writes, faults>>

\* The steps of a request, which nothing but a kill stops.
Serve(u) ==
  \/ Stamp(u) \/ Refuse(u) \/ Accept(u) \/ Truncate(u) \/ Write(u) \/ Saved(u)

\* Nobody waits for an answer.
Rest == (\A u \in Users : pc[u] \in {"page", "dead"}) /\ UNCHANGED vars

Next ==
  \/ \E u \in Users :
       OpenPage(u) \/ PressSave(u) \/ Serve(u) \/ WriteFails(u)
         \/ Kill(u)
  \/ Tick
  \/ Rest

Spec == Init /\ [][Next]_vars

\* Requests run on, and who is asked to review and hit save again does.
FairSpec ==
  /\ Spec
  /\ \A u \in Users :
       WF_vars(Serve(u)) /\ WF_vars(page[u].kind = "refused" /\ PressSave(u))
-----------------------------------------------------------------------------
TypeOK ==
  /\ content \in Contents /\ mtime \in 0 .. now /\ now \in 1 .. MaxTime
  /\ pc \in [Users -> Steps]
  /\ page \in [Users -> [kind : Kinds, original : Contents,
                         time : 0 .. now, read : 0 .. now]]
  /\ \A u \in Users : page[u].kind # "none" => page[u].time > 0
  /\ buf \in [Users -> Contents] /\ stamp \in [Users -> 0 .. now]
  /\ writes \in Nat
  /\ faults \in 0 .. MaxFaults
  /\ raced \in [Users -> BOOLEAN] /\ readAt \in [Users -> 0 .. now]
  /\ lost \subseteq [kind : Kinds, read : 0 .. now, time : 0 .. now,
                     wrote : 0 .. now, raced : BOOLEAN]

\* What is overwritten unseen was written while the request that overwrote it
\* was between stat and write, or after its page was read and not after the
\* time of that page (diff/index.cgi 43-50, 76-89, 111).
LostOnlyInWindow ==
  \A l \in lost : l.raced \/ (l.read <= l.wrote /\ l.wrote <= l.time)

\* A page whose time is older than its content protects every later change,
\* but one of the same millisecond: a page that came from the card editor, and
\* one that was refused (diff/index.cgi 76-89, 111; stack/js/app.js 170-176).
ReviewedIsProtected ==
  \A l \in lost : l.kind \in {"stack", "refused"} /\ ~l.raced => l.wrote = l.time

\* "Please review and hit save again" (diff/index.cgi 79) leads somewhere.
ReviewLeadsToSave ==
  \A u \in Users :
    page[u].kind = "refused" ~> (page[u].kind \in {"saved", "failed"} \/ pc[u] = "dead")

\* "attempt to compare original with current data" (diff/index.cgi 53): a save
\* of a page that shows something else than the file contains is not written.
ContentIsCompared ==
  \A u \in Users : pc[u] = "truncate" => buf[u] = page[u].original
=============================================================================
