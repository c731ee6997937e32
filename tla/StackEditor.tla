----------------------------- MODULE StackEditor -----------------------------
(***************************************************************************)
(* The card editor in a browser (var/www/stack/js/app.js), and the file it *)
(* loads and saves.  Cards carry code that runs whenever they are painted, *)
(* and nothing catches what it throws: a function that paints and goes on  *)
(* is then left in the middle.  A save carries the time of the page, and   *)
(* goes through unless the file was modified after it (DiffSave has the    *)
(* server's side in detail).                                               *)
(***************************************************************************)
EXTENDS Naturals, FiniteSets

CONSTANTS
  Names,      \* names of cards
  Inherited,  \* those "in" finds in every object: toString, valueOf, constructor
  Blank,      \* the stack of a page that was given none
  Drafts,     \* stacks to import, and those that others save to the file
  Broken,     \* JSON that is no stack
  MaxTime,    \* bound: the last millisecond
  MaxWrites,  \* bound: how often the file is saved
  MaxLoads,   \* bound: answers under way at once
  MaxEdits    \* bound: how many changes are made to the stack

\* A stack: the cards, with the names they know themselves by, the home card, the
\* one that is shown, and those whose code throws.  JSON is not looked into: a home
\* may be missing, and a card may know itself by another name than its key.
Stacks ==
  {s \in [cards : UNION {[D -> Names] : D \in SUBSET Names},
          home : Names, card : Names, bad : SUBSET Names] : s.bad \subseteq DOMAIN s.cards}

\* The home card is there, and every card knows its name.
WellFormed(s) ==
  s.home \in DOMAIN s.cards /\ \A c \in DOMAIN s.cards : s.cards[c] = c

ASSUME StackAssumption ==
  /\ IsFiniteSet(Names) /\ Inherited \subseteq Names
  /\ Broken \notin Stacks
  /\ Drafts \union {Blank} \subseteq Stacks /\ WellFormed(Blank)
  /\ MaxTime \in Nat \ {0} /\ MaxWrites \in Nat /\ MaxLoads \in Nat /\ MaxEdits \in Nat

VARIABLES
  stack,     \* the stack of the page
  options,   \* the cards the tools offer
  tools,     \* the tools have handlers
  ui,        \* edit mode, how many times keys are handled, and the mode selected
  page,      \* the version of the file the stack came from, stackModifiedTime, and
             \* whether that time was set when the file still had this version
  form,      \* what the hidden fields of the form hold
  answers,   \* answers to loads that did not arrive yet
  file,      \* its content, version and modification time
  now,       \* the clock
  edits,
  threw,     \* history: some code, or the end of the program, was not reached
  clean,     \* history: only well-formed stacks came in, from the file or by import,
             \* and no card was looked up by a name every object inherits
  lost       \* history: what the last save overwrote that the page never had

content == <<stack, options>>
vars == <<content, tools, ui, page, form, answers, file, now, edits, threw, clean, lost>>

Sound(s) == s = Broken \/ WellFormed(s)
Comes(s) == clean' = (clean /\ Sound(s))

NoForm == [stack |-> Broken, base |-> 0, time |-> 0, fresh |-> FALSE]

\* The page was asked for, with a file or without one.
Init ==
  /\ stack = Broken /\ options = {} /\ tools = FALSE
  /\ ui = [edit |-> FALSE, keys |-> 0, selected |-> FALSE]
  /\ page = [base |-> 0, time |-> 0, fresh |-> FALSE] /\ form = NoForm
  /\ file \in [stack : Drafts \union {Broken}, version : {1}, mtime : {0}]
  /\ answers \in {{[stack |-> file.stack, base |-> 1]}, {[stack |-> Blank, base |-> 0]}}
  /\ now = 1 /\ edits = 0 /\ threw = FALSE /\ clean = Sound(file.stack) /\ lost = {}
-----------------------------------------------------------------------------
(* Painting. *)

EnableEdit(u) == [u EXCEPT !.edit = TRUE, !.keys = @ + 1]
EnableView(u) == [u EXCEPT !.edit = FALSE, !.keys = 0]
ToggleMode(u) == IF u.edit THEN EnableView(u) ELSE EnableEdit(u)

Paints(s, c) == c \in DOMAIN s.cards /\ c \notin s.bad

\* Variant: the mode is toggled once.
RepaintOnce(ok) == ui' = ToggleMode(ui) /\ threw' = (threw \/ ~ok)

\* repaint toggles the mode before it paints, and again after it.
Repaint(ok) ==
  /\ ui' = IF ok THEN ToggleMode(ToggleMode(ui)) ELSE ToggleMode(ui)
  /\ threw' = (threw \/ ~ok)

\* Variant: the time of the page is that of the card.
NavigateCardNow(s, c) ==
  LET ok == Paints(s, c) IN
  /\ stack' = [s EXCEPT !.card = c]
  /\ Repaint(ok)
  /\ options' = IF ok THEN DOMAIN s.cards ELSE options
  /\ page' = [page EXCEPT !.time = now]
  /\ lost' = {}
  /\ UNCHANGED <<tools, form, answers, file, now>>

\* navigateCard: the options are those of before if the card does not paint.
NavigateCard(s, c) ==
  LET ok == Paints(s, c) IN
  /\ stack' = [s EXCEPT !.card = c]
  /\ Repaint(ok)
  /\ options' = IF ok THEN DOMAIN s.cards ELSE options
  /\ lost' = {}
  /\ UNCHANGED <<tools, page, form, answers, file, now>>

\* navigateStack, when the whole stack is painted: the tools get new handlers,
\* the selected mode is enabled once more, and the time is that of now.
Opens(s, b) ==
  /\ s # Broken /\ Paints(s, s.home)
  /\ stack' = [s EXCEPT !.card = s.home]
  /\ options' = DOMAIN s.cards /\ tools' = TRUE
  /\ LET painted == ToggleMode(ToggleMode(ui)) IN
     ui' = IF ui.selected THEN EnableEdit(painted) ELSE EnableView(painted)
  /\ page' = [base |-> b, time |-> now, fresh |-> b = file.version]
  /\ UNCHANGED threw

\* navigateStack, when it is not: the tools have lost their handlers.  JSON that
\* is not even an object throws first; code of a card, before or after the new
\* card took the place of the old one.
FailsToOpen(s) ==
  /\ IF s = Broken THEN UNCHANGED stack
     ELSE LET shown == [s EXCEPT !.card = s.home] IN
          /\ ~Paints(s, s.home)
          /\ stack' \in {IF s = stack THEN shown ELSE stack}
                         \union {t \in {shown} : s.home \in DOMAIN s.cards}
  /\ ui' \in {ToggleMode(ui)} \union (IF s = Broken THEN {ui} ELSE {})
  /\ tools' = FALSE /\ threw' = TRUE
  /\ UNCHANGED <<options, page>>

NavigateStack(s, b) ==
  /\ Opens(s, b) \/ FailsToOpen(s)
  /\ lost' = {}
  /\ UNCHANGED <<form, file, now>>
-----------------------------------------------------------------------------
(* The tools. *)

SelectMode ==
  /\ tools
  /\ ui' = LET u == [ui EXCEPT !.selected = ~@] IN
           IF u.selected THEN EnableEdit(u) ELSE EnableView(u)
  /\ options' = DOMAIN stack.cards
  /\ lost' = {}
  /\ UNCHANGED <<stack, tools, page, form, answers, file, now, edits, threw, clean>>

SelectCard(c) ==
  tools /\ c \in options /\ NavigateCard(stack, c) /\ UNCHANGED <<edits, clean>>

\* "name in stack.cards".  A card looked up by an inherited name is a function of
\* the browser: it does not paint, and what the tools do to it is left out.
In(c, s) == c \in DOMAIN s.cards \union Inherited
LooksUp(c, s) == clean' = (clean /\ c \in DOMAIN s.cards)

\* A cell that links to a card: it needs no tools.
FollowLink(c) ==
  /\ stack # Broken /\ ~ui.edit
  /\ In(c, stack) /\ LooksUp(c, stack)
  /\ NavigateCard(stack, c)
  /\ UNCHANGED edits

\* The tools that change the stack are shown in edit mode.
Editing == tools /\ ui.edit /\ edits < MaxEdits /\ edits' = edits + 1

NewCard(c) ==
  /\ Editing /\ ~In(c, stack) /\ UNCHANGED clean
  /\ NavigateCard([stack EXCEPT !.cards = [k \in DOMAIN @ \union {c} |->
                                             IF k = c THEN c ELSE @[k]]], c)

\* Variant: the home stays.
RemoveCardOnly(s, c, first) ==
  LET left == DOMAIN s.cards \ {c} IN
  [s EXCEPT !.cards = [k \in left |-> @[k]], !.bad = @ \ {c}, !.card = s.cards[first]]

\* removeCard: the first card left takes the place of the one removed.
RemoveCard(s, c, first) ==
  LET left == DOMAIN s.cards \ {c}
      next == s.cards[first] IN
  [s EXCEPT !.cards = [k \in left |-> @[k]], !.bad = @ \ {c},
            !.card = IF @ = c THEN next ELSE @, !.home = IF @ = c THEN next ELSE @]

DeleteCard ==
  /\ Editing /\ Cardinality(DOMAIN stack.cards) # 1 /\ UNCHANGED clean
  /\ \E first \in DOMAIN stack.cards \ {stack.card} :
       LET s == RemoveCard(stack, stack.card, first) IN NavigateCard(s, s.home)

\* The card gets a name no other card has, and what was under the name it knew
\* itself by is deleted.
RenameCard(name) ==
  LET old == stack.cards[stack.card]
      kept == (DOMAIN stack.cards \union {name}) \ {old} IN
  /\ Editing
  /\ stack.card \in DOMAIN stack.cards /\ ~In(name, stack)
  /\ stack' = [stack EXCEPT
       !.cards = [k \in kept |-> IF k \in {name, stack.card} THEN name ELSE @[k]],
       !.bad = (IF stack.card \in @ THEN @ \union {name} ELSE @) \ {old},
       !.card = name, !.home = IF @ = old THEN name ELSE @]
  /\ options' = kept
  /\ lost' = {}
  /\ UNCHANGED <<tools, ui, page, form, answers, file, now, threw, clean>>

SetHome(name) ==
  /\ Editing /\ In(name, stack) /\ LooksUp(name, stack)
  /\ stack' = [stack EXCEPT !.home = name]
  /\ lost' = {}
  /\ UNCHANGED <<options, tools, ui, page, form, answers, file, now, threw>>

\* Code of the card is parsed, and run when the card is painted.
SetCode ==
  /\ Editing /\ stack.card \in DOMAIN stack.cards
  /\ stack' = [stack EXCEPT !.bad = IF stack.card \in @ THEN @ \ {stack.card}
                                    ELSE @ \union {stack.card}]
  /\ lost' = {}
  /\ UNCHANGED <<options, tools, ui, page, form, answers, file, now, threw, clean>>

\* Another style, another text, cells moved: the card is painted again.
Redraw ==
  /\ Editing
  /\ Repaint(Paints(stack, stack.card))
  /\ lost' = {}
  /\ UNCHANGED <<stack, options, tools, page, form, answers, file, now, clean>>

Refresh ==
  tools /\ NavigateStack(stack, page.base) /\ UNCHANGED <<answers, edits, clean>>

Import(s) == Editing /\ NavigateStack(s, 0) /\ Comes(s) /\ UNCHANGED answers
-----------------------------------------------------------------------------
(* The file. *)

Load ==
  /\ tools /\ Cardinality(answers) < MaxLoads
  /\ answers' = answers \union {[stack |-> file.stack, base |-> file.version]}
  /\ lost' = {}
  /\ UNCHANGED <<content, tools, ui, page, form, file, now, edits, threw, clean>>

\* Answers arrive in any order, and replace whatever is edited.
Arrive(a) ==
  /\ NavigateStack(a.stack, a.base)
  /\ answers' = answers \ {a}
  /\ UNCHANGED <<edits, clean>>

Overwrite(s) ==
  /\ file.version <= MaxWrites
  /\ file' = [stack |-> s, version |-> file.version + 1, mtime |-> now]

\* Save Stack.  The handler fills the form; without one the form is sent as the
\* last save left it.  The server refuses when the file is newer.
Save ==
  LET sent == IF tools THEN [stack |-> stack, base |-> page.base,
                                time |-> page.time, fresh |-> page.fresh]
                 ELSE form IN
  /\ sent # NoForm
  /\ IF file.mtime > sent.time
     THEN form' = sent /\ lost' = {} /\ UNCHANGED <<file, page>>
     ELSE /\ Overwrite(sent.stack)
          /\ lost' = IF file.version = sent.base THEN {}
                     ELSE {[wrote |-> file.mtime, time |-> sent.time, fresh |-> sent.fresh]}
          /\ form' = [stack |-> sent.stack, base |-> file.version + 1,
                      time |-> sent.time, fresh |-> sent.fresh]
          /\ page' = [page EXCEPT !.base = IF tools THEN file.version + 1 ELSE @]
  /\ UNCHANGED <<content, tools, ui, answers, now, edits, threw, clean>>

SavedByOthers(s) ==
  /\ Overwrite(s) /\ Comes(s)
  /\ lost' = {}
  /\ UNCHANGED <<content, tools, ui, page, form, answers, now, edits, threw>>

Tick ==
  /\ now < MaxTime /\ now' = now + 1
  /\ lost' = {}
  /\ UNCHANGED <<content, tools, ui, page, form, answers, file, edits, threw, clean>>

Next ==
  \/ SelectMode \/ DeleteCard \/ SetCode \/ Redraw \/ Refresh \/ Load \/ Save \/ Tick
  \/ \E c \in Names :
       SelectCard(c) \/ FollowLink(c) \/ NewCard(c) \/ RenameCard(c) \/ SetHome(c)
  \/ \E s \in Drafts \union {Broken} : Import(s) \/ SavedByOthers(s)
  \/ \E a \in answers : Arrive(a)

Spec == Init /\ [][Next]_vars
-----------------------------------------------------------------------------
Texts == Stacks \union {Broken}
Bases == 0 .. MaxWrites + 1
Stamps == [base : Bases, time : 0 .. MaxTime, fresh : BOOLEAN]

TypeOK ==
  /\ stack \in Texts /\ options \subseteq Names /\ tools \in BOOLEAN
  /\ ui \in [edit : BOOLEAN, keys : Nat, selected : BOOLEAN]
  /\ page \in Stamps
  /\ form \in [stack : Texts, base : Bases, time : 0 .. MaxTime, fresh : BOOLEAN]
  /\ answers \subseteq [stack : Texts, base : Bases]
  /\ file \in [stack : Texts, version : Bases, mtime : 0 .. MaxTime]
  /\ now \in 0 .. MaxTime /\ edits \in 0 .. MaxEdits
  /\ threw \in BOOLEAN /\ clean \in BOOLEAN
  /\ lost \subseteq [wrote : 0 .. MaxTime, time : 0 .. MaxTime, fresh : BOOLEAN]

\* Whatever is renamed and removed, and whatever throws, the tools break no stack:
\* as long as only well-formed ones came in and no inherited name was looked up,
\* the stack has its home card, a card goes by its own name (removeCard and setname
\* rely on it), and if nothing threw the card of the page exists.  For any stack,
\* the tools offer the cards there are, if nothing threw.
Navigable ==
  stack # Broken =>
    /\ ~threw => options = DOMAIN stack.cards
    /\ clean => /\ WellFormed(stack)
                /\ ~threw => stack.card \in DOMAIN stack.cards

\* Keys are handled in edit mode and in no other, and at most twice: enableEdit
\* adds handlers and removes none, so a stack that is opened in edit mode has
\* two, but the next card has one again.  As long as nothing threw, the mode is
\* the one selected (repaint toggles it twice).
KeysFollowMode ==
  /\ ui.edit <=> ui.keys > 0
  /\ ui.keys <= 2
  /\ ~threw => ui.edit = ui.selected

\* A save that passes the comparison of the times overwrites nothing but what
\* its page came from, if the file still had that version when the time was set,
\* or was changed in that very millisecond.  The time is that of the painting
\* (bumpModifiedTime): an answer that comes late, or Refresh, makes an old stack
\* look new.
StampProtects == \A l \in lost : l.fresh => l.wrote = l.time
-----------------------------------------------------------------------------
\* The card of the page exists, whatever stack came in: not when a card is renamed
\* to the name it knows itself by already (app.js 587-602).
CardIsThere == stack # Broken /\ ~threw => stack.card \in DOMAIN stack.cards
=============================================================================
