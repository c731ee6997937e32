-------------------------- MODULE StackEditorProofs --------------------------
(***************************************************************************)
(* Proofs about StackEditor, for any names, drafts and bounds: type        *)
(* correctness, that the stack of the page can be navigated, that the      *)
(* handlers of the keys follow the mode of the page, and that the time of  *)
(* a page protects what was saved since. The invariant says that, until    *)
(* one comes in that is not, every stack is well formed wherever it is: in *)
(* the page, in the file, in the fields of the form and in an answer under *)
(* way; and that another version than the one a page came from is not      *)
(* older than a time set on the right one.                                 *)
(***************************************************************************)
EXTENDS StackEditor, TLAPS

\* A stack that is well formed, or no stack, unless one that is not came in.
Fine(s) == s \in Texts /\ (clean => Sound(s))

\* The tools offer the cards there are, and the card of the page is one of them.
Shown ==
  /\ options = DOMAIN stack.cards
  /\ clean => stack.card \in DOMAIN stack.cards

\* What came in stays known.
StaysKnown == clean' \in BOOLEAN /\ (clean' => clean)

Inv ==
  /\ TypeOK
  /\ Fine(stack) /\ Fine(file.stack) /\ Fine(form.stack)
  /\ \A a \in answers : Fine(a.stack)
  /\ tools => stack # Broken
  /\ (stack # Broken /\ ~threw) => Shown

LEMMA InitInv == Init => Inv
<1> SUFFICES ASSUME Init PROVE Inv
  OBVIOUS
<1> USE StackAssumption DEF Init
<1>1. Blank \in Stacks /\ WellFormed(Blank) /\ Drafts \subseteq Stacks
  OBVIOUS
<1>2. /\ file \in [stack : Texts, version : Bases, mtime : 0 .. MaxTime]
      /\ file.stack \in Drafts \union {Broken} /\ (clean <=> Sound(file.stack))
      /\ file.version = 1
  BY <1>1 DEF Texts, Bases
<1>3. /\ answers \subseteq [stack : Texts, base : Bases]
      /\ \A a \in answers : Fine(a.stack)
  BY <1>1, <1>2 DEF Texts, Bases, Fine, Sound
<1>4. page \in Stamps
      /\ form \in [stack : Texts, base : Bases, time : 0 .. MaxTime, fresh : BOOLEAN]
  BY DEF Stamps, NoForm, Texts, Bases
<1>5. TypeOK
  <2>1. /\ ui \in [edit : BOOLEAN, keys : Nat, selected : BOOLEAN]
        /\ stack \in Texts /\ options \subseteq Names
        /\ now \in 0 .. MaxTime /\ edits \in 0 .. MaxEdits
    BY DEF Texts
  <2>2. tools \in BOOLEAN /\ threw \in BOOLEAN /\ clean \in BOOLEAN
    BY Zenon DEF Sound, WellFormed
  <2>3. lost \subseteq [wrote : 0 .. MaxTime, time : 0 .. MaxTime, fresh : BOOLEAN]
    OBVIOUS
  <2>4. QED
    BY <1>2, <1>3, <1>4, <2>1, <2>2, <2>3 DEF TypeOK
<1>6. QED
  BY <1>1, <1>2, <1>3, <1>5 DEF Inv, Fine, Sound, Texts, NoForm

LEMMA ToggleType ==
  ASSUME NEW u \in [edit : BOOLEAN, keys : Nat, selected : BOOLEAN]
  PROVE  /\ EnableEdit(u) \in [edit : BOOLEAN, keys : Nat, selected : BOOLEAN]
         /\ EnableView(u) \in [edit : BOOLEAN, keys : Nat, selected : BOOLEAN]
         /\ ToggleMode(u) \in [edit : BOOLEAN, keys : Nat, selected : BOOLEAN]
<1>1. EnableEdit(u) \in [edit : BOOLEAN, keys : Nat, selected : BOOLEAN]
  <2> DEFINE k == u.keys + 1
  <2>1. k \in Nat
    OBVIOUS
  <2>2. EnableEdit(u) = [u EXCEPT !.edit = TRUE, !.keys = k]
    BY DEF EnableEdit
  <2> HIDE DEF k
  <2>3. QED
    BY <2>1, <2>2
<1>2. EnableView(u) \in [edit : BOOLEAN, keys : Nat, selected : BOOLEAN]
  BY DEF EnableView
<1>3. ToggleMode(u) = EnableView(u) \/ ToggleMode(u) = EnableEdit(u)
  BY DEF ToggleMode
<1>4. QED
  BY <1>1, <1>2, <1>3

LEMMA RepaintType ==
  ASSUME TypeOK, NEW ok \in BOOLEAN, Repaint(ok)
  PROVE  /\ ui' \in [edit : BOOLEAN, keys : Nat, selected : BOOLEAN]
         /\ threw' \in BOOLEAN
<1>1. ToggleMode(ui) \in [edit : BOOLEAN, keys : Nat, selected : BOOLEAN]
  BY ToggleType DEF TypeOK
<1>2. ui' \in [edit : BOOLEAN, keys : Nat, selected : BOOLEAN]
  BY <1>1, ToggleType DEF Repaint
<1>3. threw' \in BOOLEAN
  BY Zenon DEF Repaint
<1>4. QED
  BY <1>2, <1>3

\* A card of a stack is shown.
LEMMA NavigateCardInv ==
  ASSUME Inv, NEW s \in Stacks, clean' => WellFormed(s), NEW c \in Names,
         NavigateCard(s, c), edits' \in 0 .. MaxEdits, StaysKnown
  PROVE  Inv'
<1> DEFINE n == [s EXCEPT !.card = c]
           ok == Paints(s, c)
<1>1. n \in Stacks /\ (WellFormed(s) => WellFormed(n)) /\ n.card = c /\ n.cards = s.cards
  BY DEF Stacks, WellFormed
<1>2. /\ stack' = n /\ tools' = tools /\ page' = page /\ form' = form
      /\ answers' = answers /\ file' = file /\ now' = now /\ lost' = {}
      /\ Repaint(ok) /\ options' = IF ok THEN DOMAIN s.cards ELSE options
  BY DEF NavigateCard
<1>3. ok \in BOOLEAN
  BY Zenon DEF Paints
<1>4. /\ ui' \in [edit : BOOLEAN, keys : Nat, selected : BOOLEAN]
      /\ threw' \in BOOLEAN
  BY <1>2, <1>3, RepaintType DEF Inv
<1>5. options' \subseteq Names
  BY <1>2 DEF Inv, TypeOK, Stacks
<1>6. TypeOK'
  BY <1>1, <1>2, <1>4, <1>5 DEF Inv, TypeOK, Texts, StaysKnown
<1>7. ~threw' => ok
  BY <1>2, Zenon DEF Repaint
<1>8. ok => c \in DOMAIN s.cards
  BY DEF Paints
<1>9. ~threw' => Shown'
  BY <1>1, <1>2, <1>7, <1>8 DEF Shown
<1>10. n # Broken
  BY <1>1, StackAssumption
<1> HIDE DEF n, ok
<1>11. QED
  BY <1>1, <1>2, <1>6, <1>9, <1>10 DEF Inv, Fine, Sound, TypeOK, StaysKnown

\* A stack is opened, or fails to open.
LEMMA NavigateStackInv ==
  ASSUME Inv, NEW s \in Texts, clean' => Sound(s), NEW b \in Bases, NavigateStack(s, b),
         answers' \subseteq answers, edits' \in 0 .. MaxEdits, StaysKnown
  PROVE  Inv'
<1>1. form' = form /\ file' = file /\ now' = now /\ lost' = {}
  BY DEF NavigateStack
<1>2. CASE Opens(s, b)
  <2> DEFINE n == [s EXCEPT !.card = s.home]
  <2>1. s \in Stacks /\ s.home \in DOMAIN s.cards /\ (clean' => WellFormed(s))
    BY <1>2 DEF Opens, Paints, Texts, Sound
  <2>2. /\ n \in Stacks /\ n.card \in DOMAIN n.cards /\ n.cards = s.cards
        /\ clean' => WellFormed(n)
    BY <2>1 DEF Stacks, WellFormed
  <2>3. stack' = n /\ options' = DOMAIN s.cards /\ tools' = TRUE /\ threw' = threw
    BY <1>2 DEF Opens
  <2>4. ui' \in [edit : BOOLEAN, keys : Nat, selected : BOOLEAN]
    <3>1. ToggleMode(ToggleMode(ui)) \in [edit : BOOLEAN, keys : Nat, selected : BOOLEAN]
      BY ToggleType DEF Inv, TypeOK
    <3>2. QED
      BY <1>2, <3>1, ToggleType DEF Opens
  <2>5. page' \in Stamps
    <3>1. (b = file.version) \in BOOLEAN
      BY Zenon
    <3>2. QED
      BY <1>2, <3>1 DEF Opens, Stamps, Inv, TypeOK
  <2>6. options' \subseteq Names /\ n # Broken
    BY <2>1, <2>2, <2>3, StackAssumption DEF Stacks
  <2> HIDE DEF n
  <2>7. TypeOK'
    BY <1>1, <2>2, <2>3, <2>4, <2>5, <2>6 DEF Inv, TypeOK, Texts, StaysKnown
  <2>8. Shown'
    BY <2>2, <2>3 DEF Shown
  <2>9. QED
    BY <1>1, <2>2, <2>3, <2>6, <2>7, <2>8 DEF Inv, Fine, Sound, TypeOK, StaysKnown
<1>3. CASE FailsToOpen(s)
  <2>1. tools' = FALSE /\ threw' = TRUE /\ options' = options /\ page' = page
    BY <1>3 DEF FailsToOpen
  <2>2. stack' \in Texts /\ (clean' => Sound(stack'))
    <3>1. CASE s = Broken
      BY <1>3, <3>1 DEF FailsToOpen, Inv, Fine, StaysKnown
    <3>2. CASE s # Broken
      <4> DEFINE n == [s EXCEPT !.card = s.home]
      <4>1. s \in Stacks /\ (clean' => WellFormed(s))
        BY <3>2 DEF Texts, Sound
      <4>2. n \in Stacks /\ (clean' => WellFormed(n))
        BY <4>1 DEF Stacks, WellFormed
      <4>3. stack' \in {stack, n}
        BY <1>3, <3>2 DEF FailsToOpen
      <4> HIDE DEF n
      <4>4. QED
        BY <4>2, <4>3 DEF Inv, Fine, Texts, Sound, StaysKnown
    <3>3. QED
      BY <3>1, <3>2
  <2>3. ui' \in [edit : BOOLEAN, keys : Nat, selected : BOOLEAN]
    <3>1. ui' \in {ToggleMode(ui), ui}
      BY <1>3 DEF FailsToOpen
    <3>2. QED
      BY <3>1, ToggleType DEF Inv, TypeOK
  <2>4. TypeOK'
    BY <1>1, <2>1, <2>2, <2>3 DEF Inv, TypeOK, StaysKnown
  <2>5. QED
    BY <1>1, <2>1, <2>2, <2>4 DEF Inv, Fine, StaysKnown
<1>4. QED
  BY <1>2, <1>3 DEF NavigateStack

\* The tools that change the stack without painting it.
LEMMA ChangeInv ==
  ASSUME Inv, NEW n \in Stacks, clean' => WellFormed(n), Editing, stack' = n, StaysKnown,
         options' \subseteq Names, Shown => Shown',
         tools' = tools, ui' = ui, page' = page, form' = form, answers' = answers,
         file' = file, now' = now, threw' = threw, lost' = {}
  PROVE  Inv'
<1>1. stack # Broken /\ n # Broken
  BY StackAssumption DEF Editing, Inv
<1>2. edits' \in 0 .. MaxEdits
  BY StackAssumption DEF Editing, Inv, TypeOK
<1>3. TypeOK'
  BY <1>2 DEF Inv, TypeOK, Texts, StaysKnown
<1>4. QED
  BY <1>1, <1>3 DEF Inv, Fine, Sound, TypeOK, StaysKnown

\* The stack s with other values of its four fields.
Changed(s, cs, b, c, h) == [s EXCEPT !.cards = cs, !.bad = b, !.card = c, !.home = h]

LEMMA FourFields ==
  ASSUME NEW s \in Stacks, NEW cs, NEW b, NEW c, NEW h
  PROVE  Changed(s, cs, b, c, h) = [cards |-> cs, home |-> h, card |-> c, bad |-> b]
<1>1. s = [cards |-> s.cards, home |-> s.home, card |-> s.card, bad |-> s.bad]
  BY DEF Stacks
<1> DEFINE s1 == [cards |-> cs, home |-> s.home, card |-> s.card, bad |-> s.bad]
           s2 == [cards |-> cs, home |-> s.home, card |-> s.card, bad |-> b]
           s3 == [cards |-> cs, home |-> s.home, card |-> c, bad |-> b]
<1>2. [s EXCEPT !.cards = cs] = s1
  BY <1>1
<1>3. [s1 EXCEPT !.bad = b] = s2
  OBVIOUS
<1>4. [s2 EXCEPT !.card = c] = s3
  OBVIOUS
<1>5. [s3 EXCEPT !.home = h] = [cards |-> cs, home |-> h, card |-> c, bad |-> b]
  OBVIOUS
<1> HIDE DEF s1, s2, s3
<1>6. [s EXCEPT !.cards = cs, !.bad = b, !.card = c, !.home = h]
        = [[[[s EXCEPT !.cards = cs] EXCEPT !.bad = b] EXCEPT !.card = c] EXCEPT !.home = h]
  OBVIOUS
<1>7. QED
  BY <1>2, <1>3, <1>4, <1>5, <1>6 DEF Changed

LEMMA RemoveCardFine ==
  ASSUME NEW s \in Stacks, NEW c \in Names, NEW first \in DOMAIN s.cards \ {c}
  PROVE  /\ RemoveCard(s, c, first) \in Stacks
         /\ WellFormed(s) => WellFormed(RemoveCard(s, c, first))
<1> DEFINE left == DOMAIN s.cards \ {c}
           cards == [k \in left |-> s.cards[k]]
           card == IF s.card = c THEN s.cards[first] ELSE s.card
           home == IF s.home = c THEN s.cards[first] ELSE s.home
           r == [cards |-> cards, home |-> home, card |-> card, bad |-> s.bad \ {c}]
<1>1. /\ s.cards \in [DOMAIN s.cards -> Names] /\ DOMAIN s.cards \subseteq Names
      /\ s.home \in Names /\ s.card \in Names /\ s.bad \subseteq DOMAIN s.cards
      /\ WellFormed(s) => s.home \in DOMAIN s.cards /\ \A k \in DOMAIN s.cards : s.cards[k] = k
  BY DEF Stacks, WellFormed
<1>2. /\ first \in left /\ s.cards[first] \in Names
      /\ WellFormed(s) => s.cards[first] = first
  BY <1>1
<1>3. cards \in [left -> Names] /\ left \in SUBSET Names
  BY <1>1
<1>4. RemoveCard(s, c, first) = r
  <2>1. RemoveCard(s, c, first) = Changed(s, cards, s.bad \ {c}, card, home)
    BY <1>2 DEF RemoveCard, Changed, Stacks
  <2> DEFINE b == s.bad \ {c}
  <2>2. r = [cards |-> cards, home |-> home, card |-> card, bad |-> b]
    OBVIOUS
  <2> HIDE DEF cards, card, home, b, r
  <2>3. Changed(s, cards, b, card, home)
          = [cards |-> cards, home |-> home, card |-> card, bad |-> b]
    BY FourFields
  <2>4. QED
    BY <2>1, <2>2, <2>3, Zenon DEF b
<1>5. /\ home \in Names /\ card \in Names /\ s.bad \ {c} \in SUBSET left
      /\ cards \in UNION {[D -> Names] : D \in SUBSET Names} /\ DOMAIN cards = left
      /\ WellFormed(s) => home \in left /\ \A k \in left : cards[k] = k
  BY <1>1, <1>2, <1>3
<1> HIDE DEF cards, card, home
<1>6. r \in Stacks /\ (WellFormed(s) => WellFormed(r))
  BY <1>3, <1>5 DEF Stacks, WellFormed
<1>7. QED
  BY <1>4, <1>6

\* The tools that change the stack and show a card of it.
LEMMA EditInv ==
  ASSUME Inv, NEW c \in Names,
         NewCard(c) \/ RenameCard(c) \/ SetHome(c) \/ DeleteCard \/ SetCode \/ Redraw
  PROVE  Inv'
<1>00. StaysKnown
  <2>1. clean \in BOOLEAN
    BY DEF Inv, TypeOK
  <2>2. clean' = clean \/ LooksUp(c, stack)
    BY DEF NewCard, RenameCard, SetHome, DeleteCard, SetCode, Redraw
  <2>3. LooksUp(c, stack) => clean' \in BOOLEAN
    BY Zenon DEF LooksUp
  <2>4. QED
    BY <2>1, <2>2, <2>3 DEF StaysKnown, LooksUp
<1>0. Editing
  BY DEF NewCard, RenameCard, SetHome, DeleteCard, SetCode, Redraw
<1>1. /\ stack \in Stacks /\ (clean => WellFormed(stack)) /\ (clean' => WellFormed(stack))
      /\ edits' \in 0 .. MaxEdits /\ stack # Broken
  BY <1>0, <1>00, StackAssumption DEF Editing, Inv, Fine, Sound, Texts, TypeOK, StaysKnown
<1>2. /\ stack.cards \in [DOMAIN stack.cards -> Names] /\ DOMAIN stack.cards \in SUBSET Names
      /\ stack.home \in Names /\ stack.card \in Names
      /\ stack.bad \subseteq DOMAIN stack.cards
      /\ WellFormed(stack) => /\ stack.home \in DOMAIN stack.cards
                              /\ \A k \in DOMAIN stack.cards : stack.cards[k] = k
  BY <1>1 DEF Stacks, WellFormed
<1>3. CASE NewCard(c)
  <2> DEFINE n == [stack EXCEPT !.cards = [k \in DOMAIN @ \union {c} |->
                                             IF k = c THEN c ELSE @[k]]]
             cs == [k \in DOMAIN stack.cards \union {c} |-> IF k = c THEN c ELSE stack.cards[k]]
  <2>1. n = [stack EXCEPT !.cards = cs]
    BY <1>1 DEF Stacks
  <2>2. /\ cs \in UNION {[D -> Names] : D \in SUBSET Names}
        /\ DOMAIN cs = DOMAIN stack.cards \union {c}
        /\ WellFormed(stack) => \A k \in DOMAIN cs : cs[k] = k
    <3>1. cs \in [DOMAIN stack.cards \union {c} -> Names]
      BY <1>2
    <3>2. DOMAIN stack.cards \union {c} \in SUBSET Names
      BY <1>2
    <3>3. QED
      BY <1>2, <3>1, <3>2
  <2> HIDE DEF cs
  <2>3. n \in Stacks /\ (clean' => WellFormed(n))
    BY <1>1, <1>2, <2>1, <2>2 DEF Stacks, WellFormed
  <2>4. NavigateCard(n, c)
    BY <1>3 DEF NewCard
  <2> HIDE DEF n
  <2>5. QED
    BY <1>00, <1>1, <2>3, <2>4, NavigateCardInv
<1>4. CASE RenameCard(c)
  <2> DEFINE old == stack.cards[stack.card]
             kept == (DOMAIN stack.cards \union {c}) \ {old}
             cs == [k \in kept |-> IF k \in {c, stack.card} THEN c ELSE stack.cards[k]]
             b == (IF stack.card \in stack.bad THEN stack.bad \union {c} ELSE stack.bad) \ {old}
             h == IF stack.home = old THEN c ELSE stack.home
             n == [cards |-> cs, home |-> h, card |-> c, bad |-> b]
  <2>1. /\ stack.card \in DOMAIN stack.cards /\ c \notin DOMAIN stack.cards
        /\ WellFormed(stack) => old = stack.card
    BY <1>2, <1>4 DEF RenameCard, In
  <2>2. stack' = Changed(stack, cs, b, c, h)
    BY <1>1, <1>4, <2>1 DEF RenameCard, Changed, Stacks
  <2>3. /\ cs \in [kept -> Names] /\ kept \in SUBSET Names /\ DOMAIN cs = kept
        /\ h \in Names /\ b \subseteq kept
    BY <1>2, <2>1
  <2>03. WellFormed(stack) => h \in kept /\ c \in kept /\ \A k \in kept : cs[k] = k
    BY <1>2, <2>1
  <2>4. options' = kept /\ tools' = tools /\ ui' = ui /\ page' = page /\ form' = form
        /\ answers' = answers /\ file' = file /\ now' = now /\ threw' = threw /\ lost' = {}
    BY <1>4, <2>1 DEF RenameCard
  <2> HIDE DEF kept, cs, b, h
  <2>5. stack' = n
    BY <1>1, <2>2, FourFields
  <2>6. n \in Stacks /\ (clean' => WellFormed(n)) /\ n.card = c /\ DOMAIN n.cards = kept
    BY <1>1, <2>3, <2>03 DEF Stacks, WellFormed
  <2> HIDE DEF n
  <2>7. Shown'
    BY <1>1, <2>03, <2>4, <2>5, <2>6 DEF Shown
  <2>8. options' \subseteq Names
    BY <2>3, <2>4
  <2>9. QED
    BY <1>0, <1>00, <2>4, <2>5, <2>6, <2>7, <2>8, ChangeInv
<1>5. CASE SetHome(c)
  <2> DEFINE n == [stack EXCEPT !.home = c]
  <2>1. n \in Stacks /\ n.card = stack.card /\ n.cards = stack.cards /\ n.home = c
    BY <1>1 DEF Stacks
  <2>01. clean' => WellFormed(n)
    BY <1>1, <1>5, <2>1 DEF SetHome, LooksUp, WellFormed
  <2>2. stack' = n /\ options' = options /\ tools' = tools /\ ui' = ui /\ page' = page
        /\ form' = form /\ answers' = answers /\ file' = file /\ now' = now
        /\ threw' = threw /\ lost' = {}
    BY <1>5 DEF SetHome
  <2> HIDE DEF n
  <2>3. QED
    BY <1>0, <1>00, <2>1, <2>01, <2>2, ChangeInv DEF Shown, Inv, TypeOK, StaysKnown
<1>6. CASE DeleteCard
  <2>1. PICK first \in DOMAIN stack.cards \ {stack.card} :
          LET s == RemoveCard(stack, stack.card, first) IN NavigateCard(s, s.home)
    BY <1>6 DEF DeleteCard
  <2> DEFINE n == RemoveCard(stack, stack.card, first)
  <2>2. n \in Stacks /\ (clean' => WellFormed(n)) /\ NavigateCard(n, n.home)
    BY <1>1, <1>2, <2>1, RemoveCardFine
  <2> HIDE DEF n
  <2>3. n.home \in Names
    BY <2>2 DEF Stacks
  <2>4. QED
    BY <1>00, <1>1, <2>2, <2>3, NavigateCardInv
<1>7. CASE SetCode
  <2> DEFINE b == IF stack.card \in stack.bad THEN stack.bad \ {stack.card}
                  ELSE stack.bad \union {stack.card}
             n == [stack EXCEPT !.bad = b]
  <2>1. stack.card \in DOMAIN stack.cards
    BY <1>7 DEF SetCode
  <2>2. b \subseteq DOMAIN stack.cards
    BY <1>2, <2>1
  <2>3. stack' = n
    BY <1>1, <1>7 DEF SetCode, Stacks
  <2> HIDE DEF b
  <2>4. n \in Stacks /\ (clean' => WellFormed(n)) /\ n.card = stack.card /\ n.cards = stack.cards
    BY <1>1, <1>2, <2>2 DEF Stacks, WellFormed
  <2>5. options' = options /\ tools' = tools /\ ui' = ui /\ page' = page
        /\ form' = form /\ answers' = answers /\ file' = file /\ now' = now
        /\ threw' = threw /\ lost' = {}
    BY <1>7 DEF SetCode
  <2> HIDE DEF n
  <2>6. QED
    BY <1>0, <1>00, <2>3, <2>4, <2>5, ChangeInv DEF Shown, Inv, TypeOK, StaysKnown
<1>8. CASE Redraw
  <2> DEFINE ok == Paints(stack, stack.card)
  <2>1. ok \in BOOLEAN
    BY Zenon DEF Paints
  <2>2. Repaint(ok) /\ content' = content /\ tools' = tools /\ page' = page /\ form' = form
        /\ answers' = answers /\ file' = file /\ now' = now /\ lost' = {} /\ clean' = clean
    BY <1>8 DEF Redraw, content
  <2>3. /\ ui' \in [edit : BOOLEAN, keys : Nat, selected : BOOLEAN]
        /\ threw' \in BOOLEAN
    BY <2>1, <2>2, RepaintType DEF Inv
  <2>4. ~threw' => ~threw
    BY <2>2, Zenon DEF Repaint
  <2>5. TypeOK'
    BY <1>1, <2>2, <2>3 DEF Inv, TypeOK, content
  <2>6. QED
    BY <2>2, <2>4, <2>5 DEF Inv, content, Shown, Fine
<1>9. QED
  BY <1>3, <1>4, <1>5, <1>6, <1>7, <1>8

\* The file gets another content.
LEMMA OverwriteType ==
  ASSUME Inv, NEW s \in Texts, Overwrite(s)
  PROVE  /\ file' \in [stack : Texts, version : Bases, mtime : 0 .. MaxTime]
         /\ file'.stack = s /\ file.version + 1 \in Bases
BY StackAssumption DEF Overwrite, Inv, TypeOK, Bases

LEMMA SaveInv ==
  ASSUME Inv, Save
  PROVE  Inv'
<1> DEFINE sent == IF tools THEN [stack |-> stack, base |-> page.base,
                                  time |-> page.time, fresh |-> page.fresh]
                   ELSE form
           Forms == [stack : Texts, base : Bases, time : 0 .. MaxTime, fresh : BOOLEAN]
<1>1. sent \in Forms /\ Fine(sent.stack)
  <2>1. CASE tools
    BY <2>1 DEF Inv, TypeOK, Stamps
  <2>2. CASE ~tools
    BY <2>2 DEF Inv, TypeOK
  <2>3. QED
    BY <2>1, <2>2
<1>2. content' = content /\ tools' = tools /\ ui' = ui /\ answers' = answers
      /\ now' = now /\ edits' = edits /\ threw' = threw /\ clean' = clean
  BY DEF Save, content
<1>3. CASE file.mtime > sent.time
  <2>1. form' = sent /\ lost' = {} /\ file' = file /\ page' = page
    BY <1>3 DEF Save
  <2> HIDE DEF sent
  <2>2. TypeOK'
    BY <1>1, <1>2, <2>1 DEF Inv, TypeOK, content
  <2>3. QED
    BY <1>1, <1>2, <2>1, <2>2 DEF Inv, content, Shown, Fine
<1>4. CASE ~(file.mtime > sent.time)
  <2> DEFINE v == file.version + 1
             f == [stack |-> sent.stack, base |-> v, time |-> sent.time, fresh |-> sent.fresh]
             l == [wrote |-> file.mtime, time |-> sent.time, fresh |-> sent.fresh]
  <2>1. /\ Overwrite(sent.stack) /\ form' = f
        /\ lost' = (IF file.version = sent.base THEN {} ELSE {l})
        /\ page' = [page EXCEPT !.base = IF tools THEN v ELSE page.base]
    BY <1>4 DEF Save, Inv, TypeOK, Stamps
  <2>2. /\ file' \in [stack : Texts, version : Bases, mtime : 0 .. MaxTime]
        /\ file'.stack = sent.stack /\ v \in Bases
    BY <1>1, <2>1, OverwriteType
  <2> HIDE DEF sent, v
  <2>3. f \in Forms
    BY <1>1, <2>2
  <2>4. l \in [wrote : 0 .. MaxTime, time : 0 .. MaxTime, fresh : BOOLEAN]
    BY <1>1 DEF Inv, TypeOK
  <2>5. page' \in Stamps
    BY <2>1, <2>2 DEF Inv, TypeOK, Stamps
  <2>6. f.stack = sent.stack
    OBVIOUS
  <2> HIDE DEF f, l
  <2>7. TypeOK'
    BY <1>2, <2>1, <2>2, <2>3, <2>4, <2>5 DEF Inv, TypeOK, content
  <2>8. QED
    BY <1>1, <1>2, <2>1, <2>2, <2>6, <2>7 DEF Inv, content, Shown, Fine
<1>5. QED
  BY <1>3, <1>4

LEMMA ComesKnown ==
  ASSUME Inv, NEW s, Comes(s)
  PROVE  StaysKnown /\ (clean' => Sound(s))
<1>1. clean' \in BOOLEAN
  BY Zenon DEF Comes
<1>2. QED
  BY <1>1 DEF Comes, StaysKnown

LEMMA StepInv == Inv /\ [Next]_vars => Inv'
<1> SUFFICES ASSUME Inv, [Next]_vars PROVE Inv'
  OBVIOUS
<1>1. CASE UNCHANGED vars
  BY <1>1 DEF Inv, TypeOK, Shown, Fine, vars, content
<1>2. CASE SelectMode
  <2>1. stack \in Stacks /\ stack # Broken /\ DOMAIN stack.cards \subseteq Names
    BY <1>2 DEF SelectMode, Inv, Fine, Texts, Stacks
  <2>2. ui' \in [edit : BOOLEAN, keys : Nat, selected : BOOLEAN]
    <3> DEFINE u == [ui EXCEPT !.selected = ~@]
    <3>1. (~ui.selected) \in BOOLEAN
      BY Zenon
    <3>2. u \in [edit : BOOLEAN, keys : Nat, selected : BOOLEAN]
      BY <3>1 DEF Inv, TypeOK
    <3>3. ui' = EnableEdit(u) \/ ui' = EnableView(u)
      BY <1>2 DEF SelectMode
    <3> HIDE DEF u
    <3>4. QED
      BY <3>2, <3>3, ToggleType
  <2>3. /\ options' = DOMAIN stack.cards /\ lost' = {} /\ stack' = stack /\ tools' = tools
        /\ page' = page /\ form' = form /\ answers' = answers /\ file' = file
        /\ now' = now /\ edits' = edits /\ threw' = threw /\ clean' = clean
    BY <1>2 DEF SelectMode
  <2>4. TypeOK'
    BY <2>1, <2>2, <2>3 DEF Inv, TypeOK
  <2>5. QED
    BY <2>3, <2>4 DEF Inv, Shown, Fine
<1>3. ASSUME NEW c \in Names, SelectCard(c) \/ FollowLink(c) PROVE Inv'
  <2>1. NavigateCard(stack, c) /\ edits' = edits /\ stack \in Stacks
        /\ (clean => WellFormed(stack))
    BY <1>3 DEF SelectCard, FollowLink, Inv, Fine, Texts, Sound
  <2>2. StaysKnown
    <3>1. clean \in BOOLEAN
      BY DEF Inv, TypeOK
    <3>2. clean' = clean \/ LooksUp(c, stack)
      BY <1>3 DEF SelectCard, FollowLink
    <3>3. LooksUp(c, stack) => clean' \in BOOLEAN
      BY Zenon DEF LooksUp
    <3>4. QED
      BY <3>1, <3>2, <3>3 DEF StaysKnown, LooksUp
  <2>3. QED
    BY <2>1, <2>2, NavigateCardInv DEF Inv, TypeOK, StaysKnown
<1>4. ASSUME NEW c \in Names, NewCard(c) \/ RenameCard(c) \/ SetHome(c) PROVE Inv'
  BY <1>4, EditInv
<1>5. CASE DeleteCard \/ SetCode \/ Redraw
  <2>1. \E c \in Names : TRUE
    BY <1>5 DEF DeleteCard, SetCode, Redraw, Editing, Inv, Fine, Texts, Stacks
  <2>2. QED
    BY <1>5, <2>1, EditInv
<1>6. CASE Refresh
  <2>1. /\ stack \in Texts /\ (clean' => Sound(stack)) /\ StaysKnown
        /\ page.base \in Bases /\ edits' \in 0 .. MaxEdits /\ answers' = answers
    BY <1>6 DEF Refresh, Inv, Fine, TypeOK, Stamps, StaysKnown
  <2>2. QED
    BY <1>6, <2>1, NavigateStackInv DEF Refresh
<1>7. ASSUME NEW s \in Drafts \union {Broken}, Import(s) PROVE Inv'
  <2>1. s \in Texts /\ 0 \in Bases /\ answers' = answers /\ Comes(s)
    BY <1>7, StackAssumption DEF Import, Texts, Bases
  <2>2. edits' \in 0 .. MaxEdits
    BY <1>7, StackAssumption DEF Import, Editing, Inv, TypeOK
  <2>3. StaysKnown /\ (clean' => Sound(s))
    BY <2>1, ComesKnown
  <2>4. QED
    BY <1>7, <2>1, <2>2, <2>3, NavigateStackInv DEF Import
<1>8. ASSUME NEW a \in answers, Arrive(a) PROVE Inv'
  <2>1. a.stack \in Texts /\ (clean' => Sound(a.stack)) /\ a.base \in Bases
    BY <1>8 DEF Arrive, Inv, Fine, TypeOK
  <2>2. answers' \subseteq answers /\ edits' \in 0 .. MaxEdits /\ StaysKnown
    BY <1>8 DEF Arrive, Inv, TypeOK, StaysKnown
  <2>3. QED
    BY <1>8, <2>1, <2>2, NavigateStackInv DEF Arrive
<1>9. CASE Load
  <2> DEFINE a == [stack |-> file.stack, base |-> file.version]
  <2>1. a \in [stack : Texts, base : Bases] /\ Fine(a.stack)
    BY DEF Inv, TypeOK
  <2>2. /\ answers' = answers \union {a} /\ lost' = {} /\ content' = content /\ tools' = tools
        /\ ui' = ui /\ page' = page /\ form' = form /\ file' = file
        /\ now' = now /\ edits' = edits /\ threw' = threw /\ clean' = clean
    BY <1>9 DEF Load, content
  <2> HIDE DEF a
  <2>3. TypeOK'
    BY <2>1, <2>2 DEF Inv, TypeOK, content
  <2>4. QED
    BY <2>1, <2>2, <2>3 DEF Inv, content, Shown, Fine
<1>10. CASE Save
  BY <1>10, SaveInv
<1>11. ASSUME NEW s \in Drafts \union {Broken}, SavedByOthers(s) PROVE Inv'
  <2>0. Comes(s)
    BY <1>11 DEF SavedByOthers
  <2>1. s \in Texts /\ StaysKnown /\ (clean' => Sound(s))
    BY <2>0, ComesKnown, StackAssumption DEF Texts
  <2>2. /\ Overwrite(s) /\ lost' = {} /\ content' = content /\ tools' = tools /\ ui' = ui
        /\ page' = page /\ form' = form /\ answers' = answers
        /\ now' = now /\ edits' = edits /\ threw' = threw
    BY <1>11 DEF SavedByOthers, content
  <2>3. file' \in [stack : Texts, version : Bases, mtime : 0 .. MaxTime] /\ file'.stack = s
    BY <2>1, <2>2, OverwriteType
  <2>4. TypeOK'
    BY <2>1, <2>2, <2>3 DEF Inv, TypeOK, content, StaysKnown
  <2>5. QED
    BY <2>1, <2>2, <2>3, <2>4 DEF Inv, content, Shown, Fine, StaysKnown
<1>12. CASE Tick
  <2>1. /\ now' \in 0 .. MaxTime
    BY <1>12, StackAssumption DEF Tick, Inv, TypeOK
  <2>2. /\ lost' = {} /\ content' = content /\ tools' = tools /\ ui' = ui
        /\ page' = page /\ form' = form /\ answers' = answers /\ file' = file
        /\ edits' = edits /\ threw' = threw /\ clean' = clean
    BY <1>12 DEF Tick, content
  <2>3. TypeOK'
    BY <2>1, <2>2 DEF Inv, TypeOK, content
  <2>4. QED
    BY <2>2, <2>3 DEF Inv, content, Shown, Fine
<1>13. QED
  BY <1>1, <1>2, <1>3, <1>4, <1>5, <1>6, <1>7, <1>8, <1>9, <1>10, <1>11, <1>12 DEF Next

LEMMA SpecInv == Spec => []Inv
BY InitInv, StepInv, PTL DEF Spec

\* Every reachable state is well typed.
THEOREM TypeCorrect == Spec => []TypeOK
<1>1. Inv => TypeOK
  BY DEF Inv
<1>2. QED
  BY SpecInv, <1>1, PTL

\* Whatever is renamed, removed, loaded and thrown, the tools break no stack: until
\* an ill-formed one comes in or an inherited name is looked up, the stack of the
\* page has its home card and its cards go by their own names (removeCard and setname
\* in app.js), and without an exception the card shown exists; the tools then offer
\* the cards of any stack.
THEOREM NavigableHolds == Spec => []Navigable
<1>1. Inv => Navigable
  BY DEF Inv, Navigable, Fine, Sound, Shown
<1>2. QED
  BY SpecInv, <1>1, PTL
-----------------------------------------------------------------------------
\* What a page, or the form, may save: if its stack came from the version the file
\* had when the time was set, any other version of the file is not older.
Protected(p) ==
  p.time <= now /\ (p.fresh /\ p.base # file.version => p.time <= file.mtime)

StampInv == Protected(page) /\ Protected(form) /\ StampProtects

\* Most actions change neither the file nor the times.
LEMMA SameStamps ==
  ASSUME StampInv, page' = page, form' = form, file' = file, now' = now, lost' = {}
  PROVE  StampInv'
BY DEF StampInv, Protected, StampProtects

LEMMA OpenStamp ==
  ASSUME Inv, StampInv, NEW s, NEW b \in Bases, NavigateStack(s, b)
  PROVE  StampInv'
<1>1. form' = form /\ file' = file /\ now' = now /\ lost' = {}
  BY DEF NavigateStack
<1>2. CASE Opens(s, b)
  <2>1. page'.time = now /\ page'.base = b /\ (page'.fresh <=> b = file.version)
    BY <1>2 DEF Opens
  <2>2. now \in Nat
    BY StackAssumption DEF Inv, TypeOK
  <2>3. QED
    BY <1>1, <2>1, <2>2 DEF StampInv, Protected, StampProtects
<1>3. CASE FailsToOpen(s)
  BY <1>1, <1>3, SameStamps DEF FailsToOpen
<1>4. QED
  BY <1>2, <1>3 DEF NavigateStack

LEMMA SaveStamp ==
  ASSUME Inv, StampInv, Save
  PROVE  StampInv'
<1> DEFINE sent == IF tools THEN [stack |-> stack, base |-> page.base,
                                  time |-> page.time, fresh |-> page.fresh]
                   ELSE form
<1>1. Protected(sent) /\ now' = now
  BY DEF Save, StampInv, Protected
<1>2. sent.time \in Nat /\ file.mtime \in Nat
  BY DEF Inv, TypeOK, Stamps
<1>3. CASE file.mtime > sent.time
  <2>1. form' = sent /\ lost' = {} /\ file' = file /\ page' = page
    BY <1>3 DEF Save
  <2> HIDE DEF sent
  <2>2. QED
    BY <1>1, <2>1 DEF StampInv, Protected, StampProtects
<1>4. CASE ~(file.mtime > sent.time)
  <2> DEFINE l == [wrote |-> file.mtime, time |-> sent.time, fresh |-> sent.fresh]
  <2>1. /\ Overwrite(sent.stack) /\ form'.time = sent.time /\ page'.time = page.time
        /\ lost' = (IF file.version = sent.base THEN {} ELSE {l})
    BY <1>4 DEF Save, Inv, TypeOK, Stamps
  <2> HIDE DEF sent
  <2>2. page'.time <= now /\ form'.time <= now
    BY <1>1, <2>1 DEF StampInv, Protected
  <2>3. file'.mtime = now
    BY <2>1 DEF Overwrite
  <2>4. Protected(page)' /\ Protected(form)'
    BY <1>1, <2>2, <2>3 DEF Protected
  <2>5. file.version # sent.base /\ l.fresh => l.wrote = l.time
    BY <1>1, <1>2, <1>4 DEF Protected
  <2> HIDE DEF l
  <2>6. StampProtects'
    BY <2>1, <2>5 DEF StampProtects
  <2>7. QED
    BY <2>4, <2>6 DEF StampInv
<1>5. QED
  BY <1>3, <1>4

LEMMA StampStep == Inv /\ StampInv /\ [Next]_vars => StampInv'
<1> SUFFICES ASSUME Inv, StampInv, [Next]_vars PROVE StampInv'
  OBVIOUS
<1>1. CASE UNCHANGED vars
  BY <1>1 DEF StampInv, Protected, StampProtects, vars
<1>2. CASE SelectMode \/ SetCode \/ Redraw \/ Load
  BY <1>2, SameStamps DEF SelectMode, SetCode, Redraw, Load
<1>3. CASE DeleteCard
  BY <1>3, SameStamps DEF DeleteCard, NavigateCard
<1>4. ASSUME NEW c \in Names,
             SelectCard(c) \/ FollowLink(c) \/ NewCard(c) \/ RenameCard(c) \/ SetHome(c)
      PROVE  StampInv'
  BY <1>4, SameStamps DEF SelectCard, FollowLink, NewCard, RenameCard, SetHome, NavigateCard
<1>5. CASE Refresh
  BY <1>5, OpenStamp DEF Refresh, Inv, TypeOK, Stamps
<1>6. ASSUME NEW s, Import(s) PROVE StampInv'
  BY <1>6, OpenStamp, StackAssumption DEF Import, Bases
<1>7. ASSUME NEW a \in answers, Arrive(a) PROVE StampInv'
  <2>1. a.base \in Bases
    BY DEF Inv, TypeOK
  <2>2. QED
    BY <1>7, <2>1, OpenStamp DEF Arrive
<1>8. CASE Save
  BY <1>8, SaveStamp
<1>9. ASSUME NEW s, SavedByOthers(s) PROVE StampInv'
  <2>1. /\ Overwrite(s) /\ lost' = {} /\ page' = page /\ form' = form /\ now' = now
        /\ file'.mtime = now
    BY <1>9 DEF SavedByOthers, Overwrite
  <2>2. QED
    BY <2>1 DEF StampInv, Protected, StampProtects
<1>10. CASE Tick
  <2>1. now' = now + 1 /\ page' = page /\ form' = form /\ file' = file /\ lost' = {}
    BY <1>10 DEF Tick
  <2>2. now \in Nat /\ page.time \in Nat /\ form.time \in Nat
    BY DEF Inv, TypeOK, Stamps
  <2>3. QED
    BY <2>1, <2>2 DEF StampInv, Protected, StampProtects
<1>11. QED
  BY <1>1, <1>2, <1>3, <1>4, <1>5, <1>6, <1>7, <1>8, <1>9, <1>10 DEF Next

\* A save that passes the comparison of the times overwrites nothing but what its
\* page came from, if the time of the page was set while the file had that version
\* (bumpModifiedTime in app.js, readWithMetadata on the server).
THEOREM StampProtectsHolds == Spec => []StampProtects
<1>1. Init => StampInv
  BY StackAssumption DEF Init, StampInv, Protected, StampProtects, NoForm
<1>2. StampInv => StampProtects
  BY DEF StampInv
<1>3. QED
  BY <1>1, <1>2, SpecInv, StampStep, PTL DEF Spec
-----------------------------------------------------------------------------
\* Keys are handled twice only while edit mode is selected.
Handled(u) == (u.edit <=> u.keys > 0) /\ u.keys <= 2 /\ (u.keys = 2 => u.selected)

KeysInv == Handled(ui) /\ (~threw => (ui.edit <=> ui.selected))

UIs == [edit : BOOLEAN, keys : Nat, selected : BOOLEAN]

\* After a toggle keys are handled once at most.
LEMMA ToggleOnce ==
  ASSUME NEW u \in UIs, Handled(u)
  PROVE  /\ Handled(ToggleMode(u)) /\ ToggleMode(u).keys <= 1
         /\ (ToggleMode(u).edit <=> ~u.edit) /\ (ToggleMode(u).selected <=> u.selected)
         /\ ToggleMode(u) \in UIs
<1>1. ToggleMode(u) \in UIs
  BY ToggleType DEF UIs
<1>2. CASE u.edit
  <2>1. ToggleMode(u) = [u EXCEPT !.edit = FALSE, !.keys = 0]
    BY <1>2 DEF ToggleMode, EnableView
  <2>2. QED
    BY <1>1, <1>2, <2>1 DEF UIs, Handled
<1>3. CASE ~u.edit
  <2>1. u.keys = 0
    BY <1>3 DEF UIs, Handled
  <2>2. ToggleMode(u) = [u EXCEPT !.edit = TRUE, !.keys = 1]
    BY <1>3, <2>1 DEF ToggleMode, EnableEdit, UIs
  <2>3. QED
    BY <1>1, <1>3, <2>2 DEF UIs, Handled
<1>4. QED
  BY <1>2, <1>3

\* The mode that is selected is enabled.
LEMMA EnableSelected ==
  ASSUME NEW u \in UIs, u.keys <= 1
  PROVE  LET e == IF u.selected THEN EnableEdit(u) ELSE EnableView(u)
         IN  Handled(e) /\ (e.edit <=> e.selected)
<1>1. CASE u.selected
  <2> DEFINE k == u.keys + 1
             e == [u EXCEPT !.edit = TRUE, !.keys = k]
  <2>1. k \in {1, 2}
    BY DEF UIs
  <2>2. EnableEdit(u) = e
    BY DEF EnableEdit
  <2> HIDE DEF k
  <2>3. Handled(e) /\ (e.edit <=> e.selected)
    BY <1>1, <2>1 DEF UIs, Handled
  <2>4. QED
    BY <1>1, <2>2, <2>3
<1>2. CASE ~u.selected
  BY <1>2 DEF EnableView, UIs, Handled
<1>3. QED
  BY <1>1, <1>2

LEMMA RepaintKeys ==
  ASSUME Inv, KeysInv, NEW ok \in BOOLEAN, Repaint(ok)
  PROVE  KeysInv'
<1>1. ui \in UIs /\ Handled(ui)
  BY DEF Inv, TypeOK, UIs, KeysInv
<1>2. CASE ok
  BY <1>1, <1>2, ToggleOnce DEF Repaint, KeysInv, Handled
<1>3. CASE ~ok
  BY <1>1, <1>3, ToggleOnce DEF Repaint, KeysInv, Handled
<1>4. QED
  BY <1>2, <1>3

LEMMA NavigateKeys ==
  ASSUME Inv, KeysInv, NEW s, NEW b, NavigateStack(s, b)
  PROVE  KeysInv'
<1>1. ui \in UIs /\ Handled(ui)
  BY DEF Inv, TypeOK, UIs, KeysInv
<1>2. CASE Opens(s, b)
  <2> DEFINE p == ToggleMode(ToggleMode(ui))
  <2>1. p \in UIs /\ p.keys <= 1 /\ (p.selected <=> ui.selected)
    BY <1>1, ToggleOnce
  <2>2. ui' = IF ui.selected THEN EnableEdit(p) ELSE EnableView(p)
    BY <1>2 DEF Opens
  <2> HIDE DEF p
  <2>3. QED
    BY <2>1, <2>2, EnableSelected DEF KeysInv, Handled
<1>3. CASE FailsToOpen(s)
  <2>1. (ui' = ui \/ ui' = ToggleMode(ui)) /\ threw'
    BY <1>3 DEF FailsToOpen
  <2>2. QED
    BY <1>1, <2>1, ToggleOnce DEF KeysInv, Handled
<1>4. QED
  BY <1>2, <1>3 DEF NavigateStack

LEMMA KeysStep == Inv /\ KeysInv /\ [Next]_vars => KeysInv'
<1> SUFFICES ASSUME Inv, KeysInv, [Next]_vars PROVE KeysInv'
  OBVIOUS
<1>0. \A s, c : Paints(s, c) \in BOOLEAN
  BY Zenon DEF Paints
<1>1. CASE SelectMode
  <2> DEFINE u == [ui EXCEPT !.selected = ~@]
  <2>1. (~ui.selected) \in BOOLEAN
    BY Zenon
  <2>2. u \in UIs /\ u.keys = ui.keys /\ u.edit = ui.edit /\ (u.selected <=> ~ui.selected)
    BY <2>1 DEF Inv, TypeOK, UIs
  <2>3. ui' = IF u.selected THEN EnableEdit(u) ELSE EnableView(u)
    BY <1>1 DEF SelectMode
  <2> HIDE DEF u
  <2>4. CASE u.selected
    <3>1. u.keys <= 1
      BY <2>2, <2>4 DEF KeysInv, Handled, UIs
    <3>2. QED
      BY <2>2, <2>3, <3>1, EnableSelected DEF KeysInv, Handled
  <2>5. CASE ~u.selected
    BY <2>2, <2>3, <2>5 DEF EnableView, UIs, KeysInv, Handled
  <2>6. QED
    BY <2>4, <2>5
<1>2. ASSUME NEW s, NEW c, NavigateCard(s, c) PROVE KeysInv'
  BY <1>0, <1>2, RepaintKeys DEF NavigateCard
<1>3. CASE Redraw
  BY <1>0, <1>3, RepaintKeys DEF Redraw
<1>4. ASSUME NEW s, NEW b, NavigateStack(s, b) PROVE KeysInv'
  BY <1>4, NavigateKeys
<1>5. CASE ui' = ui /\ threw' = threw
  BY <1>5 DEF KeysInv, Handled
<1>6. CASE UNCHANGED vars
  BY <1>5, <1>6 DEF vars
<1>7. CASE SetCode \/ Load \/ Save \/ Tick
  BY <1>5, <1>7 DEF SetCode, Load, Save, Tick
<1>8. ASSUME NEW c \in Names, RenameCard(c) \/ SetHome(c) PROVE KeysInv'
  BY <1>5, <1>8 DEF RenameCard, SetHome
<1>9. ASSUME NEW c \in Names, SelectCard(c) \/ FollowLink(c) \/ NewCard(c) PROVE KeysInv'
  BY <1>2, <1>9 DEF SelectCard, FollowLink, NewCard
<1>10. CASE DeleteCard
  BY <1>2, <1>10 DEF DeleteCard
<1>11. CASE Refresh
  BY <1>4, <1>11 DEF Refresh
<1>12. ASSUME NEW s, Import(s) \/ SavedByOthers(s) PROVE KeysInv'
  BY <1>4, <1>5, <1>12 DEF Import, SavedByOthers
<1>13. ASSUME NEW a \in answers, Arrive(a) PROVE KeysInv'
  BY <1>4, <1>13 DEF Arrive
<1>14. QED
  BY <1>1, <1>3, <1>6, <1>7, <1>8, <1>9, <1>10, <1>11, <1>12, <1>13 DEF Next

\* Keys are handled in edit mode only, at most twice, and without an exception the
\* mode is the one selected (toggleMode, enableEdit, enableView in app.js).
THEOREM KeysFollowModeHolds == Spec => []KeysFollowMode
<1>1. Init => KeysInv
  BY DEF Init, KeysInv, Handled
<1>2. Inv /\ KeysInv => KeysFollowMode
  BY DEF Inv, TypeOK, KeysInv, Handled, KeysFollowMode
<1>3. QED
  BY <1>1, <1>2, SpecInv, KeysStep, PTL DEF Spec
=============================================================================
