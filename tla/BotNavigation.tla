---------------------------- MODULE BotNavigation ----------------------------
(***************************************************************************)
(* The navigation message of the bot in one chat: the menu, the pages of   *)
(* the list of compositions, a composition's card, and the question before *)
(* it is deleted. Updates are handled one after the other, and those that  *)
(* wait were made from what the chat showed then. A handler deletes the    *)
(* messages it knows of and sends or edits one; the session it has changed *)
(* is written if it returns, and lost if a call throws.                    *)
(***************************************************************************)
EXTENDS Naturals, SequencesExt, FiniteSetsExt

CONSTANTS
  PageSize,         \* LIMITS.telegram.pageSize
  MaxStale,         \* how many failed deletions a session remembers
  BuiltBefore,      \* bound: compositions that are there at first
  MaxWaiting, MaxNavUpdates, MaxNavFaults   \* bounds

Nil == 0

VARIABLES
  shownMessages,    \* the chat: [id, photo, view]
  lastMessage,      \* the last message id
  navSession,       \* the session as it was last written
  waiting,          \* updates that wait for their turn
  navUpdates,
  created,          \* compositions made so far; a page lists the latest first
  collecting,       \* those that are not built yet
  ready,            \* those that are built and not canceled
  inRender,         \* the one that is being rendered, which no list shows
  navFaults,
  unknown,          \* history: messages that no session can know
  askedAbout        \* history: compositions a question was shown for

navVars == <<shownMessages, lastMessage, navSession, waiting, navUpdates, created, collecting,
             ready, inRender, navFaults, unknown, askedAbout>>

\* A bound: the more goes wrong, the fewer updates there are.
InBounds(updates, faults) ==
  faults <= MaxNavFaults /\ updates + faults <= MaxNavUpdates

NavigationInit ==
  /\ shownMessages = {} /\ lastMessage = 0
  /\ navSession = [nav |-> Nil, stale |-> << >>, menu |-> FALSE, active |-> Nil]
  /\ waiting = << >> /\ navUpdates = 0 /\ navFaults = 0 /\ unknown = {} /\ askedAbout = {}
  /\ created \in 0..BuiltBefore /\ collecting = {} /\ ready = 1..created /\ inRender = Nil

-----------------------------------------------------------------------------
(* Views and their buttons                                                 *)

\* activeUserCompositions
InList == ready \ {inRender}
Visible(list, page) ==
  LET newest == SetToSortSeq(list, >)
  IN  {newest[i] : i \in DOMAIN newest \cap (page * PageSize + 1)..((page + 1) * PageSize)}

MakeView(kind, page, items, next) == [kind |-> kind, page |-> page, items |-> items, next |-> next]
Text(kind) == MakeView(kind, 0, {}, FALSE)
Typed == Text("typed")

\* renderListPage
PageView(list, page) ==
  IF Visible(list, page) = {} THEN MakeView("empty", page, {}, FALSE)
  ELSE MakeView("page", page, Visible(list, page), Cardinality(list) > (page + 1) * PageSize)
\* renderCompositionCard and renderDeleteConfirm
ViewOf(kind, c, page) ==
  IF c \in InList THEN MakeView(kind, page, {c}, FALSE) ELSE MakeView("missing", page, {}, FALSE)

HasMedia(view) == view.kind \in {"page", "card", "question"}

Button(does, page, c) == [does |-> does, page |-> page, c |-> c]
MenuRow == {Button("new", 0, Nil), Button("home", 0, Nil)}

Back(view) == IF view.page > 0 THEN {Button("page", view.page - 1, Nil)} ELSE {}

Buttons(view) ==
  LET c == CHOOSE x \in view.items : TRUE IN
  CASE view.kind = "page" ->
         {Button("card", view.page, x) : x \in view.items} \cup Back(view)
           \cup (IF view.next THEN {Button("page", view.page + 1, Nil)} ELSE {}) \cup MenuRow
    [] view.kind = "empty" -> Back(view) \cup MenuRow
    [] view.kind = "missing" -> {Button("page", view.page, Nil)} \cup MenuRow
    [] view.kind = "card" -> {Button("question", view.page, c), Button("page", view.page, Nil)} \cup MenuRow
    [] view.kind = "question" -> {Button("delete", view.page, c), Button("card", view.page, c)} \cup MenuRow
    [] view.kind = "home" -> {Button("new", 0, Nil), Button("list", 0, Nil), Button("help", 0, Nil)}
    [] view.kind = "link" -> {Button("new", 0, Nil), Button("list", 0, Nil)}
    [] OTHER -> {}
ListButtons == {"page", "card", "question", "delete"}

-----------------------------------------------------------------------------
(* What a handler does to the chat, its session and the compositions       *)

World == [chat |-> shownMessages, last |-> lastMessage, session |-> navSession,
          created |-> created, collecting |-> collecting, ready |-> ready, asked |-> askedAbout, unknown |-> unknown]

\* rememberFailedMessageDeletion: the oldest of too many is dropped.
KeptForRetry(w, id) ==
  LET kept == Append(Remove(w.session.stale, id), id)
      all == IF Contains(w.session.stale, id) THEN w.session.stale ELSE kept
      dropped == IF Len(all) > MaxStale THEN {Head(all)} ELSE {}
  IN  [w EXCEPT !.session.stale = SelectSeq(all, LAMBDA i : i \notin dropped),
                !.unknown = @ \cup dropped]

\* deleteMessageSafe: it is gone, it is kept for a later attempt, or Telegram
\* refuses for good, which counts as gone. fate holds what goes wrong.
DeletedOrKept(w, id, fate) ==
  IF id \in fate.kept THEN KeptForRetry(w, id)
  ELSE IF id \in fate.refused THEN [w EXCEPT !.unknown = @ \cup {id}]
  ELSE [w EXCEPT !.chat = {m \in @ : m.id # id}]

\* clearNavigationMessage
Cleared(w, fate) ==
  LET ids == w.session.stale \o (IF w.session.nav = Nil \/ Contains(w.session.stale, w.session.nav)
                                 THEN << >> ELSE <<w.session.nav>>)
  IN  FoldLeft(LAMBDA v, id : DeletedOrKept(v, id, fate),
               [w EXCEPT !.session.nav = Nil, !.session.stale = << >>], ids)

\* A reply that becomes the navigation message.
Replied(w, view) ==
  [w EXCEPT !.last = @ + 1, !.session.nav = w.last + 1,
            !.chat = @ \cup {[id |-> w.last + 1, photo |-> HasMedia(view), view |-> view]}]
MainMenu(w, fate) == [Replied(Cleared(w, fate), Text("menu")) EXCEPT !.session.menu = TRUE]
WithMenu(w, fate) == IF w.session.menu THEN w ELSE MainMenu(w, fate)

\* editToView
Edited(w, id, view) ==
  [w EXCEPT !.chat = {IF m.id = id THEN [m EXCEPT !.view = view, !.photo = @ \/ HasMedia(view)] ELSE m : m \in @},
            !.asked = IF view.kind = "question" THEN @ \cup view.items ELSE @]

\* A handler has a world before its last call, and one after it.
Calls(before, after) == [before |-> before, after |-> after]
RepliesAfter(w, view) == Calls(w, Replied(w, view))
RepliesWithMenu(w, fate) == Calls(Cleared(w, fate), MainMenu(w, fate))

HandleList(w, fate) == RepliesAfter(Cleared(WithMenu(w, fate), fate), PageView(InList, 0))

\* handleNew: an upload that goes on gets its panel back.
HandleNew(w, fate) ==
  LET c == Cleared(WithMenu(w, fate), fate) IN
  IF w.session.active # Nil THEN Calls(c, c)
  ELSE Calls(c, [c EXCEPT !.created = @ + 1, !.collecting = @ \cup {w.created + 1},
                          !.session.active = w.created + 1])

\* handleCommit: there is an active composition that is built or can be; an
\* upload may have no pictures, and a composition may be canceled or rendered.
HandleCommit(w, fate, empty) ==
  LET c == w.session.active
      built == [w EXCEPT !.ready = @ \cup {c}, !.collecting = @ \ {c}]
      linked == Cleared(WithMenu(built, fate), fate)
      ended(v) == [v EXCEPT !.session.active = Nil]
  IN  IF c \in InList \/ (c \in w.collecting /\ ~empty)
      THEN Calls(linked, ended(Replied(linked, Text("link"))))
      ELSE IF c = Nil \/ c \in w.collecting THEN RepliesWithMenu(w, fate)
      ELSE RepliesWithMenu(ended(w), fate)

HandleReset(w, fate) ==
  LET c == w.session.active IN
  RepliesWithMenu([w EXCEPT !.ready = @ \ {c}, !.collecting = @ \ {c}, !.session.active = Nil], fate)

\* Mutant: what is deleted is what comes first on the page by now.
FirstOfPage(button) == {Max(p) : p \in {Visible(InList, button.page)} \ {{}}}
\* getCompositionById, for deleteComposition
Target(button) == {button.c} \cap InList

\* handleListAction
HandleListAction(w, id, button) ==
  LET edits(v, view) == Calls(v, Edited(v, id, view))
      without == [w EXCEPT !.ready = @ \ Target(button)]
  IN  CASE button.does = "page" -> edits(w, PageView(InList, button.page))
        [] button.does \in {"card", "question"} -> edits(w, ViewOf(button.does, button.c, button.page))
        [] button.does = "delete" -> edits(without, PageView(InList \ Target(button), button.page))

-----------------------------------------------------------------------------
(* Updates                                                                 *)

Waits(update) ==
  /\ Len(waiting) < MaxWaiting
  /\ InBounds(navUpdates + 1, navFaults) /\ navUpdates' = navUpdates + 1
  /\ waiting' = Append(waiting, update)
  /\ UNCHANGED <<navSession, created, collecting, ready, inRender, navFaults, unknown, askedAbout>>

Type(command) ==
  /\ Waits([message |-> lastMessage + 1, command |-> command, button |-> Button(command, 0, Nil)])
  /\ lastMessage' = lastMessage + 1
  /\ shownMessages' = shownMessages \cup {[id |-> lastMessage + 1, photo |-> FALSE, view |-> Typed]}

Press(m, button) ==
  /\ Waits([message |-> m.id, command |-> "press", button |-> button])
  /\ UNCHANGED <<lastMessage, shownMessages>>

\* Mutant: every callback is taken.
ClaimsAny(id) == TRUE
\* claimNavigationCallback
Claims(id) == navSession.nav \in {Nil, id}

CommandCalls(w, command, fate, empty) ==
  CASE command = "start" -> RepliesWithMenu(w, fate)
    [] command = "list" -> HandleList(w, fate)
    [] command = "new" -> HandleNew(w, fate)
    [] command = "commit" -> HandleCommit(w, fate, empty)
    [] command = "reset" -> HandleReset(w, fate)

ButtonCalls(w, id, button, fate) ==
  LET claimed == [w EXCEPT !.session.nav = id] IN
  CASE button.does = "new" -> HandleNew(claimed, fate)
    [] button.does = "list" -> HandleList(claimed, fate)
    [] button.does \in {"home", "help"} -> RepliesAfter(Cleared(claimed, fate), Text("home"))
    [] OTHER -> HandleListAction(claimed, id, button)

\* The world is there, whatever of the session is written.
Becomes(w) ==
  /\ shownMessages' = w.chat /\ lastMessage' = w.last /\ navSession' = w.session
  /\ created' = w.created /\ collecting' = w.collecting /\ ready' = w.ready /\ askedAbout' = w.asked /\ unknown' = w.unknown

\* A handler that threw: its messages are in the chat, and its session is lost.
SessionLost(w) ==
  [w EXCEPT !.session = navSession,
            !.unknown = @ \cup {m.id : m \in {n \in w.chat : n.id > lastMessage}}]

FirstWaiting == Head(waiting)
IsTyped == FirstWaiting.command # "press"
\* deleteIncomingMessage, at the end
Ended(w, fate) == IF IsTyped THEN DeletedOrKept(w, FirstWaiting.message, fate) ELSE w
EndedInVain(w, fate) ==
  LET v == SessionLost(Ended(w, fate)) IN
  IF IsTyped /\ FirstWaiting.message \in fate.kept THEN [v EXCEPT !.unknown = @ \cup {FirstWaiting.message}] ELSE v

\* The messages that a handler may delete.
Deletes == (ToSet(navSession.stale) \cup {navSession.nav, FirstWaiting.message, lastMessage + 1}) \ {Nil}
Fates == {f \in [kept : SUBSET Deletes, refused : SUBSET Deletes] : f.kept \cap f.refused = {}}
FaultsOf(fate) == Cardinality(fate.kept) + Cardinality(fate.refused)

\* An edit of a message that is gone, or of a text as a picture's caption, throws.
EditIsPossible ==
  IsTyped \/ FirstWaiting.button.does \notin ListButtons
    \/ \E m \in shownMessages : m.id = FirstWaiting.message /\ m.photo

HandleUpdate(fate, calls) ==
  /\ InBounds(navUpdates, navFaults + FaultsOf(fate))
  /\ waiting' = Tail(waiting)
  /\ \/ /\ EditIsPossible /\ Becomes(Ended(calls.after, fate))
        /\ navFaults' = navFaults + FaultsOf(fate)
     \/ /\ ~EditIsPossible /\ Becomes(EndedInVain(calls.before, fate))
        /\ navFaults' = navFaults + FaultsOf(fate)
     \/ /\ InBounds(navUpdates, navFaults + FaultsOf(fate) + 1)
        /\ navFaults' = navFaults + FaultsOf(fate) + 1
        /\ \E w \in {World, calls.before, calls.after} : Becomes(EndedInVain(w, fate))
  /\ UNCHANGED <<navUpdates, inRender>>

HandleCommand ==
  /\ waiting # << >> /\ IsTyped
  /\ \E fate \in Fates, empty \in BOOLEAN :
       HandleUpdate(fate, CommandCalls(World, FirstWaiting.command, fate, empty))

HandleButton ==
  /\ waiting # << >> /\ ~IsTyped /\ Claims(FirstWaiting.message)
  /\ \E fate \in Fates :
       HandleUpdate(fate, ButtonCalls(World, FirstWaiting.message, FirstWaiting.button, fate))

RefuseButton ==
  /\ waiting # << >> /\ ~IsTyped /\ ~Claims(FirstWaiting.message)
  /\ waiting' = Tail(waiting)
  /\ UNCHANGED <<shownMessages, lastMessage, navSession, navUpdates, created, collecting, ready,
                 inRender, navFaults, unknown, askedAbout>>

\* startBot drops the updates that wait.
BotStarts ==
  /\ waiting # << >> /\ InBounds(navUpdates, navFaults + 1) /\ navFaults' = navFaults + 1
  /\ waiting' = << >>
  /\ unknown' = unknown \cup {u.message : u \in {v \in ToSet(waiting) : v.command # "press"}}
  /\ UNCHANGED <<shownMessages, lastMessage, navSession, navUpdates, created, collecting, ready,
                 inRender, askedAbout>>

\* A render sets its composition to processing, and then to completed.
RenderBegins(c) ==
  /\ inRender = Nil /\ inRender' = c
  /\ UNCHANGED <<shownMessages, lastMessage, navSession, waiting, navUpdates, created, collecting, ready,
                 navFaults, unknown, askedAbout>>
RenderDone ==
  /\ inRender # Nil /\ inRender' = Nil
  /\ UNCHANGED <<shownMessages, lastMessage, navSession, waiting, navUpdates, created, collecting, ready,
                 navFaults, unknown, askedAbout>>

NavigationNext ==
  \/ \E command \in {"start", "list", "new", "commit", "reset"} : Type(command)
  \/ \E m \in shownMessages : \E button \in Buttons(m.view) : Press(m, button)
  \/ HandleCommand \/ HandleButton \/ RefuseButton \/ BotStarts
  \/ (\E c \in ready : RenderBegins(c)) \/ RenderDone

NavigationSpec == NavigationInit /\ [][NavigationNext]_navVars

-----------------------------------------------------------------------------
(* Correctness                                                             *)

\* A session remembers so many messages and no more, each once; what a view
\* names was made.
NavigationTypeOK ==
  /\ Len(navSession.stale) <= MaxStale /\ IsInjective(navSession.stale)
  /\ \A m, n \in shownMessages : m.id = n.id => m = n
  /\ \A m \in shownMessages : m.id <= lastMessage /\ m.view.items \subseteq 1..created
  /\ navSession.active \in {Nil} \cup 1..created /\ ready \subseteq 1..created

\* No message is left behind in the chat: each one that waits for no update is
\* known to the session, unless Telegram refused to delete it, too many could
\* not be deleted, or the handler that sent it failed or never ran.
MessagesAreKnown ==
  \A m \in shownMessages :
    \/ m.id = navSession.nav \/ Contains(navSession.stale, m.id) \/ m.id \in unknown
    \/ m.view = Typed /\ \E i \in DOMAIN waiting : waiting[i].message = m.id

\* The buttons that edit their message into another view are on messages with
\* a picture: the caption of a text cannot be edited.
PressesFindPhotos ==
  \A m \in shownMessages : (\E b \in Buttons(m.view) : b.does \in ListButtons) => m.photo

\* The messages of the menu and the list are known to the session, and each has
\* only buttons that can edit it, whatever calls of Telegram fail.
NavigationInv ==
  /\ NavigationTypeOK
  /\ MessagesAreKnown
  /\ PressesFindPhotos

\* However late a press is handled, what is deleted is a composition a question
\* was shown for, or the upload that is reset.
DeletedOnRequest ==
  [][\A c \in ready \ ready' : c \in askedAbout \/ c = navSession.active]_navVars
=============================================================================
