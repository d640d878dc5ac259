----------------------------- MODULE RoomCursors -----------------------------
(***************************************************************************)
(* The cursors of the players and their chat bubbles: what the server      *)
(* keeps of a room, what it broadcasts, and the views each page draws of   *)
(* the other players. A page is built from a snapshot that it read before  *)
(* it joined. Broadcasts reach the sockets whose join has returned, so a   *)
(* join that fails after it entered the room leaves a page that can speak  *)
(* and does not hear. A leave forgets the cursor first and tells the       *)
(* others after its save, when the player may be back.                     *)
(***************************************************************************)
EXTENDS Naturals, Sequences

CONSTANTS
  Tab,           \* the pages, each with its socket
  Guest,         \* the players
  GuestOf,       \* GuestOf[t]: the player of page t
  MaxSignals     \* bound: moves, hides, names and chat messages

ASSUME CursorsAssumption == GuestOf \in [Tab -> Guest]

VARIABLES
  page,       \* page[t]: "none", "open", "entered", "joined", "deaf" or "left"
  leaves,     \* the players whose leave awaits its save
  cursors,    \* room.cursors
  inbox,      \* inbox[t]: the messages on their way to page t
  views,      \* views[t][g]: the view of a player, or NoView
  signals,    \* how many signals there were
  late        \* history: players whose cursor a late leave has hidden

cursorVars == <<page, leaves, cursors, inbox, views, signals, late>>

NoView == [drawn |-> FALSE, active |-> FALSE, bubble |-> FALSE]
InRoom(t) == page[t] \in {"entered", "joined", "deaf"}

CursorsInit ==
  /\ page = [t \in Tab |-> "none"]
  /\ leaves = {} /\ cursors = {} /\ signals = 0 /\ late = {}
  /\ inbox = [t \in Tab |-> << >>]
  /\ views = [t \in Tab |-> [g \in Guest |-> NoView]]

-----------------------------------------------------------------------------
(* The views of a page                                                     *)

\* applyCursor
Applied(view) == [view EXCEPT !.drawn = TRUE, !.active = TRUE]
\* removeCursor: a view whose bubble is shown stays until the bubble ends.
Removed(view) == IF view.bubble THEN [view EXCEPT !.active = FALSE] ELSE NoView

\* Mutant: the views of players who are not in the list stay.
OnlyApplied(old, t, shown) ==
  [g \in Guest |-> IF g \in shown /\ g # GuestOf[t] THEN Applied(old[g]) ELSE old[g]]
\* syncCursors
Synced(old, t, shown) ==
  [g \in Guest |-> IF g \in shown /\ g # GuestOf[t] THEN Applied(old[g]) ELSE Removed(old[g])]

\* showChatMessage: a message without a position needs a view.
Chatted(view, placed) ==
  IF view.drawn \/ placed THEN [view EXCEPT !.drawn = TRUE, !.bubble = TRUE] ELSE view

IsOther(t, g) == g # GuestOf[t]

\* applyServerMessage
Received(old, t, m) ==
  CASE m.type = "state" -> Synced(old, t, m.cursors)
    [] m.type = "moved" -> IF IsOther(t, m.by) THEN [old EXCEPT ![m.by] = Applied(@)] ELSE old
    [] m.type \in {"hidden", "left"} -> [old EXCEPT ![m.by] = Removed(@)]
    [] m.type = "chat" -> IF IsOther(t, m.by) THEN [old EXCEPT ![m.by] = Chatted(@, m.placed)] ELSE old

\* createJigsawRoomCanvas, with the snapshot that the page has read.
OpenPage(t) ==
  /\ page[t] = "none" /\ page' = [page EXCEPT ![t] = "open"]
  /\ views' = [views EXCEPT ![t] = Synced(@, t, cursors)]
  /\ UNCHANGED <<leaves, cursors, inbox, signals, late>>

Receive(t) ==
  /\ inbox[t] # << >> /\ inbox' = [inbox EXCEPT ![t] = Tail(@)]
  /\ views' = [views EXCEPT ![t] = Received(@, t, Head(inbox[t]))]
  /\ UNCHANGED <<page, leaves, cursors, signals, late>>

WithoutBubble(view) == IF view.active THEN [view EXCEPT !.bubble = FALSE] ELSE NoView

\* updateScales, when the time of a bubble is over.
BubbleEnds(t, g) ==
  /\ views[t][g].bubble
  /\ views' = [views EXCEPT ![t][g] = WithoutBubble(@)]
  /\ UNCHANGED <<page, leaves, cursors, inbox, signals, late>>

-----------------------------------------------------------------------------
(* The server                                                              *)

\* publisher.broadcast and broadcastExcept.
Tell(except, messages) ==
  inbox' = [t \in Tab |-> IF page[t] = "joined" /\ t \notin except THEN inbox[t] \o messages ELSE inbox[t]]

EnterCursorRoom(t) ==
  /\ page[t] = "open" /\ page' = [page EXCEPT ![t] = "entered"]
  /\ UNCHANGED <<leaves, cursors, inbox, views, signals, late>>

\* The join sends its page the state, and the controller notes the room.
JoinReturns(t) ==
  /\ page[t] = "entered" /\ page' = [page EXCEPT ![t] = "joined"]
  /\ inbox' = [inbox EXCEPT ![t] = Append(@, [type |-> "state", cursors |-> cursors])]
  /\ UNCHANGED <<leaves, cursors, views, signals, late>>

\* The append or the save of the join fails: clearRoomContext.
JoinThrows(t) ==
  /\ page[t] = "entered" /\ page' = [page EXCEPT ![t] = "deaf"]
  /\ UNCHANGED <<leaves, cursors, inbox, views, signals, late>>

Signal == signals < MaxSignals /\ signals' = signals + 1

MoveCursor(t) ==
  /\ InRoom(t) /\ Signal
  /\ cursors' = cursors \cup {GuestOf[t]}
  /\ Tell({t}, <<[type |-> "moved", by |-> GuestOf[t]]>>)
  /\ late' = late \ {GuestOf[t]}
  /\ UNCHANGED <<page, leaves, views>>

HideCursor(t) ==
  /\ InRoom(t) /\ Signal /\ GuestOf[t] \in cursors
  /\ cursors' = cursors \ {GuestOf[t]}
  /\ Tell({t}, <<[type |-> "hidden", by |-> GuestOf[t]]>>)
  /\ UNCHANGED <<page, leaves, views, late>>

\* sendChatMessage, with the last position of the pointer if there is one.
Chat(t, placed) ==
  /\ InRoom(t) /\ Signal
  /\ Tell({}, <<[type |-> "chat", by |-> GuestOf[t], placed |-> placed]>>)
  /\ UNCHANGED <<page, leaves, cursors, views, late>>

\* updateSessionPlayer: the cursor is told again, with the new name.
RenameGuest(g) ==
  /\ \E t \in Tab : InRoom(t) /\ GuestOf[t] = g
  /\ g \in cursors /\ Signal
  /\ Tell({}, <<[type |-> "moved", by |-> g]>>)
  /\ late' = late \ {g}
  /\ UNCHANGED <<page, leaves, cursors, views>>

\* disconnectCommand: the last page of a player takes the cursor along.
BeginLeaving(t) ==
  LET g == GuestOf[t]
      stays == \E u \in Tab \ {t} : InRoom(u) /\ GuestOf[u] = g
  IN  /\ InRoom(t) /\ page' = [page EXCEPT ![t] = "left"]
      /\ cursors' = IF stays THEN cursors ELSE cursors \ {g}
      /\ leaves' = IF stays THEN leaves ELSE leaves \cup {g}
      /\ inbox' = [inbox EXCEPT ![t] = << >>]
      /\ UNCHANGED <<views, signals, late>>

\* Its save is answered: the others are told, whoever has come back.
EndLeaving(g) ==
  /\ g \in leaves /\ leaves' = leaves \ {g}
  /\ Tell({}, <<[type |-> "hidden", by |-> g], [type |-> "left", by |-> g]>>)
  /\ late' = late \cup (cursors \cap {g})
  /\ UNCHANGED <<page, cursors, views, signals>>

CursorsNext ==
  \/ \E t \in Tab :
       \/ OpenPage(t) \/ Receive(t) \/ EnterCursorRoom(t) \/ JoinReturns(t) \/ JoinThrows(t)
       \/ MoveCursor(t) \/ HideCursor(t) \/ BeginLeaving(t)
       \/ \E placed \in BOOLEAN : Chat(t, placed)
       \/ \E g \in Guest : BubbleEnds(t, g)
  \/ \E g \in Guest : RenameGuest(g) \/ EndLeaving(g)

CursorsSpec == CursorsInit /\ [][CursorsNext]_cursorVars

-----------------------------------------------------------------------------
(* Correctness                                                             *)

\* No page draws its own player, and the room keeps no cursor of a player who
\* is not in it.
CursorsTypeOK ==
  /\ \A t \in Tab : ~views[t][GuestOf[t]].drawn
  /\ \A g \in cursors : \E t \in Tab : InRoom(t) /\ GuestOf[t] = g

\* A view of a player whose cursor is not shown has a bubble, and goes with it:
\* however moves, messages and leaves follow each other, no view is left over.
NoViewIsLeftOver ==
  \A t \in Tab, g \in Guest :
    views[t][g].drawn <=> views[t][g].active \/ views[t][g].bubble

\* A page that has read its messages shows the cursors the server has, unless
\* a leave was told late, after the player had come back and moved.
CursorsSettle ==
  \A t \in Tab : page[t] = "joined" /\ inbox[t] = << >> =>
    \A g \in Guest \ (late \cup leaves \cup {GuestOf[t]}) :
      views[t][g].active <=> g \in cursors

\* The cursors that a page draws are those of the others in the room, once it has
\* read its messages; nothing of those who are gone stays.
CursorsInv ==
  /\ CursorsTypeOK
  /\ NoViewIsLeftOver
  /\ CursorsSettle
=============================================================================
