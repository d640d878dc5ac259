------------------------------ MODULE RoomSync ------------------------------
(***************************************************************************)
(* The clients of a room around the room of JigsawRoom: the canvas of each *)
(* page moves its own copy of the puzzle while it drags, tells the server  *)
(* by messages, and patches the copy with what the server broadcasts.      *)
(* Messages keep their order on each connection; a drop waits in the queue *)
(* of the room, which the other messages overtake.  Joins are one step     *)
(* (see RoomMembership) and connections stay.  The canvas sends no toggle  *)
(* locks: its gesture for them is disabled.                                *)
(***************************************************************************)
EXTENDS JigsawRoom, Sequences

CONSTANT
  MaxGestures   \* bound: gestures of the players and moves of their pointers

ASSUME GesturesAssumption == MaxGestures \in Nat

VARIABLES
  toServer,  \* toServer[c], toClient[c]: the messages on their way
  toClient,
  commands,  \* drops that wait in the queue of the room: <<c, g, t>>
  view,      \* view[c]: the copy of the page, its groupLocks and its pause
  drag,      \* drag[c]: the group dragged and where its pieces started
  gestures,
  upToDate,  \* history: each drag since the last state has kept its group together
             \* and ended in a drop that counted
  silent     \* history: a drag of c has ended without a word to the server

pageVars == <<view, drag, gestures>>
historyVars == <<upToDate, silent>>
syncVars == <<vars, toServer, toClient, commands, pageVars, historyVars>>

NoDrag == [group |-> NoPlayer]

-----------------------------------------------------------------------------
(***************************************************************************)
(* The puzzle as messages carry it, and the copy of a page.                *)
(***************************************************************************)
Puzzle == [offset |-> offset, pieceIds |-> pieceIds, groupOf |-> groupOf,
           lockedGroups |-> lockedGroups, placed |-> placed,
           lockedPieces |-> lockedPieces]

\* toRoomSnapshot: the drag locks are not part of it.
RoomState == [type |-> "state", puzzle |-> Puzzle, paused |-> timer.paused]

Overwritten(p, q, pieces) ==
  [p EXCEPT !.offset = [x \in Piece |-> IF x \in pieces THEN q.offset[x] ELSE @[x]],
            !.groupOf = [x \in Piece |-> IF x \in pieces THEN q.groupOf[x] ELSE @[x]],
            !.placed = (@ \ pieces) \cup (q.placed \cap pieces),
            !.lockedPieces = (@ \ pieces) \cup (q.lockedPieces \cap pieces)]

\* applyStatePatch: the pieces, the groups of these pieces, the groups removed.
Patched(p, m) ==
  LET groups == {m.puzzle.groupOf[x] : x \in m.pieces}
      told == groups \cup m.removed
  IN  [Overwritten(p, m.puzzle, m.pieces) EXCEPT
         !.pieceIds = [g \in Group |-> IF g \in groups THEN m.puzzle.pieceIds[g]
                                       ELSE IF g \in m.removed THEN {} ELSE @[g]],
         !.lockedGroups = (@ \ told) \cup (m.puzzle.lockedGroups \cap groups)]

\* moveGroupToAnchor on the copy.
ViewMoved(p, g, t) ==
  IF p.pieceIds[g] = {} \/ g \in p.lockedGroups THEN p
  ELSE [p EXCEPT !.offset = [x \in Piece |-> IF x \in p.pieceIds[g]
                                             THEN @[x] + t - p.offset[g] ELSE @[x]],
                 !.placed = @ \ p.pieceIds[g]]

\* moveGroupFromSnapshot: the pieces the group had when the drag began.
Dragged(p, d, t) ==
  [p EXCEPT !.offset = [x \in Piece |-> IF x \in DOMAIN d.starts
                          THEN d.starts[x] + t - d.starts[d.group] ELSE @[x]],
            !.placed = @ \ DOMAIN d.starts]

SyncInit ==
  /\ Init
  /\ toServer = [c \in Connection |-> <<>>]
  /\ toClient = [c \in Connection |-> <<>>]
  /\ commands = <<>>
  /\ view = [c \in Connection |-> [puzzle |-> Puzzle, paused |-> FALSE, opened |-> FALSE,
                                   locks |-> [g \in Group |-> NoPlayer]]]
  /\ drag = [c \in Connection |-> NoDrag]
  /\ gestures = 0
  /\ upToDate = [c \in Connection |-> TRUE] /\ silent = [c \in Connection |-> FALSE]

-----------------------------------------------------------------------------
(***************************************************************************)
(* The page.                                                               *)
(***************************************************************************)
Request(c, m) == toServer' = [toServer EXCEPT ![c] = Append(@, m)]
Gesture == gestures < MaxGestures /\ gestures' = gestures + 1
EndsQuietly(c) ==
  /\ drag' = [drag EXCEPT ![c] = NoDrag]
  /\ upToDate' = [upToDate EXCEPT ![c] = @ /\ drag[c] = NoDrag]
  /\ silent' = [silent EXCEPT ![c] = @ \/ drag[c] # NoDrag]
serverUnchanged == UNCHANGED <<vars, toClient, commands>>

\* The snapshot of the page is read, its socket opens and it asks to join.
Open(c) ==
  /\ ~view[c].opened
  /\ view' = [view EXCEPT ![c] = [@ EXCEPT !.puzzle = Puzzle, !.paused = timer.paused,
                                           !.opened = TRUE]]
  /\ Request(c, [type |-> "join"])
  /\ serverUnchanged /\ UNCHANGED <<drag, gestures, historyVars>>

CanDragGroup(c, g) ==
  ~view[c].paused /\ view[c].locks[g] \in {NoPlayer, Owner[c]}

StartDrag(c, x) ==
  LET p == view[c].puzzle
      g == p.groupOf[x]
  IN  /\ view[c].opened /\ drag[c] = NoDrag /\ Gesture
      /\ p.pieceIds[g] # {} /\ x \notin p.lockedPieces /\ g \notin p.lockedGroups
      /\ CanDragGroup(c, g)
      /\ drag' = [drag EXCEPT ![c] = [group |-> g,
                                      starts |-> [y \in p.pieceIds[g] |-> p.offset[y]]]]
      /\ Request(c, [type |-> "grab", group |-> g])
      /\ serverUnchanged /\ UNCHANGED <<view, historyVars>>

\* The position is sent unless one was sent a moment ago or the group is gone.
MoveDrag(c, t) ==
  LET g == drag[c].group
      p == Dragged(view[c].puzzle, drag[c], t)
  IN  /\ drag[c] # NoDrag /\ CanDragGroup(c, g) /\ Gesture
      /\ view' = [view EXCEPT ![c].puzzle = p]
      /\ \/ UNCHANGED toServer
         \/ p.pieceIds[g] # {}
            /\ Request(c, [type |-> "move", group |-> g, to |-> p.offset[g]])
      /\ serverUnchanged /\ UNCHANGED <<drag, historyVars>>

\* The pointer moves in a group that has become unavailable.
CancelDrag(c) ==
  /\ drag[c] # NoDrag /\ ~CanDragGroup(c, drag[c].group)
  /\ EndsQuietly(c)
  /\ serverUnchanged /\ UNCHANGED <<view, gestures, toServer>>

EndDrag(c) ==
  LET g == drag[c].group
      p == view[c].puzzle
      gone == p.pieceIds[g] = {}
  IN  /\ drag[c] # NoDrag
      /\ drag' = [drag EXCEPT ![c] = NoDrag]
      /\ Request(c, IF gone THEN [type |-> "release", group |-> g]
                    ELSE [type |-> "drop", group |-> g, to |-> p.offset[g]])
      /\ upToDate' = [upToDate EXCEPT ![c] = @ /\ ~gone]
      /\ serverUnchanged /\ UNCHANGED <<view, gestures, silent>>

Click(c, type) ==
  /\ view[c].opened /\ Gesture
  /\ type = "arrange" => ~view[c].paused
  /\ type = "pause" => ~view[c].paused
  /\ type = "resume" => view[c].paused
  /\ Request(c, [type |-> type])
  /\ serverUnchanged /\ UNCHANGED <<view, drag, historyVars>>

\* The pieces in hand are still those of their group, in its shape.
KeepsGroup(p, d) ==
  /\ p.pieceIds[d.group] = DOMAIN d.starts
  /\ \A y \in DOMAIN d.starts :
       p.offset[y] - p.offset[d.group] = d.starts[y] - d.starts[d.group]

\* applyServerMessage of the canvas, then of the visit.
Receive(c) ==
  /\ toClient[c] # <<>>
  /\ toClient' = [toClient EXCEPT ![c] = Tail(@)]
  /\ LET m == Head(toClient[c])
         v == view[c]
         state == m.type = "state"
         cancels == \/ m.type \in {"paused", "arranged"}
                    \/ state /\ m.paused
                    \/ m.type = "error" /\ m.paused
     IN  /\ view' = [view EXCEPT ![c] =
              CASE state -> [v EXCEPT !.puzzle = m.puzzle, !.paused = m.paused,
                                      !.locks = [g \in Group |-> NoPlayer]]
                [] m.type = "locked" -> [v EXCEPT !.locks[m.group] = m.player]
                [] m.type = "unlocked" ->
                     [v EXCEPT !.locks = [g \in Group |-> IF g \in m.groups THEN NoPlayer
                                                          ELSE @[g]]]
                [] m.type = "moved" -> [v EXCEPT !.puzzle = ViewMoved(@, m.group, m.to)]
                [] m.type = "patch" -> [v EXCEPT !.puzzle = Patched(@, m)]
                [] m.type = "arranged" ->
                     [v EXCEPT !.puzzle = Overwritten(@, m.puzzle, m.pieces)]
                [] m.type = "paused" -> [v EXCEPT !.paused = TRUE]
                [] m.type = "resumed" -> [v EXCEPT !.paused = FALSE]
                [] m.type = "error" -> v]
         /\ IF cancels THEN EndsQuietly(c)
            ELSE /\ upToDate' = [upToDate EXCEPT ![c] =
                      @ /\ (drag[c] = NoDrag \/ KeepsGroup(view'[c].puzzle, drag[c]))]
                 /\ UNCHANGED <<drag, silent>>
         /\ IF m.type \in {"paused", "error"} THEN Request(c, [type |-> "request_state"])
            ELSE UNCHANGED toServer
  /\ UNCHANGED <<vars, commands, gestures>>

-----------------------------------------------------------------------------
(***************************************************************************)
(* The server takes the messages of a connection in their order.           *)
(***************************************************************************)
Take(c) == toServer' = [toServer EXCEPT ![c] = Tail(@)]
Asks(c, type) == toServer[c] # <<>> /\ Head(toServer[c]).type = type
Wanted(c) == Head(toServer[c])

\* Broadcasts ms to everyone in the room but those in except.
BroadcastExcept(except, ms) ==
  toClient' = [d \in Connection |->
                 IF d \in connections \ except THEN toClient[d] \o ms ELSE toClient[d]]
Broadcast(c, ms) == BroadcastExcept({}, ms)

Answer(c, m) == toClient' = [toClient EXCEPT ![c] = Append(@, m)]
pagesUnchanged == UNCHANGED <<commands, pageVars, historyVars>>

\* A full state makes up for the drags of a page, once they are over and no move
\* of them is on its way any more.
AnswerWithState(c) ==
  /\ Answer(c, RoomState)
  /\ upToDate' = [upToDate EXCEPT ![c] =
       \/ @
       \/ /\ drag[c] = NoDrag
          /\ \A i \in DOMAIN toServer[c] : toServer[c][i].type # "move"]
  /\ UNCHANGED <<commands, pageVars, silent>>

HandleJoin(c) ==
  /\ Asks(c, "join") /\ Take(c)
  /\ Join(c) /\ AnswerWithState(c)

HandleStateRequest(c) ==
  /\ Asks(c, "request_state") /\ Take(c)
  /\ AnswerWithState(c)
  /\ UNCHANGED vars

Refusal == [type |-> "error", paused |-> timer.paused]

MayGrab(c, g) ==
  /\ ~timer.paused /\ Exists(g) /\ g \notin lockedGroups
  /\ ~DraggedByOther(Owner[c], g)

HandleGrab(c) ==
  LET g == Wanted(c).group
  IN  /\ Asks(c, "grab") /\ Take(c)
      /\ \/ /\ GrabGroup(c, g)
            /\ Broadcast(c, <<[type |-> "locked", group |-> g, player |-> Owner[c]]>>)
         \/ ~MayGrab(c, g) /\ Answer(c, Refusal) /\ UNCHANGED vars
      /\ pagesUnchanged

HandleMove(c) ==
  LET g == Wanted(c).group
      t == Wanted(c).to
      move == [type |-> "moved", group |-> g, to |-> t]
  IN  /\ Asks(c, "move") /\ Take(c)
      /\ \/ /\ MoveGroup(c, g, t)
            /\ BroadcastExcept({c}, IF Exists(g) /\ g \notin lockedGroups
                                    THEN <<move>> ELSE <<>>)
         \/ /\ timer.paused \/ dragLocks[g] # Owner[c]
            /\ Answer(c, Refusal) /\ UNCHANGED vars
      /\ pagesUnchanged

\* Mutant: the groups are left out.
UnlockedNothing(groups) == [type |-> "unlocked", groups |-> {}]
Unlocked(groups) == [type |-> "unlocked", groups |-> groups]

HandleRelease(c) ==
  LET g == Wanted(c).group
  IN  /\ Asks(c, "release") /\ Take(c)
      /\ \/ ReleaseGroup(c, g) /\ Broadcast(c, <<Unlocked({g})>>)
         \/ dragLocks[g] # Owner[c] /\ UNCHANGED <<vars, toClient>>
      /\ pagesUnchanged

HandleArrange(c) ==
  /\ Asks(c, "arrange") /\ Take(c)
  /\ \/ /\ ArrangeGroups(c)
        /\ Broadcast(c, <<[type |-> "arranged", puzzle |-> Puzzle',
                           pieces |-> UNION {pieceIds[g] : g \in LooseGroups}]>>)
     \/ (timer.paused \/ LooseGroups = {}) /\ UNCHANGED <<vars, toClient>>
  /\ pagesUnchanged

HandlePause(c) ==
  /\ Asks(c, "pause") /\ Take(c)
  /\ \/ /\ Pause(c)
        /\ Broadcast(c, <<Unlocked({g \in Group : dragLocks[g] # NoPlayer}),
                          [type |-> "paused"]>>)
     \/ timer.paused /\ UNCHANGED <<vars, toClient>>
  /\ pagesUnchanged

HandleResume(c) ==
  /\ Asks(c, "resume") /\ Take(c)
  /\ \/ Resume(c) /\ Broadcast(c, <<[type |-> "resumed"]>>)
     \/ ~timer.paused /\ UNCHANGED <<vars, toClient>>
  /\ pagesUnchanged

\* runRoomCommand: a drop waits for its turn while the room goes on.
HandleDrop(c) ==
  /\ Asks(c, "drop") /\ Take(c)
  /\ commands' = Append(commands, <<c, Wanted(c).group, Wanted(c).to>>)
  /\ UNCHANGED <<vars, toClient, pageVars, historyVars>>

\* What everyone is told of the drop of group g.
DropMessage(g) ==
  IF snapCount' # snapCount
  THEN [type |-> "patch", puzzle |-> Puzzle', pieces |-> pieceIds'[g],
        removed |-> {h \in Group : Exists(h) /\ pieceIds'[h] = {}}]
  ELSE [type |-> "moved", group |-> g, to |-> offset'[g]]

\* dropGroupCommand once the events are flushed: the drop counts, gives the
\* lock back, or finds none and does nothing.
RunDrop ==
  /\ commands # <<>>
  /\ commands' = Tail(commands)
  /\ LET c == Head(commands)[1]
         g == Head(commands)[2]
     IN  \/ /\ DropGroup(c, g, Head(commands)[3])
            /\ Broadcast(c, <<DropMessage(g), Unlocked({g})>>)
            /\ UNCHANGED upToDate
         \/ /\ DropRejected(c, g) /\ Broadcast(c, <<Unlocked({g})>>)
            /\ upToDate' = [upToDate EXCEPT ![c] = FALSE]
         \/ /\ dragLocks[g] # Owner[c]
            /\ UNCHANGED <<vars, toClient>>
            /\ upToDate' = [upToDate EXCEPT ![c] = FALSE]
  /\ UNCHANGED <<toServer, pageVars, silent>>

Serve(c) ==
  \/ HandleJoin(c) \/ HandleStateRequest(c) \/ HandleGrab(c) \/ HandleMove(c)
  \/ HandleRelease(c) \/ HandleArrange(c) \/ HandlePause(c) \/ HandleResume(c)
  \/ HandleDrop(c)

SyncNext ==
  \/ \E c \in Connection :
       \/ Open(c) \/ EndDrag(c) \/ CancelDrag(c) \/ Receive(c) \/ Serve(c)
       \/ \E x \in Piece : StartDrag(c, x)
       \/ \E t \in Offset : MoveDrag(c, t)
       \/ \E type \in {"arrange", "pause", "resume"} : Click(c, type)
  \/ RunDrop

SyncSpec == SyncInit /\ [][SyncNext]_syncVars

-----------------------------------------------------------------------------
(* Properties *)

SyncTypeOK ==
  /\ TypeOK
  /\ \A c \in Connection :
       /\ view[c].puzzle.offset \in [Piece -> Int]
       /\ view[c].locks \in [Group -> Player \cup {NoPlayer}]
       /\ view[c].paused \in BOOLEAN /\ view[c].opened \in BOOLEAN
       /\ drag[c].group \in Group \cup {NoPlayer}
  /\ gestures \in 0..MaxGestures
  /\ upToDate \in [Connection -> BOOLEAN] /\ silent \in [Connection -> BOOLEAN]

\* Nothing of c is on its way and its player holds no piece.
Quiet(c) ==
  /\ c \in connections /\ toServer[c] = <<>> /\ toClient[c] = <<>>
  /\ \A i \in DOMAIN commands : commands[i][1] # c
  /\ drag[c] = NoDrag

\* A page that is quiet shows the puzzle of the server, whatever overtook its
\* drops and whatever other pages of its player do, as long as its drags since
\* the last full state kept their groups together and ended in drops that
\* counted: the patches of the room and the moves of the page itself add up.
SettledPagesAgree ==
  \A c \in Connection : Quiet(c) /\ upToDate[c] => view[c].puzzle = Puzzle

\* A page that has read everything shows a group as taken only if it is: no
\* path that gives a lock back forgets to say so, and none is left out by a
\* full state, which carries no locks.
NoPhantomLocks ==
  \A c \in connections, g \in Group :
    toClient[c] = <<>> /\ view[c].locks[g] # NoPlayer
      => view[c].locks[g] = dragLocks[g]

\* A lock that a quiet page still holds is one whose drag it dropped without a
\* word to the server: every other end of a drag gives the lock back, also
\* where the drop was refused, or the group was gone. Two pages of a player
\* share its locks.
OnlyPage(c) == \A d \in connections : Owner[d] = Owner[c] => d = c
LocksEndWithDrags ==
  \A c \in connections, g \in Group :
    Quiet(c) /\ OnlyPage(c) /\ dragLocks[g] = Owner[c] => silent[c]

\* A page that has read its messages agrees with the server on the puzzle and on
\* who holds what, although it moved pieces before the server had agreed.
SyncInv ==
  /\ SyncTypeOK
  /\ SettledPagesAgree
  /\ NoPhantomLocks
  /\ LocksEndWithDrags

\* README.md:3 promises shared, real-time rooms: a page that is quiet shows
\* what the server has.  The canvas moves pieces before the server agrees, a
\* refused drop is not answered, and the pieces in hand are those that the group
\* had when it was taken up.
QuietPagesAgree ==
  \A c \in Connection : Quiet(c) => view[c].puzzle = Puzzle

=============================================================================
