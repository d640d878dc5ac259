----------------------------- MODULE JigsawRoom -----------------------------
(***************************************************************************)
(* One active room in the server's memory: the puzzle, the connections and *)
(* players in it, the drag locks, the toggle locks and the timer, under    *)
(* the commands of services/room.  The server runs on one thread, so each  *)
(* command is one step, except disconnect: it awaits the event log in the  *)
(* middle and other messages are handled there.  drop, toggleLock and      *)
(* disconnect go through the room's queue and wait for a disconnect to     *)
(* finish; the other messages do not.                                      *)
(*                                                                         *)
(* Event persistence always succeeds here; RoomPersistence has failures.   *)
(***************************************************************************)
EXTENDS JigsawGroups

CONSTANTS
  Connection,   \* the sockets that may join
  Player,       \* the players
  Owner,        \* Owner[c]: the player of the session that c joins with
  LockTarget,   \* the lock targets that clients ask for: <<type, id>>
  MaxTime,      \* bound on the clock
  NoPlayer,     \* no drag lock
  NoConnection  \* no toggle lock; no disconnect in progress

ASSUME OwnerAssumption == Owner \in [Connection -> Player]
ASSUME LockTargetAssumption == LockTarget \subseteq {"piece", "group"} \X Piece
ASSUME TimeAssumption == MaxTime \in Nat
ASSUME NoneAssumption == NoPlayer \notin Player /\ NoConnection \notin Connection

NotCompleted == -1

LockKey == {"piece", "group"} \X Piece

VARIABLES
  connections,  \* the connections in room.connections
  players,      \* the players in room.players
  leaving,      \* the connection whose disconnect awaits the event log
  dragLocks,    \* dragLocks[g]: the player dragging group g, or NoPlayer
  toggleLocks,  \* toggleLocks[k]: the connection that set the lock, or none
  timer,        \* room.timer
  completedAt,  \* room.completedAt
  clock,        \* Date.now()
  activeTime    \* history: the time that passed while the timer was running

roomVars ==
  <<connections, players, leaving, dragLocks, toggleLocks, timer, completedAt,
    clock, activeTime>>

vars == <<puzzleVars, roomVars>>

lockVars == <<dragLocks, toggleLocks>>
peopleVars == <<connections, players, leaving>>
timeVars == <<timer, completedAt, clock, activeTime>>

Timer == [elapsedMs : Nat, paused : BOOLEAN, updatedAt : Nat]

TypeOK ==
  /\ PuzzleTypeOK
  /\ connections \subseteq Connection
  /\ players \subseteq Player
  /\ leaving \in Connection \cup {NoConnection}
  /\ dragLocks \in [Group -> Player \cup {NoPlayer}]
  /\ toggleLocks \in [LockKey -> Connection \cup {NoConnection}]
  /\ timer \in Timer
  /\ completedAt \in Nat \cup {NotCompleted}
  /\ clock \in Nat
  /\ activeTime \in Nat

Init ==
  /\ PuzzleInit
  /\ connections = {}
  /\ players = {}
  /\ leaving = NoConnection
  /\ dragLocks = [g \in Group |-> NoPlayer]
  /\ toggleLocks = [k \in LockKey |-> NoConnection]
  /\ timer = [elapsedMs |-> 0, paused |-> FALSE, updatedAt |-> 0]
  /\ completedAt = NotCompleted
  /\ clock = 0
  /\ activeTime = 0

-----------------------------------------------------------------------------
(* Joining and leaving *)

\* joinRoom enters the room that is in memory.  After the last connection has
\* left, the room is read from Redis as the disconnect saved it; a join in the
\* middle of that disconnect gets a copy of its own (see RoomMembership).
Join(c) ==
  /\ c \notin connections
  /\ c # leaving
  /\ connections # {} \/ leaving = NoConnection
  /\ connections' = connections \cup {c}
  /\ players' = players \cup {Owner[c]}
  /\ UNCHANGED <<puzzleVars, leaving, lockVars, timeVars>>

\* disconnectCommand up to the append of its events.
StartDisconnect(c) ==
  /\ leaving = NoConnection
  /\ c \in connections
  /\ connections' = connections \ {c}
  /\ toggleLocks' = [k \in LockKey |->
                       IF toggleLocks[k] = c THEN NoConnection ELSE toggleLocks[k]]
  /\ leaving' = c
  /\ UNCHANGED <<puzzleVars, players, dragLocks, timeVars>>

StillConnected(p) == \E c \in connections : Owner[c] = p

\* Mutant of PlayerLocksReleased: the locks stay.
PlayerLocksKept(p) == UNCHANGED lockVars

\* releasePlayerLocks.
PlayerLocksReleased(p) ==
  /\ dragLocks' = [g \in Group |->
                     IF dragLocks[g] = p THEN NoPlayer ELSE dragLocks[g]]
  /\ toggleLocks' = [k \in LockKey |->
                       IF toggleLocks[k] \in Connection /\ Owner[toggleLocks[k]] = p
                       THEN NoConnection ELSE toggleLocks[k]]

\* disconnectCommand after the append: the player leaves with its last
\* connection.
FinishDisconnect ==
  /\ leaving # NoConnection
  /\ leaving' = NoConnection
  /\ IF StillConnected(Owner[leaving])
     THEN UNCHANGED <<players, lockVars>>
     ELSE /\ players' = players \ {Owner[leaving]}
          /\ PlayerLocksReleased(Owner[leaving])
  /\ UNCHANGED <<puzzleVars, connections, timeVars>>

-----------------------------------------------------------------------------
(* Locks *)

\* getJoinedRoom.
Joined(c) == c \in connections /\ Owner[c] \in players

LockedByOther(p, k) == toggleLocks[k] # NoConnection /\ Owner[toggleLocks[k]] # p

\* Mutant of IsGroupToggleLocked: the locks of single pieces are not looked at.
IsGroupItselfLocked(p, g) == Exists(g) /\ LockedByOther(p, <<"group", g>>)

IsGroupToggleLocked(p, g) ==
  /\ Exists(g)
  /\ \/ LockedByOther(p, <<"group", g>>)
     \/ \E q \in pieceIds[g] : LockedByOther(p, <<"piece", q>>)

\* Mutant of DraggedByOther.
NeverDraggedByOther(p, g) == FALSE

DraggedByOther(p, g) == dragLocks[g] \notin {NoPlayer, p}

GrabGroup(c, g) ==
  LET p == Owner[c]
  IN  /\ Joined(c)
      /\ ~timer.paused
      /\ Exists(g) /\ g \notin lockedGroups
      /\ ~IsGroupToggleLocked(p, g)
      /\ ~DraggedByOther(p, g)
      /\ dragLocks' = [dragLocks EXCEPT ![g] = p]
      /\ UNCHANGED <<puzzleVars, peopleVars, toggleLocks, timeVars>>

MoveGroup(c, g, t) ==
  LET p == Owner[c]
  IN  /\ Joined(c)
      /\ ~timer.paused
      /\ dragLocks[g] = p
      /\ ~IsGroupToggleLocked(p, g)
      /\ MoveGroupToAnchor(g, t)
      /\ UNCHANGED roomVars

Released(g, p) ==
  IF dragLocks[g] = p THEN [dragLocks EXCEPT ![g] = NoPlayer] ELSE dragLocks

ReleaseGroup(c, g) ==
  /\ Joined(c)
  /\ dragLocks[g] = Owner[c]
  /\ dragLocks' = Released(g, Owner[c])
  /\ UNCHANGED <<puzzleVars, peopleVars, toggleLocks, timeVars>>

AlreadyPlaced(k) ==
  IF k[1] = "piece" THEN k[2] \in placed
  ELSE Exists(k[2]) /\ pieceIds[k[2]] \subseteq placed

LockTargetExists(k) == k[1] = "piece" \/ Exists(k[2])

\* toggleLock sets a free lock and clears one that the player holds.
ToggleLock(c, k) ==
  LET p == Owner[c]
  IN  /\ leaving = NoConnection
      /\ Joined(c)
      /\ completedAt = NotCompleted
      /\ ~timer.paused
      /\ ~AlreadyPlaced(k)
      /\ LockTargetExists(k)
      /\ \/ /\ toggleLocks[k] = NoConnection
            /\ toggleLocks' = [toggleLocks EXCEPT ![k] = c]
         \/ /\ toggleLocks[k] # NoConnection
            /\ Owner[toggleLocks[k]] = p
            /\ toggleLocks' = [toggleLocks EXCEPT ![k] = NoConnection]
      /\ UNCHANGED <<puzzleVars, peopleVars, dragLocks, timeVars>>

\* Mutant of TransferredLocks: the locks stay with the absorbed groups.
LocksNotTransferred(g) == toggleLocks

\* transferMergedGroupLocks: the lock of a group that was absorbed moves to
\* the group that absorbed it, unless that one has a lock.
TransferredLocks(g) ==
  LET removed == {h \in Group : Exists(h) /\ pieceIds'[h] = {}}
      moving  == {toggleLocks[<<"group", h>>] : h \in removed} \ {NoConnection}
  IN  [k \in LockKey |->
         CASE k[1] = "group" /\ k[2] \in removed -> NoConnection
           [] k = <<"group", g>> /\ toggleLocks[k] = NoConnection /\ moving # {} ->
                CHOOSE lock \in moving : TRUE
           [] OTHER -> toggleLocks[k]]

-----------------------------------------------------------------------------
(* Timer and completion *)

Max0(n) == IF n > 0 THEN n ELSE 0

\* Mutant of ElapsedMs: a paused timer goes on.
ElapsedWhilePaused == timer.elapsedMs + Max0(clock - timer.updatedAt)

\* getTimerElapsedMs.
ElapsedMs ==
  IF timer.paused THEN timer.elapsedMs
  ELSE timer.elapsedMs + Max0(clock - timer.updatedAt)

\* releaseAllLocks.
AllLocksReleased ==
  /\ dragLocks' = [g \in Group |-> NoPlayer]
  /\ toggleLocks' = [k \in LockKey |-> NoConnection]

Pause(c) ==
  /\ Joined(c)
  /\ ~timer.paused
  /\ timer' = [elapsedMs |-> ElapsedMs, paused |-> TRUE, updatedAt |-> clock]
  /\ AllLocksReleased
  /\ UNCHANGED <<puzzleVars, peopleVars, completedAt, clock, activeTime>>

Resume(c) ==
  /\ Joined(c)
  /\ timer.paused
  /\ timer' = [timer EXCEPT !.paused = FALSE, !.updatedAt = clock]
  /\ UNCHANGED <<puzzleVars, peopleVars, lockVars, completedAt, clock,
                 activeTime>>

\* completeRoomIfSolved, with the puzzle as the drop leaves it.
CompleteIfSolved ==
  IF completedAt = NotCompleted /\ placed' = Piece
  THEN /\ completedAt' = clock
       /\ timer' = IF timer.paused THEN timer
                   ELSE [elapsedMs |-> ElapsedMs, paused |-> TRUE,
                         updatedAt |-> clock]
  ELSE UNCHANGED <<completedAt, timer>>

Tick ==
  /\ clock < MaxTime
  /\ clock' = clock + 1
  /\ activeTime' = IF timer.paused THEN activeTime ELSE activeTime + 1
  /\ UNCHANGED <<puzzleVars, peopleVars, lockVars, timer, completedAt>>

-----------------------------------------------------------------------------
(* Dropping and arranging *)

\* A drop while the session is paused, or of a group that carries another
\* player's toggle lock, only gives the drag lock back.
DropRejected(c, g) ==
  /\ leaving = NoConnection
  /\ Joined(c)
  /\ dragLocks[g] = Owner[c]
  /\ timer.paused \/ IsGroupToggleLocked(Owner[c], g)
  /\ dragLocks' = Released(g, Owner[c])
  /\ UNCHANGED <<puzzleVars, peopleVars, toggleLocks, timeVars>>

DropGroup(c, g, t) ==
  LET p == Owner[c]
  IN  /\ leaving = NoConnection
      /\ Joined(c)
      /\ ~timer.paused
      /\ dragLocks[g] = p
      /\ ~IsGroupToggleLocked(p, g)
      /\ SnapDroppedGroup(g, t)
      /\ toggleLocks' = TransferredLocks(g)
      /\ dragLocks' = Released(g, p)
      /\ CompleteIfSolved
      /\ UNCHANGED <<peopleVars, clock, activeTime>>

ArrangeGroups(c) ==
  /\ Joined(c)
  /\ ~timer.paused
  /\ ArrangeLoosePieces
  /\ UNCHANGED roomVars

-----------------------------------------------------------------------------

Next ==
  \/ \E c \in Connection :
       \/ Join(c) \/ StartDisconnect(c)
       \/ Pause(c) \/ Resume(c)
       \/ ArrangeGroups(c)
       \/ \E k \in LockTarget : ToggleLock(c, k)
       \/ \E g \in Group :
            \/ GrabGroup(c, g) \/ ReleaseGroup(c, g)
            \/ DropRejected(c, g)
            \/ \E t \in Offset : MoveGroup(c, g, t) \/ DropGroup(c, g, t)
  \/ FinishDisconnect
  \/ Tick

Spec == Init /\ [][Next]_vars

-----------------------------------------------------------------------------
(* Properties *)

\* A connection's player is in the room for as long as the connection is, even
\* if it joined while the player's previous connection was being dropped:
\* otherwise every command of the connection would be answered "not joined".
ConnectionsHavePlayers ==
  \A c \in connections : Owner[c] \in players

\* Nobody in the room without a connection: a player without one is only there
\* while the disconnect that removes it is under way.
PlayersHaveConnections ==
  \A p \in players : StillConnected(p) \/ (leaving # NoConnection /\ Owner[leaving] = p)

\* No lock outlives the one who can give it back: a drag lock belongs to a
\* player in the room and a toggle lock to a connection in the room.
LocksHaveHolders ==
  /\ \A g \in Group : dragLocks[g] \in players \cup {NoPlayer}
  /\ \A k \in LockKey : toggleLocks[k] \in connections \cup {NoConnection}

\* A group in a player's hand can still be moved: a group that exists and is
\* dragged is never one that has been fixed to the board.
DraggedGroupsAreLoose ==
  \A g \in Group : dragLocks[g] # NoPlayer => g \notin lockedGroups

\* While an unfinished session is paused nothing is locked, so that nobody
\* comes back to a group held since before the pause.
PauseFreesLocks ==
  timer.paused /\ completedAt = NotCompleted =>
    /\ \A g \in Group : dragLocks[g] = NoPlayer
    /\ \A k \in LockKey : toggleLocks[k] = NoConnection

\* The timer shows exactly the time the session was running, over any series
\* of pauses, resumes and the completion.
TimerIsActiveTime == ElapsedMs = activeTime

\* The room is completed exactly when the last piece is placed.
CompletedIffSolved == completedAt # NotCompleted <=> placed = Piece

\* The timer was last written in the past; without it the elapsed time of a
\* running timer would not be the sum that TimerIsActiveTime needs.
TimerPast == timer.updatedAt <= clock

\* A room in memory is consistent: locks have holders who are there, a pause
\* frees them, completion and timer follow the puzzle. The parts depend on
\* each other: who may hold a lock on who is in the room, and whether a held
\* group is loose on the flags of the puzzle.
RoomInv ==
  /\ TypeOK
  /\ PuzzleInv
  /\ ConnectionsHavePlayers
  /\ PlayersHaveConnections
  /\ LocksHaveHolders
  /\ DraggedGroupsAreLoose
  /\ PauseFreesLocks
  /\ CompletedIffSolved
  /\ TimerPast
  /\ TimerIsActiveTime

\* The players that hold a toggle lock on group g or on one of its pieces.
LockOwners(g) ==
  {Owner[toggleLocks[k]] :
     k \in {k \in LockKey : /\ toggleLocks[k] # NoConnection
                            /\ \/ k = <<"group", g>>
                               \/ k[1] = "piece" /\ k[2] \in pieceIds[g]}}

\* Apart from arranging the loose pieces, a piece moves only in the hand of a
\* player who drags its group, and never against another player's toggle lock
\* on the group or on any piece of it, whichever order the locks were taken in.
MovesRespectLocks ==
  [][\A p \in Piece :
       offset'[p] # offset[p] =>
         \/ \E c \in Connection : ArrangeGroups(c)
         \/ \E mover \in players :
              /\ dragLocks[groupOf[p]] = mover
              /\ LockOwners(groupOf[p]) \subseteq {mover}]_vars

\* Joining groups never loses protection silently: as long as the locks are
\* not released by a pause or a disconnect, a piece under a group lock leaves
\* it only by an explicit toggle of that lock.
MergesKeepLocks ==
  [][\A p \in Piece :
       /\ toggleLocks[<<"group", groupOf[p]>>] # NoConnection
       /\ groupOf'[p] # groupOf[p]
       => toggleLocks'[<<"group", groupOf'[p]>>] # NoConnection]_vars

\* Completion is recorded once and never withdrawn, and a completed puzzle is
\* never disturbed by the commands that are still accepted.
CompletionIsFinal ==
  [][completedAt # NotCompleted =>
       /\ completedAt' = completedAt
       /\ UNCHANGED puzzleVars]_vars

\* A player's drag lock is never taken over by another player.
DragLocksAreNotStolen ==
  [][\A g \in Group :
       dragLocks[g] # NoPlayer => dragLocks'[g] \in {dragLocks[g], NoPlayer}]_vars

=============================================================================
