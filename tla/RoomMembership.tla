--------------------------- MODULE RoomMembership ---------------------------
(***************************************************************************)
(* Who is in which room: the joins, disconnects and closed sockets of      *)
(* RoomManager, with every await of a join as a point where the others may *)
(* run.  A join of a room that nobody has in memory brings its own copy of *)
(* the room from Redis, so rooms are identified here by the join that      *)
(* loaded them.  Disconnects go through the queue of the room, which is    *)
(* kept by room id.                                                        *)
(***************************************************************************)
EXTENDS Naturals, Sequences

CONSTANTS
  Connection,
  Room,       \* the room ids
  Join,       \* the join attempts; also the presences and the loaded copies
  ConnOf,     \* ConnOf[j]: the connection that sends j
  RoomOf,     \* RoomOf[j]: the room id that j asks for
  None

ASSUME JoinAssumption ==
  ConnOf \in [Join -> Connection] /\ RoomOf \in [Join -> Room]
ASSUME NoneAssumption == None \notin Join

\* The client sends one join per socket; the manager also answers a second one.
ASSUME JoinsPerConnection ==
  \A i, j, k \in Join : ConnOf[i] = ConnOf[j] /\ ConnOf[j] = ConnOf[k] =>
                         i = j \/ j = k \/ i = k

VARIABLES
  joins,           \* joins[j]: where join j is, and the copy it will enter
  pendingJoins,    \* the newest join under way of each connection
  closed,          \* connections whose socket has closed
  connectionRooms, \* connectionRooms[c]: the copy c has joined, or None
  connections,     \* connections[o][c]: the presence of c in copy o, or None
  queue,           \* queue[r]: the disconnects of room r, in order
  running,         \* running[r]: the first of them awaits the event log
  pending,         \* presences whose disconnect event waits to be appended
  flushing,        \* presences that the periodic flush has taken
  recorded,        \* presences whose disconnect event is in the log
  departed,        \* history: presences that have left
  overlapped       \* history: rooms that two joins entered at the same time

joinVars == <<joins, pendingJoins, overlapped>>
memberVars == <<connectionRooms, connections>>
queueVars == <<queue, running>>
eventVars == <<pending, flushing, recorded, departed>>

vars == <<joinVars, closed, memberVars, queueVars, eventVars>>

JoinPc == {"idle", "session", "store", "restore", "leaving", "left", "joined", "done"}
Disconnect == [conn : Connection, copy : Join, presence : Join, waiter : Join \cup {None}]

TypeOK ==
  /\ joins \in [Join -> [pc : JoinPc, copy : Join]]
  /\ pendingJoins \in [Connection -> Join \cup {None}]
  /\ closed \subseteq Connection
  /\ connectionRooms \in [Connection -> Join \cup {None}]
  /\ connections \in [Join -> [Connection -> Join \cup {None}]]
  /\ queue \in [Room -> Seq(Disconnect)]
  /\ running \in [Room -> BOOLEAN]
  /\ pending \subseteq Join /\ flushing \subseteq Join
  /\ recorded \subseteq Join /\ departed \subseteq Join
  /\ overlapped \subseteq Room

Init ==
  /\ joins = [j \in Join |-> [pc |-> "idle", copy |-> j]]
  /\ pendingJoins = [c \in Connection |-> None]
  /\ closed = {}
  /\ connectionRooms = [c \in Connection |-> None]
  /\ connections = [o \in Join |-> [c \in Connection |-> None]]
  /\ queue = [r \in Room |-> <<>>]
  /\ running = [r \in Room |-> FALSE]
  /\ pending = {} /\ flushing = {} /\ recorded = {} /\ departed = {}
  /\ overlapped = {}

\* findActiveRoom: the copies of room r that some connection has joined.
Active(r) == {o \in Join : RoomOf[o] = r /\ \E c \in Connection : connectionRooms[c] = o}

-----------------------------------------------------------------------------
(* Joining *)

MoveTo(j, pc) == joins' = [joins EXCEPT ![j].pc = pc]

\* The end of joinRoom, whether it returns or throws.
Finish(j) ==
  /\ MoveTo(j, "done")
  /\ pendingJoins' = IF pendingJoins[ConnOf[j]] = j
                     THEN [pendingJoins EXCEPT ![ConnOf[j]] = None] ELSE pendingJoins
  /\ UNCHANGED overlapped

Superseded(j) == pendingJoins[ConnOf[j]] # j

\* disconnect, as asked for by the join j or by closeConnection (None): the
\* command notes the presence that it is for.
DisconnectOf(c, j) ==
  [conn |-> c, copy |-> connectionRooms[c],
   presence |-> connections[connectionRooms[c]][c], waiter |-> j]

Enqueue(c, j) ==
  LET r == RoomOf[connectionRooms[c]]
  IN  queue' = [queue EXCEPT ![r] = Append(@, DisconnectOf(c, j))]

\* Mutant of Enter: the connection enters without leaving its room first.
EnterWithoutLeaving(j, copy) ==
  /\ joins' = [joins EXCEPT ![j] = [pc |-> "joined", copy |-> copy]]
  /\ connections' = [connections EXCEPT ![copy][ConnOf[j]] = j]
  /\ connectionRooms' = [connectionRooms EXCEPT ![ConnOf[j]] = copy]
  /\ UNCHANGED queue

\* What a join does once it has found its room, without awaiting anything:
\* leave the room that the connection is in, or enter the copy.
Enter(j, copy) ==
  LET c == ConnOf[j]
  IN  IF connectionRooms[c] # None
      THEN /\ joins' = [joins EXCEPT ![j] = [pc |-> "leaving", copy |-> copy]]
           /\ Enqueue(c, j)
           /\ UNCHANGED memberVars
      ELSE /\ joins' = [joins EXCEPT ![j] = [pc |-> "joined", copy |-> copy]]
           /\ connections' = [connections EXCEPT ![copy][c] = j]
           /\ connectionRooms' = [connectionRooms EXCEPT ![c] = copy]
           /\ UNCHANGED queue

StartJoin(j) ==
  /\ joins[j].pc = "idle"
  /\ ConnOf[j] \notin closed
  /\ MoveTo(j, "session")
  /\ pendingJoins' = [pendingJoins EXCEPT ![ConnOf[j]] = j]
  /\ UNCHANGED <<overlapped, closed, memberVars, queueVars, eventVars>>

\* The session lookup answers.
SessionFound(j) ==
  /\ joins[j].pc = "session"
  /\ ~Superseded(j)
  /\ MoveTo(j, "store")
  /\ UNCHANGED <<pendingJoins, overlapped, closed, memberVars, queueVars, eventVars>>

\* A join ends early: it was superseded or closed, its session or its room
\* does not exist, or one of its calls fails.
GiveUpJoin(j) ==
  /\ joins[j].pc \in {"session", "store", "restore", "left"}
  /\ Finish(j)
  /\ UNCHANGED <<closed, memberVars, queueVars, eventVars>>

\* Between finding its room and entering it, a join may be overtaken.
Entering(r) == {j \in Join : joins[j].pc \in {"restore", "leaving", "left"} /\ RoomOf[j] = r}

\* The store answers: the join takes the copy in memory if there is one, else
\* the one that it was given, which it first compares with the event log.
RoomFound(j) ==
  LET r == RoomOf[j]
  IN  /\ joins[j].pc = "store"
      /\ ~Superseded(j)
      /\ \/ \E o \in Active(r) : Enter(j, o)
         \/ /\ Active(r) = {}
            /\ MoveTo(j, "restore")
            /\ UNCHANGED <<queue, memberVars>>
      /\ overlapped' = IF Entering(r) # {} THEN overlapped \cup {r} ELSE overlapped
      /\ UNCHANGED <<pendingJoins, closed, running, eventVars>>

\* The event log answers, or the completion has been recorded again.
RoomRestored(j) ==
  /\ joins[j].pc = "restore"
  /\ Enter(j, joins[j].copy)
  /\ UNCHANGED <<pendingJoins, overlapped, closed, running, eventVars>>

\* The disconnect that the join asked for is over.
EnterAfterLeaving(j) ==
  /\ joins[j].pc = "left"
  /\ ~Superseded(j)
  /\ LET c == ConnOf[j]
         o == joins[j].copy
     IN  /\ MoveTo(j, "joined")
         /\ connections' = [connections EXCEPT ![o][c] = j]
         /\ connectionRooms' = [connectionRooms EXCEPT ![c] = o]
  /\ UNCHANGED <<pendingJoins, overlapped, closed, queueVars, eventVars>>

\* The join's own event is appended and the room saved, or one of them fails:
\* the connection stays in the room either way.
FinishJoin(j) ==
  /\ joins[j].pc = "joined"
  /\ Finish(j)
  /\ UNCHANGED <<closed, memberVars, queueVars, eventVars>>

-----------------------------------------------------------------------------
(* Leaving *)

\* closeConnection: the socket has closed.
Close(c) ==
  /\ c \notin closed
  /\ closed' = closed \cup {c}
  /\ pendingJoins' = [pendingJoins EXCEPT ![c] = None]
  /\ IF connectionRooms[c] # None THEN Enqueue(c, None) ELSE UNCHANGED queue
  /\ UNCHANGED <<joins, overlapped, memberVars, running, eventVars>>

Dequeue(r) == queue' = [queue EXCEPT ![r] = Tail(@)]

\* Mutant of Wake: the join is forgotten.
NotWoken(d, failed) == UNCHANGED joinVars

\* The join that waits for the disconnect d goes on, or throws if d failed.
Wake(d, failed) ==
  IF d.waiter = None THEN UNCHANGED joinVars
  ELSE \/ /\ MoveTo(d.waiter, "left")
          /\ UNCHANGED <<pendingJoins, overlapped>>
       \/ failed /\ Finish(d.waiter)

\* runRoomCommand: the disconnect runs only for the presence that asked for it.
StillPresent(d) ==
  connectionRooms[d.conn] = d.copy /\ connections[d.copy][d.conn] = d.presence

StartDisconnect(r) ==
  /\ queue[r] # <<>> /\ ~running[r]
  /\ LET d == Head(queue[r])
     IN  /\ StillPresent(d)
         /\ connectionRooms' = [connectionRooms EXCEPT ![d.conn] = None]
         /\ connections' = [connections EXCEPT ![d.copy][d.conn] = None]
         /\ departed' = departed \cup {d.presence}
  /\ running' = [running EXCEPT ![r] = TRUE]
  /\ UNCHANGED <<joinVars, closed, queue, pending, flushing, recorded>>

SkipDisconnect(r) ==
  /\ queue[r] # <<>> /\ ~running[r]
  /\ ~StillPresent(Head(queue[r]))
  /\ Dequeue(r)
  /\ Wake(Head(queue[r]), FALSE)
  /\ UNCHANGED <<closed, memberVars, running, eventVars>>

\* The disconnect event is appended, or kept for later; the save that follows
\* may fail.
FinishDisconnect(r) ==
  /\ running[r]
  /\ LET d == Head(queue[r])
     IN  /\ \/ recorded' = recorded \cup {d.presence} /\ UNCHANGED pending
            \/ pending' = pending \cup {d.presence} /\ UNCHANGED recorded
         /\ Wake(d, TRUE)
  /\ Dequeue(r)
  /\ running' = [running EXCEPT ![r] = FALSE]
  /\ UNCHANGED <<closed, memberVars, flushing, departed>>

-----------------------------------------------------------------------------
(* flushPendingRoomEvents *)

TakePending ==
  /\ pending # {}
  /\ flushing' = flushing \cup pending
  /\ pending' = {}
  /\ UNCHANGED <<joinVars, closed, memberVars, queueVars, recorded, departed>>

FlushOne(j) ==
  /\ j \in flushing
  /\ flushing' = flushing \ {j}
  /\ recorded' = recorded \cup {j}
  /\ UNCHANGED <<joinVars, closed, memberVars, queueVars, pending, departed>>

\* Mutant of FlushFails: the batch is dropped.
FlushForgets(j) ==
  /\ j \in flushing
  /\ flushing' = flushing \ {j}
  /\ UNCHANGED <<joinVars, closed, memberVars, queueVars, pending, recorded, departed>>

FlushFails(j) ==
  /\ j \in flushing
  /\ flushing' = flushing \ {j}
  /\ pending' = pending \cup {j}
  /\ UNCHANGED <<joinVars, closed, memberVars, queueVars, recorded, departed>>

-----------------------------------------------------------------------------

JoinStep(j) ==
  \/ SessionFound(j) \/ RoomFound(j) \/ RoomRestored(j)
  \/ EnterAfterLeaving(j) \/ FinishJoin(j) \/ GiveUpJoin(j)

DisconnectStep(r) == StartDisconnect(r) \/ SkipDisconnect(r) \/ FinishDisconnect(r)

Next ==
  \/ \E j \in Join : StartJoin(j) \/ JoinStep(j) \/ FlushOne(j) \/ FlushFails(j)
  \/ \E c \in Connection : Close(c)
  \/ \E r \in Room : DisconnectStep(r)
  \/ TakePending

Spec == Init /\ [][Next]_vars

\* Calls are answered, if only with an error; the flush runs at every interval
\* and, however often the log refuses an event, sometimes it accepts it.
Fairness ==
  /\ \A j \in Join : WF_vars(JoinStep(j)) /\ SF_vars(FlushOne(j))
  /\ \A r \in Room : WF_vars(DisconnectStep(r))
  /\ WF_vars(TakePending)

FairSpec == Spec /\ Fairness

-----------------------------------------------------------------------------
(* Properties *)

\* The manager's index of connections and the members of the rooms agree, in
\* spite of joins and disconnects of one connection that overlap: no room
\* keeps a connection that the index has forgotten or put elsewhere.
MembershipAgrees ==
  \A o \in Join, c \in Connection :
    connections[o][c] # None <=> connectionRooms[c] = o

\* The players of a room share one copy of it, unless two joins were between
\* finding the room and entering it at the same time.
SplitNeedsOverlap ==
  \A c, d \in Connection :
    LET o == connectionRooms[c]
        q == connectionRooms[d]
    IN  o # None /\ q # None /\ o # q /\ RoomOf[o] = RoomOf[q] => RoomOf[o] \in overlapped

\* A departure is never forgotten while the server runs: its event is in the
\* log, or is being appended, or will be tried again.
DeparturesAreKept ==
  departed \subseteq
    recorded \cup pending \cup flushing
      \cup {Head(queue[r]).presence : r \in {r \in Room : running[r]}}

\* Nobody leaves twice: a departure that has been recorded is not appended
\* again by the flush.
DeparturesAreAppendedOnce ==
  /\ recorded \cap (pending \cup flushing) = {}
  /\ pending \cap flushing = {}

\* Joins, disconnects and flushes that overlap keep the index of connections, the
\* members of the rooms and the departures consistent.
MembershipInv ==
  /\ TypeOK
  /\ MembershipAgrees
  /\ SplitNeedsOverlap
  /\ DeparturesAreKept
  /\ DeparturesAreAppendedOnce

\* Every departure is recorded in the end.
DeparturesAreRecorded == \A j \in Join : j \in departed ~> j \in recorded

\* A join waits for a disconnect only as long as there is one.
JoinsEnd == \A j \in Join : joins[j].pc = "session" ~> joins[j].pc = "done"

\* Departures reach the log and joins come to an end, whatever fails for a
\* while and whoever joins meanwhile.
MembershipSettles == DeparturesAreRecorded /\ JoinsEnd

\* A closed connection is in no room once its joins and disconnects are over.
ClosedConnectionsLeave ==
  \A c \in closed :
    connectionRooms[c] # None =>
      \/ \E j \in Join : ConnOf[j] = c /\ joins[j].pc \notin {"idle", "done"}
      \/ \E r \in Room : \E i \in DOMAIN queue[r] : queue[r][i].conn = c

=============================================================================
