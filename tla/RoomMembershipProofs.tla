------------------------ MODULE RoomMembershipProofs ------------------------
(***************************************************************************)
(* Who is in which room, for any number of connections, rooms and joins:   *)
(* the index of connections and the members of the rooms agree, copies of  *)
(* a room need joins that overlap, and departures are neither forgotten    *)
(* nor appended twice.  The agreement rests on what a join may meet when   *)
(* the disconnect it waited for is over: nobody else can have entered for  *)
(* its connection meanwhile.                                               *)
(***************************************************************************)
EXTENDS RoomMembership, TLAPS

Entered(j) == joins[j].pc \in {"joined", "done"}

\* A join enters a copy of the room that it asked for.
CopiesOfRoom == \A j \in Join : RoomOf[joins[j].copy] = RoomOf[j]

\* Presences are joins of their connection that have entered and not departed.
PresencesEntered ==
  \A o \in Join, c \in Connection :
    LET j == connections[o][c]
    IN  j # None => ConnOf[j] = c /\ Entered(j) /\ j \notin departed

\* What is recorded or to be recorded has departed.
EventsDeparted ==
  /\ \A j \in departed : Entered(j)
  /\ recorded \cup pending \cup flushing \subseteq departed

\* A disconnect that awaits the log has taken its presence out, and nothing has
\* recorded it yet.
RunningDeparted ==
  \A r \in Room : running[r] =>
    /\ queue[r] # <<>>
    /\ Head(queue[r]).presence \in departed \ (recorded \cup pending \cup flushing)
    /\ Head(queue[r]).waiter # None => connectionRooms[Head(queue[r]).conn] = None
    /\ \A s \in Room : running[s] /\ s # r =>
         Head(queue[s]).presence # Head(queue[r]).presence

\* A join that leaves a room has its connection for itself.
LeavingAlone ==
  \A j \in Join :
    /\ joins[j].pc \in {"leaving", "left"} =>
         \A k \in Join : ConnOf[k] = ConnOf[j] /\ k # j => Entered(k)
    /\ joins[j].pc = "left" => connectionRooms[ConnOf[j]] = None

\* A join waits for one disconnect, and nobody takes the place of the presence.
WaitersLeave ==
  \A r \in Room : \A i \in DOMAIN queue[r] :
    LET d == queue[r][i]
    IN  d.waiter # None =>
          /\ joins[d.waiter].pc = "leaving" /\ ConnOf[d.waiter] = d.conn
          /\ connectionRooms[d.conn] # None => StillPresent(d)
          /\ \A s \in Room : \A k \in DOMAIN queue[s] :
               queue[s][k].waiter = d.waiter => s = r /\ k = i

\* Without an overlap, a room has one copy, and its newcomer goes there.
OneCopy ==
  \A r \in Room \ overlapped :
    /\ \A j, k \in Entering(r) : j = k
    /\ \A j \in Entering(r), o \in Active(r) : joins[j].copy = o
    /\ \A o, q \in Active(r) : o = q

\* The inductive invariant.
MembershipIInv ==
  /\ TypeOK
  /\ MembershipAgrees
  /\ DeparturesAreKept
  /\ DeparturesAreAppendedOnce
  /\ CopiesOfRoom
  /\ PresencesEntered
  /\ EventsDeparted
  /\ RunningDeparted
  /\ LeavingAlone
  /\ WaitersLeave
  /\ OneCopy

-----------------------------------------------------------------------------
(* Queues of disconnects *)

LEMMA QueueAppend ==
  ASSUME NEW s \in Seq(Disconnect), NEW d \in Disconnect
  PROVE  LET t == Append(s, d) IN
         /\ t \in Seq(Disconnect) /\ t # <<>>
         /\ s # <<>> => Head(t) = Head(s)
         /\ \A i \in DOMAIN t : \/ i \in DOMAIN s /\ t[i] = s[i]
                                \/ i \notin DOMAIN s /\ t[i] = d
         /\ \A i, k \in DOMAIN t : i \notin DOMAIN s /\ k \notin DOMAIN s => i = k
         /\ \A i \in DOMAIN s : i \in DOMAIN t /\ t[i] = s[i]
<1> DEFINE t == Append(s, d)
<1>1. /\ t \in Seq(Disconnect) /\ Len(s) \in Nat /\ Len(t) = Len(s) + 1
      /\ DOMAIN s = 1..Len(s) /\ DOMAIN t = 1..Len(t)
  OBVIOUS
<1>2. \A i \in DOMAIN t : t[i] = IF i = Len(s) + 1 THEN d ELSE s[i]
  BY <1>1
<1>3. t # <<>> /\ (s # <<>> => Head(t) = Head(s))
  <2>1. Len(t) # 0 /\ Head(t) = t[1] /\ Head(s) = s[1]
    BY <1>1
  <2>2. s # <<>> => Len(s) # 0
    BY <1>1
  <2>3. QED
    BY <1>1, <1>2, <2>1, <2>2
<1> HIDE DEF t
<1>4. \A i \in DOMAIN t : i \in DOMAIN s <=> i # Len(s) + 1
  BY <1>1
<1>5. \A i \in DOMAIN s : i \in DOMAIN t
  BY <1>1
<1>6. \A i, k \in DOMAIN t : i \notin DOMAIN s /\ k \notin DOMAIN s => i = k
  BY <1>4
<1>7. QED
  BY <1>1, <1>2, <1>3, <1>4, <1>5, <1>6 DEF t

LEMMA QueueTail ==
  ASSUME NEW s \in Seq(Disconnect), s # <<>>
  PROVE  /\ Tail(s) \in Seq(Disconnect) /\ Head(s) \in Disconnect
         /\ 1 \in DOMAIN s /\ Head(s) = s[1]
         /\ \A i \in DOMAIN Tail(s) : /\ i + 1 \in DOMAIN s /\ i + 1 # 1
                                      /\ Tail(s)[i] = s[i + 1] /\ i \in Nat
<1>1. /\ Tail(s) \in Seq(Disconnect) /\ Head(s) \in Disconnect /\ Head(s) = s[1]
      /\ Len(s) \in Nat /\ Len(s) > 0 /\ DOMAIN s = 1..Len(s)
      /\ Len(Tail(s)) = Len(s) - 1 /\ DOMAIN Tail(s) = 1..Len(Tail(s))
  OBVIOUS
<1>2. \A i \in 1..(Len(s) - 1) : Tail(s)[i] = s[i + 1]
  BY <1>1
<1>3. QED
  BY <1>1, <1>2

\* One more disconnect waits.
LEMMA EnqueueAdds ==
  ASSUME MembershipIInv, NEW c \in Connection, NEW w \in Join \cup {None},
         connectionRooms[c] # None, Enqueue(c, w)
  PROVE  LET d == DisconnectOf(c, w) IN
         /\ d \in Disconnect /\ StillPresent(d) /\ d.conn = c /\ d.waiter = w
         /\ queue' \in [Room -> Seq(Disconnect)]
         /\ \A s \in Room : queue[s] # <<>> =>
              queue'[s] # <<>> /\ Head(queue'[s]) = Head(queue[s])
         /\ \A s \in Room : \A i \in DOMAIN queue'[s] :
              \/ i \in DOMAIN queue[s] /\ queue'[s][i] = queue[s][i]
              \/ i \notin DOMAIN queue[s] /\ queue'[s][i] = d
         /\ \A s, t \in Room : \A i \in DOMAIN queue'[s], k \in DOMAIN queue'[t] :
              i \notin DOMAIN queue[s] /\ k \notin DOMAIN queue[t] => s = t /\ i = k
<1> DEFINE d == DisconnectOf(c, w)
           r == RoomOf[connectionRooms[c]]
<1>1. /\ connectionRooms[c] \in Join /\ r \in Room
      /\ connections[connectionRooms[c]][c] \in Join
  BY JoinAssumption DEF MembershipIInv, TypeOK, MembershipAgrees
<1>2. d \in Disconnect /\ StillPresent(d) /\ d.conn = c /\ d.waiter = w
  BY <1>1 DEF DisconnectOf, Disconnect, StillPresent
<1>3. /\ queue \in [Room -> Seq(Disconnect)] /\ queue[r] \in Seq(Disconnect)
      /\ queue' = [queue EXCEPT ![r] = Append(queue[r], d)]
  BY <1>1 DEF MembershipIInv, TypeOK, Enqueue
<1> HIDE DEF d, r
<1>4. /\ queue'[r] = Append(queue[r], d) /\ \A s \in Room : s # r => queue'[s] = queue[s]
  BY <1>1, <1>3
<1>5. queue' \in [Room -> Seq(Disconnect)]
  BY <1>1, <1>2, <1>3, QueueAppend
<1>6. \A s \in Room : queue[s] # <<>> => queue'[s] # <<>> /\ Head(queue'[s]) = Head(queue[s])
  BY <1>2, <1>3, <1>4, QueueAppend
<1>7. \A s \in Room : \A i \in DOMAIN queue'[s] :
        \/ i \in DOMAIN queue[s] /\ queue'[s][i] = queue[s][i]
        \/ i \notin DOMAIN queue[s] /\ queue'[s][i] = d /\ s = r
  BY <1>2, <1>3, <1>4, QueueAppend
<1>8. \A i, k \in DOMAIN queue'[r] : i \notin DOMAIN queue[r] /\ k \notin DOMAIN queue[r] => i = k
  BY <1>2, <1>3, <1>4, QueueAppend
<1>9. QED
  BY <1>2, <1>5, <1>6, <1>7, <1>8 DEF d

\* The first disconnect is over.
LEMMA DequeueRemoves ==
  ASSUME MembershipIInv, NEW r \in Room, queue[r] # <<>>, Dequeue(r)
  PROVE  /\ queue' \in [Room -> Seq(Disconnect)] /\ Head(queue[r]) \in Disconnect
         /\ 1 \in DOMAIN queue[r] /\ Head(queue[r]) = queue[r][1]
         /\ \A s \in Room : s # r => queue'[s] = queue[s]
         /\ \A i \in DOMAIN queue'[r] :
              /\ i + 1 \in DOMAIN queue[r] /\ i + 1 # 1 /\ i \in Nat
              /\ queue'[r][i] = queue[r][i + 1]
<1>1. queue \in [Room -> Seq(Disconnect)] /\ queue[r] \in Seq(Disconnect)
  BY DEF MembershipIInv, TypeOK
<1>2. queue' = [queue EXCEPT ![r] = Tail(queue[r])]
  BY DEF Dequeue
<1>3. queue'[r] = Tail(queue[r]) /\ \A s \in Room : s # r => queue'[s] = queue[s]
  BY <1>1, <1>2
<1>4. queue' \in [Room -> Seq(Disconnect)]
  BY <1>1, <1>2, QueueTail
<1>5. QED
  BY <1>1, <1>3, <1>4, QueueTail

LEMMA EntryType ==
  ASSUME TypeOK, NEW r \in Room, NEW i \in DOMAIN queue[r]
  PROVE  queue[r][i] \in Disconnect /\ queue[r][i].conn \in Connection
         /\ queue[r][i].copy \in Join /\ queue[r][i].presence \in Join
         /\ (queue[r][i].waiter # None => queue[r][i].waiter \in Join)
<1>1. queue[r] \in Seq(Disconnect)
  BY DEF TypeOK
<1>2. queue[r][i] \in Disconnect
  BY <1>1
<1>3. QED
  BY <1>2 DEF Disconnect

-----------------------------------------------------------------------------
(* Joins *)

\* Who has entered stays a presence of its connection, or a departed one.
LEMMA EnteredStays ==
  ASSUME TypeOK, PresencesEntered, EventsDeparted,
         \A j \in Join : Entered(j) => Entered(j)',
         UNCHANGED <<connections, departed, recorded, pending, flushing>>
  PROVE  (PresencesEntered /\ EventsDeparted)'
<1>1. \A o \in Join, c \in Connection : connections[o][c] \in Join \cup {None}
  BY DEF TypeOK
<1>2. PresencesEntered'
  BY <1>1 DEF PresencesEntered
<1>3. EventsDeparted'
  BY DEF EventsDeparted, TypeOK
<1>4. QED
  BY <1>2, <1>3

LEMMA JoinMoves ==
  ASSUME TypeOK, NEW j \in Join, NEW pc \in JoinPc, MoveTo(j, pc)
  PROVE  /\ joins' \in [Join -> [pc : JoinPc, copy : Join]]
         /\ joins'[j].pc = pc /\ joins'[j].copy = joins[j].copy
         /\ \A k \in Join : k # j => joins'[k] = joins[k]
<1>1. joins \in [Join -> [pc : JoinPc, copy : Join]]
  BY DEF TypeOK
<1>2. joins' = [joins EXCEPT ![j].pc = pc]
  BY DEF MoveTo
<1>3. joins[j] \in [pc : JoinPc, copy : Join]
  BY <1>1
<1>4. [joins[j] EXCEPT !.pc = pc] \in [pc : JoinPc, copy : Join]
  BY <1>3
<1>5. joins' \in [Join -> [pc : JoinPc, copy : Join]]
  BY <1>1, <1>2, <1>4
<1>6. joins'[j].pc = pc /\ joins'[j].copy = joins[j].copy
  BY <1>1, <1>2, <1>3
<1>7. \A k \in Join : k # j => joins'[k] = joins[k]
  BY <1>1, <1>2
<1>8. QED
  BY <1>5, <1>6, <1>7

\* A room keeps its one copy as long as nobody is about to enter another.
LEMMA OneCopyStands ==
  ASSUME OneCopy, overlapped \subseteq overlapped',
         \A r \in Room \ overlapped' :
           /\ Active(r)' \subseteq Active(r)
           /\ \A j \in Entering(r)' : j \in Entering(r) /\ joins'[j].copy = joins[j].copy
  PROVE  OneCopy'
BY DEF OneCopy

\* A join that is not about to enter goes on or ends.
LEMMA JoinPasses ==
  ASSUME MembershipIInv, NEW j \in Join, NEW pc \in JoinPc, MoveTo(j, pc),
         joins[j].pc # "leaving", pc \notin {"restore", "leaving", "left"},
         Entered(j) => pc \in {"joined", "done"},
         pendingJoins' \in [Connection -> Join \cup {None}],
         UNCHANGED <<overlapped, closed, memberVars, queueVars, eventVars>>
  PROVE  MembershipIInv'
<1>1. /\ joins' \in [Join -> [pc : JoinPc, copy : Join]]
      /\ joins'[j].pc = pc /\ joins'[j].copy = joins[j].copy
      /\ \A k \in Join : k # j => joins'[k] = joins[k]
  BY JoinMoves DEF MembershipIInv
<1>2. UNCHANGED <<overlapped, closed, connectionRooms, connections, queue, running,
                  pending, flushing, recorded, departed>>
  BY DEF memberVars, queueVars, eventVars
<1>3. (TypeOK /\ MembershipAgrees)'
  BY <1>1, <1>2 DEF MembershipIInv, TypeOK, MembershipAgrees
<1>4. (DeparturesAreKept /\ DeparturesAreAppendedOnce /\ RunningDeparted)'
  BY <1>2 DEF MembershipIInv, DeparturesAreKept, DeparturesAreAppendedOnce, RunningDeparted
<1>5. CopiesOfRoom'
  BY <1>1 DEF MembershipIInv, CopiesOfRoom
<1>6. (PresencesEntered /\ EventsDeparted)'
  <2>1. \A k \in Join : Entered(k) => Entered(k)'
    BY <1>1 DEF Entered
  <2>2. QED
    BY <1>2, <2>1, EnteredStays DEF MembershipIInv
<1>7. LeavingAlone'
  BY <1>1, <1>2 DEF MembershipIInv, LeavingAlone, Entered
<1>8. WaitersLeave'
  <2>1. \A r \in Room : \A i \in DOMAIN queue[r] :
          queue[r][i].waiter # None => joins'[queue[r][i].waiter] = joins[queue[r][i].waiter]
    BY <1>1, EntryType DEF MembershipIInv, WaitersLeave
  <2>2. QED
    BY <1>2, <2>1 DEF MembershipIInv, WaitersLeave, StillPresent
<1>9. OneCopy'
  <2>1. \A r \in Room : /\ Active(r)' = Active(r)
                        /\ \A k \in Entering(r)' : k \in Entering(r) /\ joins'[k].copy = joins[k].copy
    BY <1>1, <1>2 DEF Active, Entering
  <2>2. QED
    BY <1>2, <2>1, OneCopyStands DEF MembershipIInv
<1>10. QED
  BY <1>3, <1>4, <1>5, <1>6, <1>7, <1>8, <1>9 DEF MembershipIInv

LEMMA FinishTypeOK ==
  ASSUME TypeOK, NEW j \in Join, Finish(j)
  PROVE  MoveTo(j, "done") /\ UNCHANGED overlapped
         /\ pendingJoins' \in [Connection -> Join \cup {None}]
BY DEF TypeOK, Finish

\* Joins that start, look up their session, give up or are over.
LEMMA JoinGoesOn ==
  ASSUME MembershipIInv, NEW j \in Join,
         StartJoin(j) \/ SessionFound(j) \/ GiveUpJoin(j) \/ FinishJoin(j)
  PROVE  MembershipIInv'
<1>1. TypeOK
  BY DEF MembershipIInv
<1>2. CASE StartJoin(j)
  BY <1>1, <1>2, JoinPasses, JoinAssumption DEF StartJoin, JoinPc, Entered, TypeOK
<1>3. CASE SessionFound(j)
  BY <1>1, <1>3, JoinPasses DEF SessionFound, JoinPc, Entered, TypeOK
<1>4. CASE GiveUpJoin(j)
  BY <1>1, <1>4, JoinPasses, FinishTypeOK DEF GiveUpJoin, JoinPc, Entered
<1>5. CASE FinishJoin(j)
  BY <1>1, <1>5, JoinPasses, FinishTypeOK DEF FinishJoin, JoinPc, Entered
<1>6. QED
  BY <1>2, <1>3, <1>4, <1>5

-----------------------------------------------------------------------------
(* Entering *)

\* While a join has not entered, its connection waits for no other one.
LEMMA NobodyElseLeaves ==
  ASSUME MembershipIInv, NEW j \in Join, ~Entered(j)
  PROVE  /\ \A k \in Join : joins[k].pc \in {"leaving", "left"} /\ ConnOf[k] = ConnOf[j]
                              => k = j
         /\ joins[j].pc # "leaving" =>
              \A r \in Room : \A i \in DOMAIN queue[r] :
                queue[r][i].waiter # None => queue[r][i].conn # ConnOf[j]
         /\ j \notin departed
         /\ \A o \in Join, c \in Connection : connections[o][c] # j
<1>1. \A k \in Join : joins[k].pc \in {"leaving", "left"} /\ ConnOf[k] = ConnOf[j] => k = j
  BY DEF MembershipIInv, LeavingAlone
<1>2. joins[j].pc # "leaving" =>
        \A r \in Room : \A i \in DOMAIN queue[r] :
          queue[r][i].waiter # None => queue[r][i].conn # ConnOf[j]
  BY <1>1, EntryType DEF MembershipIInv, WaitersLeave
<1>3. j \notin departed
  BY DEF MembershipIInv, EventsDeparted
<1>4. \A o \in Join, c \in Connection : connections[o][c] # j
  BY NoneAssumption DEF MembershipIInv, PresencesEntered
<1>5. QED
  BY <1>1, <1>2, <1>3, <1>4

\* The room where the join goes is the only copy, unless joins overlap.
NewcomerFits(j, copy) ==
  RoomOf[j] \notin overlapped' =>
    /\ \A k \in Entering(RoomOf[j]) : k = j
    /\ \A o \in Active(RoomOf[j]) : o = copy

\* The join enters: its connection is in no room.
LEMMA JoinEnters ==
  ASSUME MembershipIInv, NEW j \in Join, NEW copy \in Join,
         joins[j].pc \in {"store", "restore", "left"}, RoomOf[copy] = RoomOf[j],
         connectionRooms[ConnOf[j]] = None,
         joins' \in [Join -> [pc : JoinPc, copy : Join]],
         joins'[j].pc = "joined", joins'[j].copy = copy,
         \A k \in Join : k # j => joins'[k] = joins[k],
         connections' = [connections EXCEPT ![copy][ConnOf[j]] = j],
         connectionRooms' = [connectionRooms EXCEPT ![ConnOf[j]] = copy],
         overlapped \subseteq overlapped', overlapped' \subseteq Room,
         NewcomerFits(j, copy),
         UNCHANGED <<pendingJoins, closed, queue, running, eventVars>>
  PROVE  MembershipIInv'
<1> DEFINE c == ConnOf[j]
<1>1. /\ TypeOK /\ c \in Connection /\ ~Entered(j) /\ RoomOf[j] \in Room
      /\ UNCHANGED <<pending, flushing, recorded, departed>>
  BY JoinAssumption DEF MembershipIInv, Entered, eventVars
<1>2. /\ \A k \in Join : joins[k].pc \in {"leaving", "left"} /\ ConnOf[k] = c => k = j
      /\ \A r \in Room : \A i \in DOMAIN queue[r] :
           queue[r][i].waiter # None => queue[r][i].conn # c
      /\ j \notin departed
      /\ \A o \in Join, d \in Connection : connections[o][d] # j
  BY <1>1, NobodyElseLeaves
<1>3. \A k \in Join : Entered(k) => Entered(k)'
  BY <1>1 DEF Entered
<1>4. /\ connections' \in [Join -> [Connection -> Join \cup {None}]]
      /\ connections'[copy][c] = j
      /\ \A o \in Join, d \in Connection :
           o # copy \/ d # c => connections'[o][d] = connections[o][d]
      /\ connectionRooms' \in [Connection -> Join \cup {None}]
      /\ connectionRooms'[c] = copy
      /\ \A d \in Connection : d # c => connectionRooms'[d] = connectionRooms[d]
  BY <1>1 DEF TypeOK
<1> HIDE DEF c
<1>5. TypeOK'
  BY <1>1, <1>4 DEF TypeOK
<1>6. MembershipAgrees'
  BY <1>1, <1>4, NoneAssumption DEF MembershipIInv, MembershipAgrees, c
<1>7. (DeparturesAreKept /\ DeparturesAreAppendedOnce)'
  BY <1>1 DEF MembershipIInv, DeparturesAreKept, DeparturesAreAppendedOnce
<1>8. CopiesOfRoom'
  BY DEF MembershipIInv, CopiesOfRoom
<1>9. PresencesEntered'
  <2>1. ASSUME NEW o \in Join, NEW d \in Connection, connections'[o][d] # None
        PROVE  LET k == connections'[o][d] IN
               ConnOf[k] = d /\ joins'[k].pc \in {"joined", "done"} /\ k \notin departed'
    <3>1. CASE o = copy /\ d = c
      BY <1>1, <1>2, <1>4, <3>1 DEF c
    <3>2. CASE o # copy \/ d # c
      BY <1>1, <1>3, <1>4, <2>1, <3>2
         DEF MembershipIInv, TypeOK, PresencesEntered, Entered
    <3>3. QED
      BY <3>1, <3>2
  <2>2. QED
    BY <2>1 DEF PresencesEntered, Entered
<1>10. EventsDeparted'
  BY <1>1, <1>3 DEF MembershipIInv, TypeOK, EventsDeparted
<1>11. RunningDeparted'
  <2>1. \A r \in Room : running[r] /\ Head(queue[r]).waiter # None =>
          connectionRooms'[Head(queue[r]).conn] = connectionRooms[Head(queue[r]).conn]
    <3>1. \A r \in Room : running[r] => 1 \in DOMAIN queue[r] /\ Head(queue[r]) = queue[r][1]
      BY <1>1, QueueTail DEF MembershipIInv, TypeOK, RunningDeparted
    <3>2. QED
      BY <1>1, <1>2, <1>4, <3>1, EntryType
  <2>2. QED
    BY <1>1, <2>1 DEF MembershipIInv, RunningDeparted
<1>12. LeavingAlone'
  <2>1. ASSUME NEW k \in Join, joins'[k].pc \in {"leaving", "left"}
        PROVE  /\ \A l \in Join : ConnOf[l] = ConnOf[k] /\ l # k => joins'[l].pc \in {"joined", "done"}
               /\ joins'[k].pc = "left" => connectionRooms'[ConnOf[k]] = None
    <3>1. k # j /\ joins'[k] = joins[k] /\ ConnOf[k] # c /\ ConnOf[k] \in Connection
      BY <1>2, <2>1, JoinAssumption
    <3>2. QED
      BY <1>3, <1>4, <2>1, <3>1 DEF MembershipIInv, LeavingAlone, Entered
  <2>2. QED
    BY <2>1 DEF LeavingAlone, Entered
<1>13. WaitersLeave'
  <2>1. ASSUME NEW r \in Room, NEW i \in DOMAIN queue[r], queue[r][i].waiter # None
        PROVE  LET d == queue[r][i] IN
               /\ joins'[d.waiter] = joins[d.waiter] /\ d.conn # c
               /\ connectionRooms'[d.conn] = connectionRooms[d.conn]
               /\ connections'[d.copy][d.conn] = connections[d.copy][d.conn]
    BY <1>1, <1>2, <1>4, <2>1, EntryType DEF MembershipIInv, WaitersLeave, Entered
  <2>2. QED
    BY <2>1 DEF MembershipIInv, WaitersLeave, StillPresent
<1>14. OneCopy'
  <2>1. \A r \in Room : /\ Entering(r)' \subseteq Entering(r) \ {j}
                        /\ \A k \in Entering(r)' : joins'[k].copy = joins[k].copy
    BY DEF Entering
  <2>2. \A r \in Room : Active(r)' \subseteq Active(r) \cup {copy}
    BY <1>4 DEF Active
  <2>3. \A r \in Room : r # RoomOf[j] => copy \notin Active(r)'
    BY DEF Active
  <2>4. QED
    BY <1>1, <2>1, <2>2, <2>3 DEF MembershipIInv, OneCopy, NewcomerFits
<1>15. QED
  BY <1>5, <1>6, <1>7, <1>8, <1>9, <1>10, <1>11, <1>12, <1>13, <1>14 DEF MembershipIInv

\* Nobody has the room in memory: the join restores its own copy.
LEMMA JoinRestores ==
  ASSUME MembershipIInv, NEW j \in Join, joins[j].pc = "store", MoveTo(j, "restore"),
         Active(RoomOf[j]) = {},
         overlapped' = IF Entering(RoomOf[j]) # {} THEN overlapped \cup {RoomOf[j]}
                       ELSE overlapped,
         UNCHANGED <<pendingJoins, closed, memberVars, queue, running, eventVars>>
  PROVE  MembershipIInv'
<1>1. /\ joins' \in [Join -> [pc : JoinPc, copy : Join]]
      /\ joins'[j].pc = "restore" /\ joins'[j].copy = joins[j].copy
      /\ \A k \in Join : k # j => joins'[k] = joins[k]
  BY JoinMoves DEF MembershipIInv, JoinPc
<1>2. /\ TypeOK /\ ~Entered(j) /\ RoomOf[j] \in Room
      /\ UNCHANGED <<connectionRooms, connections, pending, flushing, recorded, departed>>
  BY JoinAssumption DEF MembershipIInv, Entered, memberVars, eventVars
<1>3. (TypeOK /\ MembershipAgrees)'
  BY <1>1, <1>2 DEF MembershipIInv, TypeOK, MembershipAgrees
<1>4. (DeparturesAreKept /\ DeparturesAreAppendedOnce /\ RunningDeparted)'
  BY <1>2 DEF MembershipIInv, DeparturesAreKept, DeparturesAreAppendedOnce, RunningDeparted
<1>5. (CopiesOfRoom /\ PresencesEntered /\ EventsDeparted)'
  <2>1. \A k \in Join : Entered(k) => Entered(k)'
    BY <1>1, <1>2 DEF Entered
  <2>2. QED
    BY <1>1, <1>2, <2>1, EnteredStays DEF MembershipIInv, CopiesOfRoom
<1>6. LeavingAlone'
  BY <1>1, <1>2 DEF MembershipIInv, LeavingAlone, Entered
<1>7. WaitersLeave'
  <2>1. \A r \in Room : \A i \in DOMAIN queue[r] :
          queue[r][i].waiter # None => joins'[queue[r][i].waiter] = joins[queue[r][i].waiter]
    BY <1>1, EntryType DEF MembershipIInv, WaitersLeave
  <2>2. QED
    BY <1>2, <2>1 DEF MembershipIInv, WaitersLeave, StillPresent
<1>8. OneCopy'
  <2>1. \A r \in Room : /\ Entering(r)' \subseteq Entering(r) \cup {j}
                        /\ \A k \in Entering(r)' : joins'[k].copy = joins[k].copy
                        /\ r # RoomOf[j] => Entering(r)' = Entering(r)
                        /\ Active(r)' = Active(r)
    BY <1>1, <1>2 DEF Entering, Active
  <2>2. QED
    BY <1>2, <2>1 DEF MembershipIInv, OneCopy
<1>9. QED
  BY <1>3, <1>4, <1>5, <1>6, <1>7, <1>8 DEF MembershipIInv

\* The connection is in a room: the join waits for its disconnect.
LEMMA JoinLeaves ==
  ASSUME MembershipIInv, NEW j \in Join, NEW copy \in Join,
         joins[j].pc \in {"store", "restore"}, RoomOf[copy] = RoomOf[j],
         connectionRooms[ConnOf[j]] # None,
         joins' = [joins EXCEPT ![j] = [pc |-> "leaving", copy |-> copy]],
         Enqueue(ConnOf[j], j),
         overlapped \subseteq overlapped', overlapped' \subseteq Room,
         NewcomerFits(j, copy),
         UNCHANGED <<pendingJoins, closed, memberVars, running, eventVars>>
  PROVE  MembershipIInv'
<1> DEFINE c == ConnOf[j]
           mine == DisconnectOf(c, j)
<1>1. /\ TypeOK /\ c \in Connection /\ ~Entered(j) /\ j # None
      /\ UNCHANGED <<connectionRooms, connections, pending, flushing, recorded, departed>>
  BY JoinAssumption, NoneAssumption DEF MembershipIInv, Entered, memberVars, eventVars
<1>2. /\ joins' \in [Join -> [pc : JoinPc, copy : Join]]
      /\ joins'[j].pc = "leaving" /\ joins'[j].copy = copy
      /\ \A k \in Join : k # j => joins'[k] = joins[k]
  BY <1>1 DEF TypeOK, JoinPc
<1>3. /\ mine \in Disconnect /\ StillPresent(mine) /\ mine.conn = c /\ mine.waiter = j
      /\ queue' \in [Room -> Seq(Disconnect)]
      /\ \A s \in Room : queue[s] # <<>> =>
           queue'[s] # <<>> /\ Head(queue'[s]) = Head(queue[s])
      /\ \A s \in Room : \A i \in DOMAIN queue'[s] :
           \/ i \in DOMAIN queue[s] /\ queue'[s][i] = queue[s][i]
           \/ i \notin DOMAIN queue[s] /\ queue'[s][i] = mine
      /\ \A s, t \in Room : \A i \in DOMAIN queue'[s], k \in DOMAIN queue'[t] :
           i \notin DOMAIN queue[s] /\ k \notin DOMAIN queue[t] => s = t /\ i = k
  BY <1>1, EnqueueAdds
<1> HIDE DEF c, mine
<1>4. /\ \A k \in Join : joins[k].pc \in {"leaving", "left"} /\ ConnOf[k] = c => k = j
      /\ \A k \in Join : Entered(k) => Entered(k)'
  BY <1>1, <1>2, NobodyElseLeaves DEF Entered, c
<1>5. (TypeOK /\ MembershipAgrees)'
  BY <1>1, <1>2, <1>3 DEF MembershipIInv, TypeOK, MembershipAgrees
<1>6. \A r \in Room : running[r] => Head(queue'[r]) = Head(queue[r]) /\ queue'[r] # <<>>
  BY <1>3 DEF MembershipIInv, RunningDeparted
<1>7. (DeparturesAreKept /\ DeparturesAreAppendedOnce /\ RunningDeparted)'
  BY <1>1, <1>6
     DEF MembershipIInv, DeparturesAreKept, DeparturesAreAppendedOnce, RunningDeparted
<1>8. (CopiesOfRoom /\ PresencesEntered /\ EventsDeparted)'
  BY <1>1, <1>2, <1>4, EnteredStays DEF MembershipIInv, CopiesOfRoom
<1>9. \A k \in Join : ConnOf[k] = c /\ k # j => Entered(k)
  <2>1. PICK o \in Join : connections[o][c] # None
    BY <1>1 DEF MembershipIInv, MembershipAgrees, TypeOK, c
  <2>2. connections[o][c] \in Join /\ ConnOf[connections[o][c]] = c /\ Entered(connections[o][c])
    BY <1>1, <2>1 DEF MembershipIInv, TypeOK, PresencesEntered
  <2>3. QED
    BY <1>1, <2>2, JoinsPerConnection DEF c
<1>10. LeavingAlone'
  <2>1. ASSUME NEW k \in Join, joins'[k].pc \in {"leaving", "left"},
               NEW l \in Join, ConnOf[l] = ConnOf[k], l # k
        PROVE  Entered(l)'
    BY <1>2, <1>4, <1>9, <2>1 DEF MembershipIInv, LeavingAlone, c
  <2>2. \A k \in Join : joins'[k].pc = "left" => connectionRooms'[ConnOf[k]] = None
    BY <1>1, <1>2 DEF MembershipIInv, LeavingAlone
  <2>3. QED
    BY <2>1, <2>2 DEF LeavingAlone
<1>11. WaitersLeave'
  <2>1. ASSUME NEW r \in Room, NEW i \in DOMAIN queue'[r], queue'[r][i].waiter # None
        PROVE  LET d == queue'[r][i] IN
               /\ joins'[d.waiter].pc = "leaving" /\ ConnOf[d.waiter] = d.conn
               /\ connectionRooms'[d.conn] # None => StillPresent(d)
               /\ i \in DOMAIN queue[r] <=> d.waiter # j
    <3>1. CASE i \in DOMAIN queue[r] /\ queue'[r][i] = queue[r][i]
      <4>1. queue[r][i].waiter \in Join /\ queue[r][i].waiter # j
        BY <1>1, <2>1, <3>1, EntryType DEF MembershipIInv, WaitersLeave
      <4>2. QED
        BY <1>1, <1>2, <2>1, <3>1, <4>1 DEF MembershipIInv, WaitersLeave
    <3>2. CASE i \notin DOMAIN queue[r] /\ queue'[r][i] = mine
      BY <1>1, <1>2, <1>3, <3>2 DEF c
    <3>3. QED
      BY <1>3, <3>1, <3>2
  <2>2. ASSUME NEW r \in Room, NEW i \in DOMAIN queue'[r], queue'[r][i].waiter # None,
               NEW s \in Room, NEW k \in DOMAIN queue'[s],
               queue'[s][k].waiter = queue'[r][i].waiter
        PROVE  s = r /\ k = i
    <3>1. CASE queue'[r][i].waiter = j
      BY <1>3, <2>1, <2>2, <3>1
    <3>2. CASE queue'[r][i].waiter # j
      <4>1. /\ i \in DOMAIN queue[r] /\ queue'[r][i] = queue[r][i]
            /\ k \in DOMAIN queue[s] /\ queue'[s][k] = queue[s][k]
        BY <1>3, <2>1, <2>2, <3>2
      <4>2. QED
        BY <2>2, <4>1 DEF MembershipIInv, WaitersLeave
    <3>3. QED
      BY <3>1, <3>2
  <2>3. QED
    BY <1>1, <2>1, <2>2 DEF WaitersLeave, StillPresent
<1>12. OneCopy'
  <2>1. \A r \in Room : /\ Entering(r)' \subseteq Entering(r) \cup {j}
                        /\ \A k \in Entering(r)' : k # j => joins'[k].copy = joins[k].copy
                        /\ r # RoomOf[j] => Entering(r)' = Entering(r) \ {j}
                        /\ Active(r)' = Active(r)
    BY <1>1, <1>2 DEF Entering, Active
  <2>2. QED
    BY <1>1, <1>2, <2>1 DEF MembershipIInv, OneCopy, NewcomerFits
<1>13. QED
  BY <1>5, <1>7, <1>8, <1>10, <1>11, <1>12 DEF MembershipIInv

LEMMA EnterKeeps ==
  ASSUME MembershipIInv, NEW j \in Join, NEW copy \in Join,
         joins[j].pc \in {"store", "restore"}, RoomOf[copy] = RoomOf[j], Enter(j, copy),
         overlapped \subseteq overlapped', overlapped' \subseteq Room,
         NewcomerFits(j, copy),
         UNCHANGED <<pendingJoins, closed, running, eventVars>>
  PROVE  MembershipIInv'
<1>1. CASE connectionRooms[ConnOf[j]] # None
  BY <1>1, JoinLeaves DEF Enter
<1>2. CASE connectionRooms[ConnOf[j]] = None
  <2>1. /\ joins' = [joins EXCEPT ![j] = [pc |-> "joined", copy |-> copy]]
        /\ connections' = [connections EXCEPT ![copy][ConnOf[j]] = j]
        /\ connectionRooms' = [connectionRooms EXCEPT ![ConnOf[j]] = copy]
        /\ UNCHANGED queue
    BY <1>2 DEF Enter
  <2>2. /\ joins' \in [Join -> [pc : JoinPc, copy : Join]]
        /\ joins'[j].pc = "joined" /\ joins'[j].copy = copy
        /\ \A k \in Join : k # j => joins'[k] = joins[k]
    BY <2>1 DEF MembershipIInv, TypeOK, JoinPc
  <2>3. QED
    BY <1>2, <2>1, <2>2, JoinEnters
<1>3. QED
  BY <1>1, <1>2

LEMMA RoomFoundKeeps == ASSUME MembershipIInv, NEW j \in Join, RoomFound(j) PROVE MembershipIInv'
<1> DEFINE r == RoomOf[j]
<1>1. /\ joins[j].pc = "store" /\ r \in Room /\ TypeOK /\ overlapped \subseteq Room
      /\ overlapped' = IF Entering(r) # {} THEN overlapped \cup {r} ELSE overlapped
      /\ UNCHANGED <<pendingJoins, closed, running, eventVars>>
  BY JoinAssumption DEF RoomFound, MembershipIInv, TypeOK
<1>2. overlapped \subseteq overlapped' /\ overlapped' \subseteq Room
  BY <1>1
<1>3. ASSUME NEW o \in Active(r), Enter(j, o)
      PROVE  MembershipIInv'
  <2>1. o \in Join /\ RoomOf[o] = RoomOf[j]
    BY DEF Active
  <2>2. NewcomerFits(j, o)
    BY <1>1 DEF NewcomerFits, MembershipIInv, OneCopy
  <2>3. QED
    BY <1>1, <1>2, <1>3, <2>1, <2>2, EnterKeeps
<1>4. CASE Active(r) = {} /\ MoveTo(j, "restore") /\ UNCHANGED <<queue, memberVars>>
  BY <1>1, <1>2, <1>4, JoinRestores
<1>5. QED
  BY <1>3, <1>4 DEF RoomFound

LEMMA RoomRestoredKeeps ==
  ASSUME MembershipIInv, NEW j \in Join, RoomRestored(j)
  PROVE  MembershipIInv'
<1>1. /\ joins[j].pc = "restore" /\ joins[j].copy \in Join /\ overlapped' = overlapped
      /\ RoomOf[joins[j].copy] = RoomOf[j] /\ overlapped \subseteq Room /\ RoomOf[j] \in Room
  BY JoinAssumption DEF RoomRestored, MembershipIInv, TypeOK, CopiesOfRoom
<1>2. NewcomerFits(j, joins[j].copy)
  <2>1. j \in Entering(RoomOf[j])
    BY <1>1 DEF Entering
  <2>2. QED
    BY <1>1, <2>1 DEF NewcomerFits, MembershipIInv, OneCopy
<1>3. QED
  BY <1>1, <1>2, EnterKeeps DEF RoomRestored

LEMMA EnterAfterLeavingKeeps ==
  ASSUME MembershipIInv, NEW j \in Join, EnterAfterLeaving(j)
  PROVE  MembershipIInv'
<1> DEFINE copy == joins[j].copy
<1>1. /\ joins[j].pc = "left" /\ copy \in Join /\ overlapped' = overlapped
      /\ RoomOf[copy] = RoomOf[j] /\ overlapped \subseteq Room /\ RoomOf[j] \in Room
      /\ connectionRooms[ConnOf[j]] = None
  BY JoinAssumption DEF EnterAfterLeaving, MembershipIInv, TypeOK, CopiesOfRoom, LeavingAlone
<1>2. NewcomerFits(j, copy)
  <2>1. j \in Entering(RoomOf[j])
    BY <1>1 DEF Entering
  <2>2. QED
    BY <1>1, <2>1 DEF NewcomerFits, MembershipIInv, OneCopy
<1>3. /\ joins' \in [Join -> [pc : JoinPc, copy : Join]]
      /\ joins'[j].pc = "joined" /\ joins'[j].copy = copy
      /\ \A k \in Join : k # j => joins'[k] = joins[k]
  BY JoinMoves DEF EnterAfterLeaving, MembershipIInv, JoinPc
<1>4. /\ connections' = [connections EXCEPT ![copy][ConnOf[j]] = j]
      /\ connectionRooms' = [connectionRooms EXCEPT ![ConnOf[j]] = copy]
      /\ UNCHANGED <<pendingJoins, closed, queue, running, eventVars>>
  BY DEF EnterAfterLeaving, queueVars
<1>5. QED
  BY <1>1, <1>2, <1>3, <1>4, JoinEnters

-----------------------------------------------------------------------------
(* Leaving *)

\* A disconnect that nobody waits for is queued.
LEMMA CloseQueues ==
  ASSUME MembershipIInv, NEW c \in Connection, connectionRooms[c] # None, Enqueue(c, None),
         closed' \subseteq Connection, pendingJoins' \in [Connection -> Join \cup {None}],
         UNCHANGED <<joins, overlapped, memberVars, running, eventVars>>
  PROVE  MembershipIInv'
<1>1. /\ TypeOK
      /\ UNCHANGED <<connectionRooms, connections, pending, flushing, recorded, departed>>
  BY DEF MembershipIInv, memberVars, eventVars
<1>2. /\ queue' \in [Room -> Seq(Disconnect)]
      /\ \A s \in Room : queue[s] # <<>> =>
           queue'[s] # <<>> /\ Head(queue'[s]) = Head(queue[s])
      /\ \A s \in Room : \A i \in DOMAIN queue'[s] :
           \/ i \in DOMAIN queue[s] /\ queue'[s][i] = queue[s][i]
           \/ queue'[s][i].waiter = None
  BY EnqueueAdds
<1>3. (TypeOK /\ MembershipAgrees)'
  BY <1>1, <1>2 DEF MembershipIInv, TypeOK, MembershipAgrees
<1>4. \A r \in Room : running[r] => Head(queue'[r]) = Head(queue[r]) /\ queue'[r] # <<>>
  BY <1>2 DEF MembershipIInv, RunningDeparted
<1>5. (DeparturesAreKept /\ DeparturesAreAppendedOnce /\ RunningDeparted)'
  BY <1>1, <1>4
     DEF MembershipIInv, DeparturesAreKept, DeparturesAreAppendedOnce, RunningDeparted
<1>6. (CopiesOfRoom /\ PresencesEntered /\ EventsDeparted /\ LeavingAlone)'
  BY <1>1 DEF MembershipIInv, CopiesOfRoom, PresencesEntered, EventsDeparted, LeavingAlone,
              Entered
<1>7. WaitersLeave'
  <2>1. \A r \in Room : \A i \in DOMAIN queue'[r] : queue'[r][i].waiter # None =>
          i \in DOMAIN queue[r] /\ queue'[r][i] = queue[r][i]
    BY <1>2
  <2>2. QED
    BY <1>1, <2>1 DEF MembershipIInv, WaitersLeave, StillPresent
<1>8. OneCopy'
  <2>1. \A r \in Room : Entering(r)' = Entering(r) /\ Active(r)' = Active(r)
    BY <1>1 DEF Entering, Active
  <2>2. QED
    BY <2>1, OneCopyStands DEF MembershipIInv, Entering
<1>9. QED
  BY <1>3, <1>5, <1>6, <1>7, <1>8 DEF MembershipIInv

\* Whatever is noted of sockets and events, if the departures stay in order.
LEMMA EventsMove ==
  ASSUME MembershipIInv, UNCHANGED <<joins, overlapped, memberVars, queueVars, departed>>,
         closed' \subseteq Connection, pendingJoins' \in [Connection -> Join \cup {None}],
         recorded' \cup pending' \cup flushing' = recorded \cup pending \cup flushing,
         DeparturesAreAppendedOnce'
  PROVE  MembershipIInv'
<1>1. UNCHANGED <<connectionRooms, connections, queue, running>>
  BY DEF memberVars, queueVars
<1>2. (TypeOK /\ MembershipAgrees)'
  BY <1>1 DEF MembershipIInv, TypeOK, MembershipAgrees
<1>3. (DeparturesAreKept /\ RunningDeparted)'
  BY <1>1 DEF MembershipIInv, DeparturesAreKept, RunningDeparted
<1>4. (CopiesOfRoom /\ PresencesEntered /\ EventsDeparted /\ LeavingAlone)'
  BY <1>1 DEF MembershipIInv, CopiesOfRoom, PresencesEntered, EventsDeparted, LeavingAlone,
              Entered
<1>5. WaitersLeave'
  BY <1>1 DEF MembershipIInv, WaitersLeave, StillPresent
<1>6. OneCopy'
  <2>1. \A r \in Room : Entering(r)' = Entering(r) /\ Active(r)' = Active(r)
    BY <1>1 DEF Entering, Active
  <2>2. QED
    BY <2>1, OneCopyStands DEF MembershipIInv, Entering
<1>7. QED
  BY <1>2, <1>3, <1>4, <1>5, <1>6 DEF MembershipIInv

LEMMA CloseKeeps == ASSUME MembershipIInv, NEW c \in Connection, Close(c) PROVE MembershipIInv'
<1>1. closed' \subseteq Connection /\ pendingJoins' \in [Connection -> Join \cup {None}]
  BY DEF Close, MembershipIInv, TypeOK
<1>2. CASE connectionRooms[c] # None
  BY <1>1, <1>2, CloseQueues DEF Close
<1>3. CASE connectionRooms[c] = None
  BY <1>1, <1>3, EventsMove
     DEF Close, MembershipIInv, DeparturesAreAppendedOnce, queueVars, eventVars
<1>4. QED
  BY <1>2, <1>3

\* The flush takes, records and gives back departures.
LEMMA FlushKeeps ==
  ASSUME MembershipIInv, TakePending \/ \E j \in Join : FlushOne(j) \/ FlushFails(j)
  PROVE  MembershipIInv'
<1>1. /\ UNCHANGED <<joins, pendingJoins, overlapped, closed, memberVars, queueVars, departed>>
      /\ recorded' \cup pending' \cup flushing' = recorded \cup pending \cup flushing
  BY DEF TakePending, FlushOne, FlushFails, joinVars
<1>2. DeparturesAreAppendedOnce'
  BY DEF MembershipIInv, DeparturesAreAppendedOnce, TakePending, FlushOne, FlushFails
<1>3. QED
  BY <1>1, <1>2, EventsMove DEF MembershipIInv, TypeOK

\* The presence leaves, if it is still the one that the disconnect is for.
LEMMA StartDisconnectKeeps ==
  ASSUME MembershipIInv, NEW r \in Room, StartDisconnect(r)
  PROVE  MembershipIInv'
<1> DEFINE d == Head(queue[r])
<1>1. /\ TypeOK /\ queue[r] # <<>> /\ ~running[r] /\ 1 \in DOMAIN queue[r] /\ d = queue[r][1]
      /\ d \in Disconnect /\ d.conn \in Connection /\ d.copy \in Join /\ d.presence \in Join
  BY QueueTail DEF StartDisconnect, MembershipIInv, TypeOK, Disconnect
<1>2. /\ connectionRooms[d.conn] = d.copy /\ connections[d.copy][d.conn] = d.presence
      /\ departed' = departed \cup {d.presence}
      /\ UNCHANGED <<joins, pendingJoins, overlapped, closed, queue, pending, flushing, recorded>>
  BY DEF StartDisconnect, StillPresent, joinVars
<1> HIDE DEF d
<1>3. /\ connections' \in [Join -> [Connection -> Join \cup {None}]]
      /\ connections'[d.copy][d.conn] = None
      /\ \A o \in Join, c \in Connection :
           o # d.copy \/ c # d.conn => connections'[o][c] = connections[o][c]
      /\ connectionRooms' \in [Connection -> Join \cup {None}]
      /\ connectionRooms'[d.conn] = None
      /\ \A c \in Connection : c # d.conn => connectionRooms'[c] = connectionRooms[c]
      /\ running' \in [Room -> BOOLEAN] /\ running'[r]
      /\ \A s \in Room : s # r => running'[s] = running[s]
  <2>1. /\ connectionRooms' = [connectionRooms EXCEPT ![d.conn] = None]
        /\ connections' = [connections EXCEPT ![d.copy][d.conn] = None]
        /\ running' = [running EXCEPT ![r] = TRUE]
    BY DEF StartDisconnect, d
  <2>2. /\ connectionRooms \in [Connection -> Join \cup {None}]
        /\ connections \in [Join -> [Connection -> Join \cup {None}]]
        /\ running \in [Room -> BOOLEAN]
    BY <1>1 DEF TypeOK
  <2>3. /\ connections' \in [Join -> [Connection -> Join \cup {None}]]
        /\ connections'[d.copy][d.conn] = None
        /\ \A o \in Join, c \in Connection :
             o # d.copy \/ c # d.conn => connections'[o][c] = connections[o][c]
    BY <1>1, <2>1, <2>2
  <2>4. /\ connectionRooms' \in [Connection -> Join \cup {None}]
        /\ connectionRooms'[d.conn] = None
        /\ \A c \in Connection : c # d.conn => connectionRooms'[c] = connectionRooms[c]
    BY <1>1, <2>1, <2>2
  <2>5. /\ running' \in [Room -> BOOLEAN] /\ running'[r]
        /\ \A s \in Room : s # r => running'[s] = running[s]
    BY <2>1, <2>2
  <2>6. QED
    BY <2>3, <2>4, <2>5
<1>4. /\ d.presence \notin departed /\ ConnOf[d.presence] = d.conn /\ Entered(d.presence)
      /\ \A o \in Join, c \in Connection :
           connections[o][c] = d.presence => o = d.copy /\ c = d.conn
  <2>1. /\ d.presence \notin departed /\ ConnOf[d.presence] = d.conn /\ Entered(d.presence)
        /\ \A o \in Join, c \in Connection : connections[o][c] = d.presence => c = d.conn
    BY <1>1, <1>2, NoneAssumption DEF MembershipIInv, PresencesEntered
  <2>2. QED
    BY <1>1, <1>2, <2>1, NoneAssumption DEF MembershipIInv, MembershipAgrees
<1>5. TypeOK'
  BY <1>1, <1>2, <1>3 DEF TypeOK
<1>6. MembershipAgrees'
  BY <1>1, <1>2, <1>3, NoneAssumption DEF MembershipIInv, MembershipAgrees
<1>7. DeparturesAreKept' /\ DeparturesAreAppendedOnce'
  BY <1>1, <1>2, <1>3
     DEF MembershipIInv, DeparturesAreKept, DeparturesAreAppendedOnce, d
<1>8. CopiesOfRoom'
  BY <1>2 DEF MembershipIInv, CopiesOfRoom
<1>9. PresencesEntered'
  <2>1. PresencesEntered
    BY DEF MembershipIInv
  <2>2. ASSUME NEW o \in Join, NEW c \in Connection, connections'[o][c] # None
        PROVE  /\ connections'[o][c] = connections[o][c]
               /\ connections[o][c] # d.presence
    BY <1>3, <1>4, <2>2
  <2>3. QED
    BY <1>2, <2>1, <2>2 DEF PresencesEntered, Entered
<1>10. EventsDeparted'
  BY <1>2, <1>4 DEF MembershipIInv, EventsDeparted, Entered
<1>11. RunningDeparted'
  <2>1. ASSUME NEW s \in Room, running'[s]
        PROVE  /\ queue[s] # <<>>
               /\ Head(queue[s]).presence \in departed' \ (recorded \cup pending \cup flushing)
               /\ Head(queue[s]).waiter # None => connectionRooms'[Head(queue[s]).conn] = None
    <3>1. CASE s = r
      BY <1>1, <1>2, <1>3, <1>4, <3>1 DEF MembershipIInv, EventsDeparted, d
    <3>2. CASE s # r
      <4>1. Head(queue[s]).conn \in Connection
        BY <1>1, <1>3, <2>1, <3>2, QueueTail
           DEF MembershipIInv, TypeOK, RunningDeparted, Disconnect
      <4>2. QED
        BY <1>2, <1>3, <2>1, <3>2, <4>1 DEF MembershipIInv, RunningDeparted
    <3>3. QED
      BY <3>1, <3>2
  <2>2. ASSUME NEW s \in Room, NEW t \in Room, running'[s], running'[t], t # s
        PROVE  Head(queue[t]).presence # Head(queue[s]).presence
    BY <1>3, <1>4, <2>2 DEF MembershipIInv, RunningDeparted, d
  <2>3. QED
    BY <1>2, <2>1, <2>2 DEF RunningDeparted
<1>12. LeavingAlone'
  BY <1>2, <1>3, JoinAssumption DEF MembershipIInv, LeavingAlone, Entered
<1>13. WaitersLeave'
  <2>1. ASSUME NEW s \in Room, NEW i \in DOMAIN queue[s],
               connectionRooms'[queue[s][i].conn] # None
        PROVE  LET e == queue[s][i] IN
               /\ connectionRooms'[e.conn] = connectionRooms[e.conn]
               /\ connections'[e.copy][e.conn] = connections[e.copy][e.conn]
    BY <1>1, <1>3, <2>1, EntryType
  <2>2. QED
    BY <1>2, <2>1 DEF MembershipIInv, WaitersLeave, StillPresent
<1>14. OneCopy'
  <2>1. \A s \in Room : Entering(s)' = Entering(s) /\ Active(s)' \subseteq Active(s)
    BY <1>1, <1>2, <1>3, NoneAssumption DEF Entering, Active
  <2>2. QED
    BY <1>2, <2>1, OneCopyStands DEF MembershipIInv, Entering
<1>15. QED
  BY <1>5, <1>6, <1>7, <1>8, <1>9, <1>10, <1>11, <1>12, <1>13, <1>14 DEF MembershipIInv

\* The join that waited for the disconnect, if there is one, leaves its place in
\* the queue and goes on or ends.
LEMMA WakeMoves ==
  ASSUME TypeOK, NEW d \in Disconnect, NEW failed, Wake(d, failed)
  PROVE  /\ overlapped' = overlapped /\ pendingJoins' \in [Connection -> Join \cup {None}]
         /\ joins' \in [Join -> [pc : JoinPc, copy : Join]]
         /\ \A k \in Join : k # d.waiter => joins'[k] = joins[k]
         /\ d.waiter # None => /\ d.waiter \in Join
                               /\ joins'[d.waiter].pc \in {"left", "done"}
                               /\ joins'[d.waiter].copy = joins[d.waiter].copy
<1>1. CASE d.waiter = None
  BY <1>1, NoneAssumption DEF Wake, joinVars, TypeOK
<1>2. CASE d.waiter # None
  <2>1. d.waiter \in Join
    BY <1>2 DEF Disconnect
  <2>2. CASE MoveTo(d.waiter, "left") /\ UNCHANGED <<pendingJoins, overlapped>>
    BY <2>1, <2>2, JoinMoves DEF JoinPc, TypeOK
  <2>3. CASE failed /\ Finish(d.waiter)
    BY <2>1, <2>3, FinishTypeOK, JoinMoves DEF JoinPc
  <2>4. QED
    BY <1>2, <2>2, <2>3 DEF Wake
<1>3. QED
  BY <1>1, <1>2

LEMMA DisconnectOver ==
  ASSUME MembershipIInv, NEW r \in Room, queue[r] # <<>>, Dequeue(r), NEW failed,
         Wake(Head(queue[r]), failed), UNCHANGED memberVars,
         Head(queue[r]).waiter # None => connectionRooms[Head(queue[r]).conn] = None
  PROVE  /\ queue' \in [Room -> Seq(Disconnect)]
         /\ \A s \in Room : s # r => queue'[s] = queue[s]
         /\ pendingJoins' \in [Connection -> Join \cup {None}]
         /\ joins' \in [Join -> [pc : JoinPc, copy : Join]]
         /\ overlapped' = overlapped
         /\ \A j \in Join : Entered(j) => Entered(j)'
         /\ (MembershipAgrees /\ CopiesOfRoom /\ LeavingAlone /\ WaitersLeave /\ OneCopy)'
<1> DEFINE d == Head(queue[r])
           w == d.waiter
<1>1. /\ queue' \in [Room -> Seq(Disconnect)] /\ d \in Disconnect
      /\ 1 \in DOMAIN queue[r] /\ d = queue[r][1]
      /\ \A s \in Room : s # r => queue'[s] = queue[s]
      /\ \A i \in DOMAIN queue'[r] :
           /\ i + 1 \in DOMAIN queue[r] /\ i + 1 # 1 /\ i \in Nat
           /\ queue'[r][i] = queue[r][i + 1]
  BY DequeueRemoves
<1>2. /\ overlapped' = overlapped /\ pendingJoins' \in [Connection -> Join \cup {None}]
      /\ joins' \in [Join -> [pc : JoinPc, copy : Join]]
      /\ \A k \in Join : k # w => joins'[k] = joins[k]
      /\ w # None => w \in Join /\ joins'[w].pc \in {"left", "done"}
                     /\ joins'[w].copy = joins[w].copy
  BY <1>1, WakeMoves DEF MembershipIInv
<1>3. UNCHANGED <<connectionRooms, connections>> /\ TypeOK
  BY DEF memberVars, MembershipIInv
<1>4. w # None => /\ joins[w].pc = "leaving" /\ ConnOf[w] = d.conn
                  /\ connectionRooms[ConnOf[w]] = None
                  /\ \A s \in Room : \A k \in DOMAIN queue[s] :
                       queue[s][k].waiter = w => s = r /\ k = 1
  BY <1>1 DEF MembershipIInv, WaitersLeave
<1> HIDE DEF d, w
<1>5. \A k \in Join : k # w \/ w # None
  BY NoneAssumption
<1>6. \A j \in Join : Entered(j) => Entered(j)'
  BY <1>2, <1>4, <1>5 DEF Entered
<1>7. MembershipAgrees'
  BY <1>3 DEF MembershipIInv, MembershipAgrees
<1>8. CopiesOfRoom'
  BY <1>2, <1>5 DEF MembershipIInv, CopiesOfRoom
<1>9. LeavingAlone'
  <2>1. ASSUME NEW j \in Join, joins'[j].pc \in {"leaving", "left"}
        PROVE  /\ \A k \in Join : ConnOf[k] = ConnOf[j] /\ k # j => Entered(k)'
               /\ joins'[j].pc = "left" => connectionRooms[ConnOf[j]] = None
    <3>1. joins[j].pc \in {"leaving", "left"}
      BY <1>2, <1>4, <1>5, <2>1
    <3>2. QED
      BY <1>2, <1>4, <1>5, <1>6, <2>1, <3>1 DEF MembershipIInv, LeavingAlone
  <2>2. QED
    BY <1>3, <2>1 DEF LeavingAlone
<1>10. WaitersLeave'
  <2>1. ASSUME NEW s \in Room, NEW i \in DOMAIN queue'[s], queue'[s][i].waiter # None
        PROVE  LET e == queue'[s][i]
                   k == IF s = r THEN i + 1 ELSE i
               IN  /\ k \in DOMAIN queue[s] /\ queue[s][k] = e /\ i \in Nat
                   /\ e.waiter # w /\ joins'[e.waiter] = joins[e.waiter]
    <3> DEFINE k == IF s = r THEN i + 1 ELSE i
    <3>1. k \in DOMAIN queue[s] /\ queue[s][k] = queue'[s][i] /\ (s = r => k # 1) /\ i \in Nat
      BY <1>1
    <3>2. queue'[s][i].waiter # w
      BY <1>4, <2>1, <3>1
    <3>3. queue'[s][i].waiter \in Join
      BY <1>3, <2>1, <3>1, EntryType
    <3>4. QED
      BY <1>2, <3>1, <3>2, <3>3
  <2>2. ASSUME NEW s \in Room, NEW i \in DOMAIN queue'[s], queue'[s][i].waiter # None,
               NEW t \in Room, NEW l \in DOMAIN queue'[t],
               queue'[t][l].waiter = queue'[s][i].waiter
        PROVE  t = s /\ l = i
    BY <2>1, <2>2 DEF MembershipIInv, WaitersLeave
  <2>3. ASSUME NEW s \in Room, NEW i \in DOMAIN queue'[s], queue'[s][i].waiter # None
        PROVE  LET e == queue'[s][i] IN
               /\ joins'[e.waiter].pc = "leaving" /\ ConnOf[e.waiter] = e.conn
               /\ connectionRooms[e.conn] # None => StillPresent(e)
    BY <2>1, <2>3 DEF MembershipIInv, WaitersLeave
  <2>4. QED
    BY <1>3, <2>2, <2>3 DEF WaitersLeave, StillPresent
<1>11. OneCopy'
  <2>1. \A s \in Room : /\ Active(s)' = Active(s)
                        /\ \A j \in Entering(s)' : j \in Entering(s)
                                                   /\ joins'[j].copy = joins[j].copy
    BY <1>2, <1>3, <1>4, <1>5 DEF Entering, Active
  <2>2. QED
    BY <1>2, <2>1, OneCopyStands DEF MembershipIInv
<1>12. QED
  BY <1>1, <1>2, <1>6, <1>7, <1>8, <1>9, <1>10, <1>11

LEMMA SkipDisconnectKeeps ==
  ASSUME MembershipIInv, NEW r \in Room, SkipDisconnect(r)
  PROVE  MembershipIInv'
<1>1. /\ queue[r] # <<>> /\ ~running[r] /\ ~StillPresent(Head(queue[r]))
      /\ Dequeue(r) /\ Wake(Head(queue[r]), FALSE) /\ UNCHANGED memberVars
      /\ UNCHANGED <<closed, running, pending, flushing, recorded, departed>>
  BY DEF SkipDisconnect, eventVars
<1>2. Head(queue[r]).waiter # None => connectionRooms[Head(queue[r]).conn] = None
  <2>1. 1 \in DOMAIN queue[r] /\ Head(queue[r]) = queue[r][1]
    BY <1>1, DequeueRemoves
  <2>2. QED
    BY <1>1, <2>1 DEF MembershipIInv, WaitersLeave
<1>3. /\ queue' \in [Room -> Seq(Disconnect)]
      /\ \A s \in Room : s # r => queue'[s] = queue[s]
      /\ pendingJoins' \in [Connection -> Join \cup {None}]
      /\ joins' \in [Join -> [pc : JoinPc, copy : Join]]
      /\ overlapped' = overlapped
      /\ \A j \in Join : Entered(j) => Entered(j)'
      /\ (MembershipAgrees /\ CopiesOfRoom /\ LeavingAlone /\ WaitersLeave /\ OneCopy)'
  BY <1>1, <1>2, DisconnectOver
<1>4. UNCHANGED <<connectionRooms, connections>>
  BY <1>1 DEF memberVars
<1>5. TypeOK'
  BY <1>1, <1>3, <1>4 DEF MembershipIInv, TypeOK
<1>6. (PresencesEntered /\ EventsDeparted)'
  BY <1>1, <1>3, <1>4, EnteredStays DEF MembershipIInv
<1>7. (DeparturesAreKept /\ DeparturesAreAppendedOnce /\ RunningDeparted)'
  <2>1. \A s \in Room : running[s] => queue'[s] = queue[s]
    BY <1>1, <1>3
  <2>2. DeparturesAreKept'
    BY <1>1, <2>1 DEF MembershipIInv, DeparturesAreKept
  <2>3. DeparturesAreAppendedOnce'
    BY <1>1 DEF MembershipIInv, DeparturesAreAppendedOnce
  <2>4. RunningDeparted'
    BY <1>1, <1>4, <2>1 DEF MembershipIInv, RunningDeparted
  <2>5. QED
    BY <2>2, <2>3, <2>4
<1>8. QED
  BY <1>3, <1>5, <1>6, <1>7 DEF MembershipIInv

LEMMA FinishDisconnectKeeps ==
  ASSUME MembershipIInv, NEW r \in Room, FinishDisconnect(r)
  PROVE  MembershipIInv'
<1> DEFINE d == Head(queue[r])
<1>1. /\ queue[r] # <<>> /\ running[r] /\ d.presence \in departed
      /\ d.presence \notin recorded \cup pending \cup flushing
      /\ d.waiter # None => connectionRooms[d.conn] = None
      /\ \A s \in Room : running[s] /\ s # r => Head(queue[s]).presence # d.presence
  BY DEF FinishDisconnect, MembershipIInv, RunningDeparted
<1>2. /\ Dequeue(r) /\ Wake(d, TRUE) /\ UNCHANGED memberVars
      /\ UNCHANGED <<closed, flushing, departed>> /\ running' = [running EXCEPT ![r] = FALSE]
      /\ \/ recorded' = recorded \cup {d.presence} /\ UNCHANGED pending
         \/ pending' = pending \cup {d.presence} /\ UNCHANGED recorded
  BY DEF FinishDisconnect
<1>3. /\ queue' \in [Room -> Seq(Disconnect)]
      /\ \A s \in Room : s # r => queue'[s] = queue[s]
      /\ pendingJoins' \in [Connection -> Join \cup {None}]
      /\ joins' \in [Join -> [pc : JoinPc, copy : Join]]
      /\ overlapped' = overlapped
      /\ \A j \in Join : Entered(j) => Entered(j)'
      /\ (MembershipAgrees /\ CopiesOfRoom /\ LeavingAlone /\ WaitersLeave /\ OneCopy)'
  BY <1>1, <1>2, DisconnectOver
<1> HIDE DEF d
<1>4. /\ UNCHANGED <<connectionRooms, connections>> /\ TypeOK
      /\ running' \in [Room -> BOOLEAN] /\ ~running'[r]
      /\ \A s \in Room : s # r => running'[s] = running[s]
  BY <1>2 DEF memberVars, MembershipIInv, TypeOK
<1>5. TypeOK'
  BY <1>1, <1>2, <1>3, <1>4 DEF TypeOK
<1>6. PresencesEntered'
  <2>1. \A o \in Join, c \in Connection : connections[o][c] \in Join \cup {None}
    BY <1>4 DEF TypeOK
  <2>2. QED
    BY <1>2, <1>3, <1>4, <2>1 DEF MembershipIInv, PresencesEntered
<1>7. EventsDeparted'
  BY <1>1, <1>2, <1>3, <1>4 DEF MembershipIInv, TypeOK, EventsDeparted
<1>8. DeparturesAreKept'
  BY <1>2, <1>3, <1>4 DEF MembershipIInv, DeparturesAreKept, d
<1>9. DeparturesAreAppendedOnce'
  BY <1>1, <1>2 DEF MembershipIInv, DeparturesAreAppendedOnce
<1>10. RunningDeparted'
  <2>1. \A s \in Room : running'[s] => s # r /\ running[s] /\ queue'[s] = queue[s]
    BY <1>3, <1>4
  <2>2. \A s \in Room : running'[s] =>
          Head(queue[s]).presence \notin recorded' \cup pending' \cup flushing'
    BY <1>1, <1>2, <2>1 DEF MembershipIInv, RunningDeparted
  <2>3. QED
    BY <1>2, <1>4, <2>1, <2>2 DEF MembershipIInv, RunningDeparted
<1>11. QED
  BY <1>3, <1>5, <1>6, <1>7, <1>8, <1>9, <1>10 DEF MembershipIInv

-----------------------------------------------------------------------------
LEMMA MembershipInitial == Init => MembershipIInv
<1> SUFFICES ASSUME Init
             PROVE  MembershipIInv
  OBVIOUS
<1>1. TypeOK
  BY DEF Init, TypeOK, JoinPc
<1>2. \A r \in Room : queue[r] = <<>> /\ ~running[r] /\ Entering(r) = {} /\ Active(r) = {}
  BY NoneAssumption DEF Init, Entering, Active
<1>3. CopiesOfRoom /\ LeavingAlone
  BY DEF Init, CopiesOfRoom, LeavingAlone
<1>4. MembershipAgrees /\ PresencesEntered /\ EventsDeparted
  BY NoneAssumption DEF Init, MembershipAgrees, PresencesEntered, EventsDeparted
<1>5. DeparturesAreKept /\ DeparturesAreAppendedOnce
  BY DEF Init, DeparturesAreKept, DeparturesAreAppendedOnce
<1>6. RunningDeparted /\ WaitersLeave /\ OneCopy
  BY <1>2 DEF RunningDeparted, WaitersLeave, OneCopy
<1>7. QED
  BY <1>1, <1>3, <1>4, <1>5, <1>6 DEF MembershipIInv

LEMMA MembershipStep == MembershipIInv /\ [Next]_vars => MembershipIInv'
<1> SUFFICES ASSUME MembershipIInv, [Next]_vars
             PROVE  MembershipIInv'
  OBVIOUS
<1>1. ASSUME NEW j \in Join, StartJoin(j) \/ JoinStep(j)
      PROVE  MembershipIInv'
  BY <1>1, JoinGoesOn, RoomFoundKeeps, RoomRestoredKeeps, EnterAfterLeavingKeeps DEF JoinStep
<1>2. CASE TakePending \/ \E j \in Join : FlushOne(j) \/ FlushFails(j)
  BY <1>2, FlushKeeps
<1>3. ASSUME NEW c \in Connection, Close(c)
      PROVE  MembershipIInv'
  BY <1>3, CloseKeeps
<1>4. ASSUME NEW r \in Room, DisconnectStep(r)
      PROVE  MembershipIInv'
  BY <1>4, StartDisconnectKeeps, SkipDisconnectKeeps, FinishDisconnectKeeps DEF DisconnectStep
<1>5. CASE UNCHANGED vars
  <2>1. /\ UNCHANGED <<joins, pendingJoins, overlapped, closed, memberVars, queueVars>>
        /\ UNCHANGED <<pending, flushing, recorded, departed>>
    BY <1>5 DEF vars, joinVars, eventVars
  <2>2. DeparturesAreAppendedOnce'
    BY <2>1 DEF MembershipIInv, DeparturesAreAppendedOnce
  <2>3. QED
    BY <2>1, <2>2, EventsMove DEF MembershipIInv, TypeOK
<1>6. QED
  BY <1>1, <1>2, <1>3, <1>4, <1>5 DEF Next

\* With one copy for everybody who does not overlap, players of a room meet.
LEMMA OneCopyMeets == ASSUME TypeOK, OneCopy PROVE SplitNeedsOverlap
<1> SUFFICES ASSUME NEW c \in Connection, NEW d \in Connection,
                    connectionRooms[c] # None, connectionRooms[d] # None,
                    RoomOf[connectionRooms[c]] = RoomOf[connectionRooms[d]],
                    RoomOf[connectionRooms[c]] \notin overlapped
             PROVE  connectionRooms[c] = connectionRooms[d]
  BY DEF SplitNeedsOverlap
<1>1. connectionRooms[c] \in Join /\ connectionRooms[d] \in Join
  BY DEF TypeOK
<1>2. RoomOf[connectionRooms[c]] \in Room
  BY <1>1, JoinAssumption
<1>3. QED
  BY <1>1, <1>2 DEF OneCopy, Active

\* Joins, disconnects and flushes that overlap keep the index of connections,
\* the members of the rooms and the departures consistent, for any number of
\* connections and rooms.
THEOREM MembershipInvariant == Spec => []MembershipInv
<1>1. MembershipIInv => MembershipInv
  BY OneCopyMeets DEF MembershipIInv, MembershipInv
<1>2. QED
  BY <1>1, MembershipInitial, MembershipStep, PTL DEF Spec

=============================================================================
