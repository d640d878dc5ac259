-------------------------- MODULE RoomFinalization --------------------------
(***************************************************************************)
(* Recording the result of completed rooms: the transactions of            *)
(* saveCompletion, which several callers run at the same time for the same *)
(* room (the drop that completed it, a join, the periodic persistence and  *)
(* the recovery of pending completions), and which write the result once   *)
(* and pay each participant's experience points once.  A transaction can   *)
(* be aborted at any point, by a failure, a crash or PostgreSQL's deadlock *)
(* detection.                                                              *)
(***************************************************************************)
EXTENDS Naturals, FiniteSets, FiniteSetsExt

CONSTANTS
  PlayedRoom,
  User,
  Xp,       \* Xp[r][u]: the points that u's events in room r are worth
  Worker,   \* the calls of saveCompletion that may be under way
  Recovery, \* those of them that recoverPendingCompletions makes
  Nobody,   \* no lock
  Open      \* no final summary

ASSUME XpAssumption == Xp \in [PlayedRoom -> [User -> Nat]]
ASSUME FiniteAssumption == IsFiniteSet(PlayedRoom) /\ PlayedRoom # {} /\ IsFiniteSet(User)
ASSUME RecoveryAssumption == Recovery \subseteq Worker
ASSUME NobodyAssumption == Nobody \notin Worker /\ \A S \in SUBSET User : Open # S

VARIABLES
  completed,    \* rooms whose room_completed event is committed
  participants, \* participants[r]: the users in the room's participant rows
  summary,      \* summary[r]: the users of the room's final summary, or Open
  paid,         \* user_xp_transactions: the <<room, user>> that were paid
  xpTotal,      \* xpTotal[u]
  tx,           \* the transaction of each worker
  resultLock,   \* who has the lock on the room's result row
  userLock,     \* who has the lock on the user's row
  todo          \* rooms left in a worker's pass over the pending completions

finalizationVars == <<completed, participants, summary, paid, xpTotal, tx, resultLock,
          userLock, todo>>

dbVars == <<summary, paid, xpTotal>>
lockVars == <<resultLock, userLock>>

Tx == [pc : {"idle", "begun", "locked", "paying"},
       room : PlayedRoom, players : SUBSET User, awards : SUBSET User]

NoTx == [pc |-> "idle", room |-> CHOOSE r \in PlayedRoom : TRUE, players |-> {}, awards |-> {}]

FinalizationTypeOK ==
  /\ completed \subseteq PlayedRoom
  /\ participants \in [PlayedRoom -> SUBSET User]
  /\ summary \in [PlayedRoom -> {Open} \cup SUBSET User]
  /\ paid \subseteq PlayedRoom \X User
  /\ xpTotal \in [User -> Nat]
  /\ tx \in [Worker -> Tx]
  /\ resultLock \in [PlayedRoom -> Worker \cup {Nobody}]
  /\ userLock \in [User -> Worker \cup {Nobody}]
  /\ todo \in [Worker -> SUBSET PlayedRoom]

FinalizationInit ==
  /\ completed = {}
  /\ participants = [r \in PlayedRoom |-> {}]
  /\ summary = [r \in PlayedRoom |-> Open]
  /\ paid = {}
  /\ xpTotal = [u \in User |-> 0]
  /\ tx = [w \in Worker |-> NoTx]
  /\ resultLock = [r \in PlayedRoom |-> Nobody]
  /\ userLock = [u \in User |-> Nobody]
  /\ todo = [w \in Worker |-> {}]

-----------------------------------------------------------------------------
(* The room *)

\* syncParticipant and linkSessionToUser: also after the room is completed.
AddParticipant(r, u) ==
  /\ u \notin participants[r]
  /\ participants' = [participants EXCEPT ![r] = @ \cup {u}]
  /\ UNCHANGED <<completed, dbVars, tx, lockVars, todo>>

\* A drop command commits its room_completed event.
Complete(r) ==
  /\ r \notin completed
  /\ completed' = completed \cup {r}
  /\ UNCHANGED <<participants, dbVars, tx, lockVars, todo>>

-----------------------------------------------------------------------------
(* saveCompletion *)

Idle(w) == tx[w].pc = "idle"

\* The transaction starts by reading the participants.
BeginTx(w, r) ==
  /\ Idle(w)
  /\ tx' = [tx EXCEPT ![w] = [pc |-> "begun", room |-> r,
                              players |-> participants[r], awards |-> {}]]
  /\ UNCHANGED <<completed, participants, dbVars, lockVars>>

\* finalizeCompletedRoom: by the drop, a join or the periodic persistence.  The
\* room is completed in memory, not always in the log.
FinalizeRoom(w, r) ==
  /\ BeginTx(w, r)
  /\ UNCHANGED todo

\* Mutant of PendingRooms: the rooms that are final already.
FinalRooms == {r \in completed : summary[r] # Open}

PendingRooms == {r \in completed : summary[r] = Open}

\* listPendingCompletions at the beginning of a recovery pass.
ListPending(w) ==
  /\ Idle(w) /\ todo[w] = {}
  /\ todo' = [todo EXCEPT ![w] = PendingRooms]
  /\ UNCHANGED <<completed, participants, dbVars, tx, lockVars>>

\* recoverPendingCompletions takes them one after the other.
RecoverNext(w) ==
  \E r \in todo[w] :
    /\ BeginTx(w, r)
    /\ todo' = [todo EXCEPT ![w] = @ \ {r}]

\* Mutant of ResultIsFree: the row is not locked.
ResultIsAlwaysFree(w) == TRUE

ResultIsFree(w) == resultLock[tx[w].room] = Nobody

\* The insert of the result row waits for another transaction that has
\* inserted or locked it.
LockResult(w) ==
  /\ tx[w].pc = "begun"
  /\ ResultIsFree(w)
  /\ resultLock' = [resultLock EXCEPT ![tx[w].room] = w]
  /\ tx' = [tx EXCEPT ![w].pc = "locked"]
  /\ UNCHANGED <<completed, participants, dbVars, userLock, todo>>

\* The end of a transaction releases its locks.
EndTx(w) ==
  /\ tx' = [tx EXCEPT ![w] = NoTx]
  /\ resultLock' = [r \in PlayedRoom |-> IF resultLock[r] = w THEN Nobody ELSE resultLock[r]]
  /\ userLock' = [u \in User |-> IF userLock[u] = w THEN Nobody ELSE userLock[u]]

\* The result is already final.
AlreadyFinal(w) ==
  /\ tx[w].pc = "locked"
  /\ summary[tx[w].room] # Open
  /\ EndTx(w)
  /\ UNCHANGED <<completed, participants, dbVars, todo>>

\* The summary is computed from the committed events, without which the
\* transaction fails (see Abort).
ComputeSummary(w) ==
  /\ tx[w].pc = "locked"
  /\ summary[tx[w].room] = Open
  /\ tx[w].room \in completed
  /\ tx' = [tx EXCEPT ![w].pc = "paying"]
  /\ UNCHANGED <<completed, participants, dbVars, lockVars, todo>>

\* The users of the summary who are paid something.
Payees(w) == {u \in tx[w].players : Xp[tx[w].room][u] > 0}

\* Paying a user updates the user's row, which stays locked to the end; a user
\* who was paid for the room before is not paid again.
PayUser(w, u) ==
  /\ tx[w].pc = "paying"
  /\ u \in Payees(w) \ tx[w].awards
  /\ <<tx[w].room, u>> \notin paid => userLock[u] = Nobody
  /\ userLock' = IF <<tx[w].room, u>> \in paid THEN userLock
                 ELSE [userLock EXCEPT ![u] = w]
  /\ tx' = [tx EXCEPT ![w].awards = @ \cup {u}]
  /\ UNCHANGED <<completed, participants, dbVars, resultLock, todo>>

\* The users whose payment the transaction inserts.
NewlyPaid(w) == {u \in tx[w].awards : <<tx[w].room, u>> \notin paid}

\* The rows of user_xp_transactions that the transaction inserts.
Payments(w) == {<<tx[w].room, u>> : u \in NewlyPaid(w)}

Commit(w) ==
  LET r == tx[w].room
  IN  /\ tx[w].pc = "paying"
      /\ tx[w].awards = Payees(w)
      /\ summary' = [summary EXCEPT ![r] = tx[w].players]
      /\ paid' = paid \cup Payments(w)
      /\ xpTotal' = [u \in User |-> IF u \in NewlyPaid(w) THEN xpTotal[u] + Xp[r][u]
                                    ELSE xpTotal[u]]
      /\ EndTx(w)
      /\ UNCHANGED <<completed, participants, todo>>

\* A transaction that fails changes nothing; a recovery pass ends with it.
Abort(w) ==
  /\ ~Idle(w)
  /\ EndTx(w)
  /\ todo' = [todo EXCEPT ![w] = {}]
  /\ UNCHANGED <<completed, participants, dbVars>>

TxStep(w) ==
  \/ LockResult(w) \/ AlreadyFinal(w) \/ ComputeSummary(w)
  \/ \E u \in User : PayUser(w, u)
  \/ Commit(w)

FinalizationNext ==
  \/ \E r \in PlayedRoom : Complete(r) \/ \E u \in User : AddParticipant(r, u)
  \/ \E w \in Worker : TxStep(w) \/ Abort(w)
  \/ \E w \in Worker \ Recovery, r \in PlayedRoom : FinalizeRoom(w, r)
  \/ \E w \in Recovery : ListPending(w) \/ RecoverNext(w)

FinalizationSpec == FinalizationInit /\ [][FinalizationNext]_finalizationVars

\* Every transaction ends, and the recovery runs at every interval.  Its calls
\* may fail any number of times, but the database is not down for good.
FinalizationFairness ==
  /\ \A w \in Worker : WF_finalizationVars(TxStep(w) \/ Abort(w))
  /\ \A w \in Recovery :
       /\ WF_finalizationVars(ListPending(w))
       /\ WF_finalizationVars(RecoverNext(w))
       /\ SF_finalizationVars(TxStep(w))
       /\ <>[][~Abort(w)]_finalizationVars

FinalizationFairSpec == FinalizationSpec /\ FinalizationFairness

-----------------------------------------------------------------------------
(* Properties *)

\* A user's points are exactly what the final summaries say the user earned:
\* nobody is paid twice for a room or paid for a result that was not kept,
\* however many transactions of a room overlap or fail half way.
PointsMatchSummaries ==
  \A u \in User :
    xpTotal[u] = MapThenSumSet(LAMBDA r : Xp[r][u],
                               {r \in PlayedRoom : summary[r] # Open /\ u \in summary[r]})

\* Only a room whose completion is committed has a final result.
ResultsNeedCompletion == \A r \in PlayedRoom : summary[r] # Open => r \in completed

\* Results and points agree with the committed completions, however transactions
\* of a room overlap, wait for each other and are aborted (saveCompletion).
FinalizationInv ==
  /\ FinalizationTypeOK
  /\ PointsMatchSummaries
  /\ ResultsNeedCompletion

\* A final result and a payment are never changed or taken back.
ResultsAreFinal ==
  [][/\ \A r \in PlayedRoom : summary[r] # Open => summary'[r] = summary[r]
     /\ paid \subseteq paid']_finalizationVars

\* Every room whose completion is committed gets its result, even if the
\* server stops right after the commit and no player comes back.
CompletionsAreFinalized ==
  \A r \in PlayedRoom : r \in completed ~> summary[r] # Open

\* Every committed completion gets its result, one that stays.
CompletionsSettle == ResultsAreFinal /\ CompletionsAreFinalized

=============================================================================
