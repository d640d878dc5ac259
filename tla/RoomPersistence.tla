-------------------------- MODULE RoomPersistence --------------------------
(***************************************************************************)
(* What survives of a room: the copies of it in the server's memory, the   *)
(* copy in Redis, and the log of room events in PostgreSQL, under the drop *)
(* commands and the joins of RoomManager.  A drop changes memory first,    *)
(* then appends its events (twice if the first attempt fails), then saves  *)
(* the room; if the events could not be appended, it puts the memory back. *)
(* An append that fails may still have been committed: its response was    *)
(* lost.  A join brings a copy of its own from Redis if nobody has the     *)
(* room in memory when it looks, compares it with the log and enters it,   *)
(* with awaits in between: joins that overlap may enter different copies.  *)
(* Meanwhile messages that do not go through the room's queue save the     *)
(* room as they find it, and the server may crash at any point.            *)
(*                                                                         *)
(* The puzzle is reduced to the set of pieces that have been snapped; each *)
(* command drops one piece.                                                *)
(***************************************************************************)
EXTENDS Naturals, Sequences, FiniteSets

CONSTANTS
  Piece,
  Command,    \* the command ids that clients may send
  PieceOf,    \* PieceOf[cmd]: the piece that cmd drops
  Copy,       \* the objects that joins read from Redis, used again when free
  MaxSubmits, \* bound: how many commands are sent, the resent ones included
  None        \* no drop command is running, nobody is leaving

ASSUME PieceAssumption == IsFiniteSet(Piece) /\ Piece # {}
ASSUME CommandAssumption == PieceOf \in [Command -> Piece]
ASSUME SubmitsAssumption == MaxSubmits \in Nat

VARIABLES
  mode,      \* mode[o]: how far the join with copy o is, or whether o is in use
  mem,       \* mem[o]: the room in copy o
  store,     \* the room in Redis
  log,       \* the room's events, one record for the batch of a command
  queue,     \* drops waiting in the queue of the room, which its copies share
  op,        \* the drop command that runs, or None
  leaving,   \* the copy that the last disconnect has yet to save, or None
  finalized, \* the room's result has been recorded
  submits,   \* how many commands were sent
  gaveUp,    \* history: a committed append was reported as failed twice
  leaked,    \* history: Redis was given a drop before its events were committed
  stale,     \* history: copies held while another one was entered
  split      \* history: such a copy was entered nevertheless

copyVars == <<mode, mem>>
dropVars == <<queue, op>>
joinHistory == <<stale, split>>
history == <<submits, gaveUp, leaked>>

vars == <<copyVars, store, log, dropVars, leaving, finalized, joinHistory, history>>

\* A copy that is "left" has lost its last connection, but a join that found
\* it, or that entered it and is not done, may still hold it.
Mode == {"free", "fetched", "restoring", "saving", "finalizing", "entering",
         "active", "left"}
RoomState == [done : SUBSET Piece, completed : BOOLEAN]
Batch == [cmd : Command, snap : BOOLEAN, completes : BOOLEAN]
Request == [cmd : Command, copy : Copy]
Drop == [cmd : Command, copy : Copy,
         pc : {"lookup", "append", "retry", "save", "finalize"},
         before : RoomState, batch : Batch]

ASSUME NoneAssumption == None \notin Drop \cup Copy

TypeOK ==
  /\ mode \in [Copy -> Mode]
  /\ mem \in [Copy -> RoomState]
  /\ store \in RoomState
  /\ log \in Seq(Batch)
  /\ queue \in Seq(Request)
  /\ op \in Drop \cup {None}
  /\ leaving \in Copy \cup {None}
  /\ finalized \in BOOLEAN
  /\ submits \in 0..MaxSubmits
  /\ gaveUp \in BOOLEAN /\ leaked \in BOOLEAN
  /\ stale \subseteq Copy /\ split \in BOOLEAN

Fresh == [done |-> {}, completed |-> FALSE]
Solved == [done |-> Piece, completed |-> TRUE]

Init ==
  /\ mode = [o \in Copy |-> "free"]
  /\ mem = [o \in Copy |-> Fresh]
  /\ store = Fresh
  /\ log = <<>>
  /\ queue = <<>>
  /\ op = None
  /\ leaving = None
  /\ finalized = FALSE
  /\ submits = 0
  /\ gaveUp = FALSE /\ leaked = FALSE
  /\ stale = {} /\ split = FALSE

Logged(cmd) == \E i \in DOMAIN log : log[i].cmd = cmd
CompletionLogged == \E i \in DOMAIN log : log[i].completes

\* findActiveRoom: some connection has the copy.
Active == {o \in Copy : mode[o] = "active"}

-----------------------------------------------------------------------------
(* Drop commands *)

Submit(cmd, o) ==
  /\ mode[o] = "active"
  /\ submits < MaxSubmits
  /\ submits' = submits + 1
  /\ queue' = Append(queue, [cmd |-> cmd, copy |-> o])
  /\ UNCHANGED <<copyVars, store, log, op, leaving, finalized, joinHistory, gaveUp, leaked>>

StartDrop ==
  LET request == Head(queue)
  IN  /\ op = None /\ leaving = None
      /\ queue # <<>>
      /\ op' = [cmd |-> request.cmd, copy |-> request.copy, pc |-> "lookup",
                before |-> mem[request.copy],
                batch |-> [cmd |-> request.cmd, snap |-> FALSE, completes |-> FALSE]]
      /\ queue' = Tail(queue)
      /\ UNCHANGED <<copyVars, store, log, leaving, finalized, joinHistory, history>>

\* The pending events or the lookup fail before anything has changed.
LookupFails ==
  /\ op # None /\ op.pc = "lookup"
  /\ op' = None
  /\ UNCHANGED <<copyVars, store, log, queue, leaving, finalized, joinHistory, history>>

\* finalizeCompletedRoom: nothing for a room that is not completed; recording
\* a completion fails if its event is not committed (saveCompletion).
FinalizeRoom(completed) ==
  IF completed /\ CompletionLogged THEN finalized' \in {TRUE, finalized}
  ELSE UNCHANGED finalized

\* The command was recorded before: it is not run again.
Replay ==
  /\ op # None /\ op.pc = "lookup"
  /\ Logged(op.cmd)
  /\ op' = None
  /\ FinalizeRoom(/\ mem[op.copy].completed
                  /\ \E i \in DOMAIN log : log[i].cmd = op.cmd /\ log[i].completes)
  /\ UNCHANGED <<copyVars, store, log, queue, leaving, joinHistory, history>>

\* commands.dropGroup: a piece that is not fixed yet may snap, and the last
\* one completes the room.  A rejected drop and one that snaps nowhere are
\* recorded as a no-op.
Apply(snap) ==
  LET room == mem[op.copy]
      done == room.done \cup {PieceOf[op.cmd]}
      completes == done = Piece /\ ~room.completed
  IN  /\ op # None /\ op.pc = "lookup"
      /\ ~Logged(op.cmd)
      /\ snap => PieceOf[op.cmd] \notin room.done
      /\ mem' = IF snap
                THEN [mem EXCEPT ![op.copy] =
                        [done |-> done, completed |-> room.completed \/ completes]]
                ELSE mem
      /\ op' = [op EXCEPT !.pc = "append", !.before = room,
                          !.batch = [cmd |-> op.cmd, snap |-> snap,
                                     completes |-> snap /\ completes]]
      /\ UNCHANGED <<mode, store, log, queue, leaving, finalized, joinHistory, history>>

-----------------------------------------------------------------------------
(* Appending the events: appendRoomEvents and the repository's append *)

Appending == op # None /\ op.pc \in {"append", "retry"}

\* Mutant of LogWithBatch: a command is recorded again.
LogWithBatchAgain == Append(log, op.batch)

\* The transaction of append: a command that is recorded is not recorded again.
LogWithBatch == IF Logged(op.cmd) THEN log ELSE Append(log, op.batch)

AppendSucceeds ==
  /\ Appending
  /\ log' = LogWithBatch
  /\ op' = [op EXCEPT !.pc = "save"]
  /\ UNCHANGED <<copyVars, store, queue, leaving, finalized, joinHistory, history>>

\* The transaction fails, or it commits and the response is lost.
AttemptFails == log' \in {log, LogWithBatch}

FirstAttemptFails ==
  /\ Appending /\ op.pc = "append"
  /\ AttemptFails
  /\ op' = [op EXCEPT !.pc = "retry"]
  /\ UNCHANGED <<copyVars, store, queue, leaving, finalized, joinHistory, history>>

\* Mutant of PutBack.
NotPutBack == mem

\* restoreRoomMutation: the memory goes back to the state before the drop.
PutBack == [mem EXCEPT ![op.copy] = op.before]

SecondAttemptFails ==
  /\ Appending /\ op.pc = "retry"
  /\ AttemptFails
  /\ mem' = PutBack
  /\ op' = None
  /\ gaveUp' = (gaveUp \/ Logged(op.cmd) \/ log' # log)
  /\ UNCHANGED <<mode, store, queue, leaving, finalized, joinHistory, submits, leaked>>

\* The save that follows; if it fails, the command fails but is not undone.
SaveDrop ==
  /\ op # None /\ op.pc = "save"
  /\ \/ /\ store' = mem[op.copy]
        /\ op' = IF op.batch.completes THEN [op EXCEPT !.pc = "finalize"] ELSE None
     \/ op' = None /\ UNCHANGED store
  /\ UNCHANGED <<copyVars, log, queue, leaving, finalized, joinHistory, history>>

FinalizeDrop ==
  /\ op # None /\ op.pc = "finalize"
  /\ FinalizeRoom(mem[op.copy].completed)
  /\ op' = None
  /\ UNCHANGED <<copyVars, store, log, queue, leaving, joinHistory, history>>

-----------------------------------------------------------------------------
(* Saves outside the drops, and the end of a copy *)

\* grab, release, pause, resume, arrange and the end of a join save the room
\* outside the queue, whatever a drop has changed by then; the join does so
\* even if its connection has left since.
SaveUnqueued(o) ==
  /\ mode[o] \in {"active", "left"}
  /\ store' = mem[o]
  /\ leaked' = (leaked \/ (Appending /\ op.copy = o /\ ~Logged(op.cmd)))
  /\ UNCHANGED <<copyVars, log, dropVars, leaving, finalized, joinHistory, submits, gaveUp>>

\* The periodic persistence of an active room, which runs in its queue.
PersistActiveRoom(o) ==
  /\ mode[o] = "active" /\ op = None /\ leaving = None
  /\ store' = mem[o]
  /\ FinalizeRoom(mem[o].completed)
  /\ UNCHANGED <<copyVars, log, dropVars, leaving, joinHistory, history>>

\* recoverPendingCompletions works from the log.
RecoverPendingCompletions ==
  /\ CompletionLogged
  /\ finalized' = TRUE
  /\ UNCHANGED <<copyVars, store, log, dropVars, leaving, joinHistory, history>>

\* The last connection leaves a copy: its disconnect runs after the commands
\* that wait in the queue, and keeps the queue until the copy is saved.
Unload(o) ==
  /\ mode[o] = "active" /\ op = None /\ leaving = None
  /\ \A i \in DOMAIN queue : queue[i].copy # o
  /\ mode' = [mode EXCEPT ![o] = "left"]
  /\ leaving' = o
  /\ UNCHANGED <<mem, store, log, dropVars, finalized, joinHistory, history>>

\* The save of the disconnect, which may fail; by now another copy may have
\* been entered.  A periodic persistence that has queued up behind the
\* disconnect saves the copy again.
SaveUnloaded ==
  /\ leaving # None
  /\ store' \in {mem[leaving], store}
  /\ leaving' \in {None, leaving}
  /\ UNCHANGED <<copyVars, log, dropVars, finalized, joinHistory, history>>

\* Memory is gone; an append under way is committed or not.
Crash ==
  /\ \E o \in Copy : mode[o] # "free"
  /\ mode' = [o \in Copy |-> "free"]
  /\ queue' = <<>>
  /\ op' = None
  /\ leaving' = None
  /\ log' \in IF Appending THEN {log, LogWithBatch} ELSE {log}
  /\ stale' = {}
  /\ UNCHANGED <<mem, store, finalized, split, history>>

-----------------------------------------------------------------------------
(* Joins *)

\* A join reads the room before it looks whether the room is in memory.
Fetch(o) ==
  /\ mode[o] = "free"
  /\ mode' = [mode EXCEPT ![o] = "fetched"]
  /\ mem' = [mem EXCEPT ![o] = store]
  /\ UNCHANGED <<store, log, dropVars, leaving, finalized, joinHistory, history>>

\* The read answers: the join takes the copy in memory, or else its own, which
\* it first compares with the log unless it is completed.
FindRoom(o) ==
  /\ mode[o] = "fetched"
  /\ mode' = [mode EXCEPT ![o] = IF Active # {} THEN "free"
                                 ELSE IF mem[o].completed THEN "saving" ELSE "restoring"]
  /\ stale' = stale \ {o}
  /\ UNCHANGED <<mem, store, log, dropVars, leaving, finalized, split, history>>

\* Mutant of Restored: the log is not looked at.
RestoredFromStore(o) == mem[o]

\* restoreCompletionFromEvents
Restored(o) == IF CompletionLogged THEN Solved ELSE mem[o]

Restore(o) ==
  /\ mode[o] = "restoring"
  /\ mem' = [mem EXCEPT ![o] = Restored(o)]
  /\ mode' = [mode EXCEPT ![o] = IF Restored(o).completed THEN "saving" ELSE "entering"]
  /\ UNCHANGED <<store, log, dropVars, leaving, finalized, joinHistory, history>>

\* A completed room is saved, and entered only once its result is recorded.
SaveRestored(o) ==
  /\ mode[o] = "saving"
  /\ store' = mem[o]
  /\ mode' = [mode EXCEPT ![o] = "finalizing"]
  /\ UNCHANGED <<mem, log, dropVars, leaving, finalized, joinHistory, history>>

FinalizeRestored(o) ==
  /\ mode[o] = "finalizing"
  /\ FinalizeRoom(TRUE)
  /\ \E next \in {"entering", "free"} :
       /\ next = "entering" => finalized'
       /\ mode' = [mode EXCEPT ![o] = next]
  /\ UNCHANGED <<mem, store, log, dropVars, leaving, joinHistory, history>>

\* A call fails, a newer join or the end of the socket has overtaken this one;
\* nobody holds a copy any more that has been left.
GiveUpJoin(o) ==
  /\ mode[o] \in {"fetched", "restoring", "saving", "entering", "left"}
  /\ leaving # o
  /\ mode' = [mode EXCEPT ![o] = "free"]
  /\ UNCHANGED <<mem, store, log, dropVars, leaving, finalized, joinHistory, history>>

\* Copies that a join holds although nobody is in them.
Held == {o \in Copy : mode[o] \in {"restoring", "saving", "finalizing", "entering", "left"}}

\* The join has left the room where its connection was before, and enters: its
\* own copy, or one that it found in memory and that the others have left.
Enter(o) ==
  /\ mode[o] \in {"entering", "left"}
  /\ mode' = [mode EXCEPT ![o] = "active"]
  /\ stale' = (stale \cup Held) \ {o}
  /\ split' = (split \/ o \in stale)
  /\ UNCHANGED <<mem, store, log, dropVars, leaving, finalized, history>>

Next ==
  \/ \E cmd \in Command, o \in Copy : Submit(cmd, o)
  \/ StartDrop \/ LookupFails \/ Replay
  \/ \E snap \in BOOLEAN : Apply(snap)
  \/ AppendSucceeds \/ FirstAttemptFails \/ SecondAttemptFails
  \/ SaveDrop \/ FinalizeDrop
  \/ RecoverPendingCompletions \/ SaveUnloaded \/ Crash
  \/ \E o \in Copy :
       \/ SaveUnqueued(o) \/ PersistActiveRoom(o) \/ Unload(o)
       \/ Fetch(o) \/ FindRoom(o) \/ Restore(o) \/ SaveRestored(o)
       \/ FinalizeRestored(o) \/ GiveUpJoin(o) \/ Enter(o)

Spec == Init /\ [][Next]_vars

-----------------------------------------------------------------------------
(* Properties *)

\* However often a client resends a command, its events are recorded once:
\* across the retry of an append whose response was lost, across crashes,
\* after the memory was put back, and by players in different copies.
CommandsAreRecordedOnce ==
  \A i, j \in DOMAIN log : log[i].cmd = log[j].cmd => i = j

\* The completion of a room is the last progress its log records: after a
\* crash, a failed save or a reload nobody completes the room again or snaps
\* another piece of it.  Two things break this: giving up on an append that
\* was committed, since the memory is put back although the log has the
\* events; and a copy that is entered although another one was entered while
\* its join was under way, since its players do not see what the others do.
CompletionIsTheLastSnap ==
  ~gaveUp /\ ~split =>
    \A i \in DOMAIN log : log[i].completes =>
      \A j \in DOMAIN log : j > i => ~log[j].snap

\* A result is recorded for no room but one whose completion is in the log.
ResultsHaveCompletions == finalized => CompletionLogged

\* The log of a room tells one story: commands once, the completion last
\* unless overlapping joins have split the room, a result only after it, under
\* lost answers, crashes and stale reloads.
PersistenceInv ==
  /\ TypeOK
  /\ CommandsAreRecordedOnce
  /\ CompletionIsTheLastSnap
  /\ ResultsHaveCompletions

\* A recorded completion is never lost: whoever has the room in memory sees
\* it completed, whatever was saved, put back or reloaded in between and
\* whichever joins were overtaken, as long as overlapping joins have not
\* entered different copies.
CompletionSurvives ==
  CompletionLogged /\ ~gaveUp /\ ~split => \A o \in Active : mem[o].completed

\* The snapped pieces that a copy shows are in the log or about to be, as long
\* as no save has let an unrecorded drop into Redis.
ProgressIsRecorded ==
  ~leaked =>
    \A o \in Active : \A p \in mem[o].done :
      \/ \E i \in DOMAIN log : log[i].snap /\ PieceOf[log[i].cmd] = p
      \/ Appending /\ op.copy = o /\ op.batch.snap /\ PieceOf[op.cmd] = p

\* A room in Redis can be joined again: if Redis has it as completed, its
\* completion is committed, so that the join can record the result.
StoredRoomCanBeJoined ==
  Active = {} /\ leaving = None /\ store.completed => CompletionLogged

=============================================================================
