----------------------- MODULE RoomPersistenceProofs -----------------------
(***************************************************************************)
(* What survives of a room, for any number of pieces, commands, resends    *)
(* and copies: the log tells one story, a recorded completion is never     *)
(* lost, and no copy shows anything that is not recorded.  The three hold  *)
(* together: that nobody snaps a piece after the completion needs that the *)
(* completion survives in memory, which needs what the drop under way      *)
(* remembers of the room before it, and that a join that nobody has        *)
(* overtaken finds the room at rest.                                       *)
(***************************************************************************)
EXTENDS RoomPersistence, TLAPS

\* The piece was snapped by a recorded command.
Recorded(p) == \E i \in DOMAIN log : log[i].snap /\ PieceOf[log[i].cmd] = p
AllRecorded(state) == \A p \in state.done : Recorded(p)

\* A completed room is a whole one, wherever a copy of it is.
Whole(state) == state.completed => state.done = Piece
WholeRooms ==
  /\ \A o \in Copy : Whole(mem[o])
  /\ Whole(store)
  /\ op # None => Whole(op.before)

\* Commands wait and run only in copies that somebody has joined, and none runs
\* while a copy that was left is saved.
CommandsNeedCopy ==
  /\ op # None => mode[op.copy] = "active"
  /\ \A i \in DOMAIN queue : mode[queue[i].copy] = "active"
  /\ leaving # None => op = None /\ mode[leaving] \in {"active", "left"}

\* A drop appends the events of its own command, once.
BatchOfDrop ==
  /\ op # None => op.batch.cmd = op.cmd
  /\ Appending /\ op.batch.completes => op.batch.snap /\ mem[op.copy].completed
  /\ Appending /\ Logged(op.cmd) => \E i \in DOMAIN log : log[i] = op.batch

\* While the events of a drop may still be appended, the log has no completion
\* but one that the drop has found in memory.
NoLateSnap ==
  ~gaveUp /\ ~split /\ Appending /\ ~Logged(op.cmd) /\ CompletionLogged =>
    ~op.batch.snap /\ op.before.completed

\* Redis, the copies that joins hold and what a drop remembers show recorded
\* pieces only, until a save has let an unrecorded drop into Redis.
CopiesAreRecorded ==
  ~leaked =>
    /\ AllRecorded(store)
    /\ \A o \in Copy : mode[o] \notin {"free", "active"} => AllRecorded(mem[o])
    /\ Appending => AllRecorded(op.before)
    /\ CompletionLogged => \A p \in Piece : Recorded(p)

\* Unless joins have split the room, its players share one copy, and a join
\* that nobody has overtaken finds the room at rest, its own copy up to date.
CopiesAgree ==
  ~split =>
    /\ \A o, q \in Active : o = q
    /\ \A o \in Held \ stale :
         /\ Active = {}
         /\ mode[o] # "restoring" /\ CompletionLogged /\ ~gaveUp => mem[o].completed

\* The inductive invariant: what is promised, and what it rests on.
DropInv == CommandsNeedCopy /\ BatchOfDrop /\ NoLateSnap
PersistenceIInv ==
  /\ PersistenceInv
  /\ CompletionSurvives
  /\ ProgressIsRecorded
  /\ WholeRooms
  /\ DropInv
  /\ CopiesAreRecorded
  /\ CopiesAgree

-----------------------------------------------------------------------------
(* The log *)

LEMMA AppendBatch ==
  ASSUME NEW s \in Seq(Batch), NEW b \in Batch
  PROVE  LET t == Append(s, b) IN
         /\ t \in Seq(Batch)
         /\ \A i \in DOMAIN s : i \in DOMAIN t /\ t[i] = s[i]
         /\ \A i \in DOMAIN t : i \in DOMAIN s \/ (t[i] = b /\ i \notin DOMAIN s)
         /\ \A i \in DOMAIN s, j \in DOMAIN t : j \notin DOMAIN s => i < j
         /\ \E i \in DOMAIN t : t[i] = b
         /\ \A i, j \in DOMAIN t : i \notin DOMAIN s /\ j \notin DOMAIN s => i = j
<1> DEFINE t == Append(s, b)
<1>1. /\ t \in Seq(Batch) /\ Len(s) \in Nat /\ Len(t) = Len(s) + 1
      /\ DOMAIN s = 1..Len(s) /\ DOMAIN t = 1..Len(t)
  OBVIOUS
<1>2. \A i \in DOMAIN t : t[i] = IF i = Len(s) + 1 THEN b ELSE s[i]
  BY <1>1
<1> HIDE DEF t
<1>3. \A i \in DOMAIN t : i \in DOMAIN s <=> i # Len(s) + 1
  BY <1>1
<1>4. \A i \in DOMAIN s : i \in DOMAIN t
  BY <1>1
<1>5. Len(s) + 1 \in DOMAIN t
  BY <1>1
<1>6. \A i \in DOMAIN s, j \in DOMAIN t : j \notin DOMAIN s => i < j
  BY <1>1
<1>7. \A i, j \in DOMAIN t : i \notin DOMAIN s /\ j \notin DOMAIN s => i = j
  BY <1>3
<1>8. QED
  BY <1>1, <1>2, <1>3, <1>4, <1>5, <1>6, <1>7 DEF t

\* The events of a drop, appended once: the log keeps what it tells.
LEMMA LogGrows ==
  ASSUME PersistenceIInv, op # None, op.pc \in {"append", "retry"},
         log' \in {log, LogWithBatch}
  PROVE  /\ log' \in Seq(Batch)
         /\ CommandsAreRecordedOnce'
         /\ ~gaveUp /\ ~split =>
              \A i \in DOMAIN log' : log'[i].completes =>
                \A j \in DOMAIN log' : j > i => ~log'[j].snap
         /\ CompletionLogged => CompletionLogged'
         /\ CompletionLogged' => CompletionLogged \/ op.batch.completes
         /\ \A p \in Piece : Recorded(p) => Recorded(p)'
         /\ \A c \in Command : Logged(c) => Logged(c)'
         /\ log' = LogWithBatch => \E i \in DOMAIN log' : log'[i] = op.batch
         /\ \A c \in {op.cmd} : ~Logged(c)' => log' = log
<1>1. /\ Appending /\ op \in Drop /\ log \in Seq(Batch) /\ op.batch \in Batch
      /\ op.batch.cmd = op.cmd
  BY DEF PersistenceIInv, PersistenceInv, TypeOK, Appending, DropInv, BatchOfDrop, Drop
<1>2. CASE log' = log
  <2>1. Logged(op.cmd) => \E i \in DOMAIN log : log[i] = op.batch
    BY <1>1 DEF PersistenceIInv, DropInv, BatchOfDrop
  <2>2. log' = LogWithBatch => Logged(op.cmd)
    <3>1. CASE ~Logged(op.cmd)
      <4>1. \A i \in DOMAIN log : log[i] # op.batch
        BY <1>1, <3>1 DEF Logged
      <4>2. \E i \in DOMAIN Append(log, op.batch) : Append(log, op.batch)[i] = op.batch
        BY <1>1, AppendBatch
      <4>3. QED
        BY <1>2, <3>1, <4>1, <4>2 DEF LogWithBatch
    <3>2. QED
      BY <3>1
  <2>3. QED
    BY <1>1, <1>2, <2>1, <2>2
       DEF PersistenceIInv, PersistenceInv, CommandsAreRecordedOnce,
           CompletionIsTheLastSnap, CompletionLogged, Recorded, Logged
<1>3. CASE log' # log
  <2>1. ~Logged(op.cmd) /\ log' = Append(log, op.batch)
    BY <1>3 DEF LogWithBatch
  <2>2. /\ log' \in Seq(Batch)
        /\ \A i \in DOMAIN log : i \in DOMAIN log' /\ log'[i] = log[i]
        /\ \A i \in DOMAIN log' :
             i \in DOMAIN log \/ (log'[i] = op.batch /\ i \notin DOMAIN log)
        /\ \A i \in DOMAIN log, j \in DOMAIN log' : j \notin DOMAIN log => i < j
        /\ \E i \in DOMAIN log' : log'[i] = op.batch
        /\ \A i, j \in DOMAIN log' : i \notin DOMAIN log /\ j \notin DOMAIN log => i = j
    BY <1>1, <2>1, AppendBatch
  <2>3. CommandsAreRecordedOnce'
    <3>1. \A i \in DOMAIN log : log[i].cmd # op.batch.cmd
      BY <1>1, <2>1 DEF Logged
    <3>2. QED
      BY <2>2, <3>1 DEF CommandsAreRecordedOnce, PersistenceIInv, PersistenceInv
  <2>4. ASSUME ~gaveUp, ~split, NEW i \in DOMAIN log', log'[i].completes, NEW j \in DOMAIN log', j > i
        PROVE  ~log'[j].snap
    <3>1. i \in Nat /\ j \in Nat
      BY <2>2
    <3>2. CASE j \in DOMAIN log
      <4>1. i \in DOMAIN log
        BY <2>2, <2>4, <3>1, <3>2
      <4>2. QED
        BY <2>2, <2>4, <3>2, <4>1
           DEF PersistenceIInv, PersistenceInv, CompletionIsTheLastSnap
    <3>3. CASE j \notin DOMAIN log
      <4>1. i \in DOMAIN log /\ log'[j] = op.batch
        BY <2>2, <2>4, <3>1, <3>3
      <4>2. CompletionLogged
        BY <2>2, <2>4, <4>1 DEF CompletionLogged
      <4>3. QED
        BY <1>1, <2>1, <2>4, <4>1, <4>2 DEF PersistenceIInv, DropInv, NoLateSnap
    <3>4. QED
      BY <3>2, <3>3
  <2>5. /\ CompletionLogged => CompletionLogged'
        /\ CompletionLogged' => CompletionLogged \/ op.batch.completes
    BY <2>2 DEF CompletionLogged
  <2>6. \A p \in Piece : Recorded(p) => Recorded(p)'
    BY <2>2 DEF Recorded
  <2>7. \A c \in Command : Logged(c) => Logged(c)'
    BY <2>2 DEF Logged
  <2>8. \E i \in DOMAIN log' : log'[i].cmd = op.cmd
    BY <1>1, <2>2
  <2>9. \A c \in {op.cmd} : Logged(c)'
    BY <2>8 DEF Logged
  <2>10. QED
    BY <2>2, <2>3, <2>4, <2>5, <2>6, <2>7, <2>9
<1>4. QED
  BY <1>2, <1>3

-----------------------------------------------------------------------------
(* What a step leaves alone *)

\* What the log tells stands as long as nothing is appended.
LEMMA LogStands ==
  ASSUME PersistenceIInv, UNCHANGED log, gaveUp => gaveUp', split => split',
         finalized' => finalized \/ CompletionLogged
  PROVE  /\ log' \in Seq(Batch)
         /\ (CommandsAreRecordedOnce /\ CompletionIsTheLastSnap /\ ResultsHaveCompletions)'
         /\ CompletionLogged' = CompletionLogged
         /\ \A p \in Piece : Recorded(p)' = Recorded(p)
         /\ \A c \in Command : Logged(c)' = Logged(c)
         /\ \A s \in RoomState : AllRecorded(s) => AllRecorded(s)'
BY DEF PersistenceIInv, PersistenceInv, TypeOK, CommandsAreRecordedOnce,
       CompletionIsTheLastSnap, ResultsHaveCompletions, CompletionLogged,
       Recorded, Logged, AllRecorded

\* A drop under way is not disturbed by what leaves it, the log and its copy
\* alone.
LEMMA DropStands ==
  ASSUME PersistenceIInv, UNCHANGED <<log, op, gaveUp>>, split => split',
         op = None \/ mem'[op.copy] = mem[op.copy]
  PROVE  BatchOfDrop' /\ NoLateSnap'
<1>1. CASE op = None
  BY <1>1 DEF BatchOfDrop, NoLateSnap, Appending
<1>2. CASE op # None /\ mem'[op.copy] = mem[op.copy]
  BY <1>2 DEF PersistenceIInv, DropInv, BatchOfDrop, NoLateSnap, Appending, Logged,
              CompletionLogged
<1>3. QED
  BY <1>1, <1>2

\* So are the copies, as long as each of them is an earlier one.
LEMMA CopiesStand ==
  ASSUME PersistenceIInv, TypeOK', UNCHANGED <<log, gaveUp, leaked>>, split => split',
         finalized' => finalized \/ CompletionLogged,
         ~leaked => \A p \in store'.done : Recorded(p),
         ~leaked => \A o \in Copy : mode'[o] \notin {"free", "active"} =>
                      \A p \in mem'[o].done : Recorded(p),
         Appending' => Appending /\ op' = op
  PROVE  CopiesAreRecorded'
<1>1. Appending => op.before \in RoomState
  BY DEF PersistenceIInv, PersistenceInv, TypeOK, Appending, Drop
<1>2. ~leaked' /\ Appending' => AllRecorded(op.before)'
  BY <1>1, LogStands DEF PersistenceIInv, CopiesAreRecorded, AllRecorded, RoomState
<1>3. ~leaked' /\ CompletionLogged' => \A p \in Piece : Recorded(p)'
  BY LogStands DEF PersistenceIInv, CopiesAreRecorded
<1>4. store'.done \subseteq Piece /\ \A o \in Copy : mem'[o].done \subseteq Piece
  BY DEF TypeOK, RoomState
<1>5. ~leaked' => AllRecorded(store)'
  BY <1>4, LogStands DEF AllRecorded
<1>6. ~leaked' => \A o \in Copy : mode'[o] \notin {"free", "active"} => AllRecorded(mem[o])'
  BY <1>4, LogStands DEF AllRecorded
<1>7. QED
  BY <1>2, <1>3, <1>5, <1>6 DEF CopiesAreRecorded

\* A copy that somebody has joined shows recorded pieces only, but for the drop
\* under way in it.
LEMMA MemoryIsRecorded ==
  ASSUME PersistenceIInv, NEW o \in Copy, mode[o] = "active", ~leaked,
         Appending /\ op.copy = o => Logged(op.cmd)
  PROVE  AllRecorded(mem[o])
<1>1. o \in Active
  BY DEF Active
<1>2. CASE ~(Appending /\ op.copy = o)
  BY <1>1, <1>2 DEF PersistenceIInv, ProgressIsRecorded, AllRecorded, Recorded
<1>3. CASE Appending /\ op.copy = o /\ Logged(op.cmd)
  <2>1. op.batch.cmd = op.cmd /\ \E i \in DOMAIN log : log[i] = op.batch
    BY <1>3 DEF PersistenceIInv, DropInv, BatchOfDrop, Appending
  <2>2. op.batch.snap => Recorded(PieceOf[op.cmd])
    BY <2>1 DEF Recorded
  <2>3. QED
    BY <1>1, <2>2 DEF PersistenceIInv, ProgressIsRecorded, AllRecorded, Recorded
<1>4. QED
  BY <1>2, <1>3

\* Nothing is promised of the copies that changes while the log and the copies
\* stay.
LEMMA MemoryStands ==
  ASSUME PersistenceIInv, UNCHANGED <<mode, mem, log, stale, split, gaveUp>>,
         leaked => leaked',
         Appending => /\ Appending' /\ op'.copy = op.copy /\ op'.cmd = op.cmd
                      /\ op'.batch = op.batch
  PROVE  CompletionSurvives' /\ ProgressIsRecorded' /\ CopiesAgree'
<1>1. CompletionSurvives' /\ CopiesAgree'
  BY DEF PersistenceIInv, CompletionSurvives, CopiesAgree, CompletionLogged, Active, Held
<1>2. ProgressIsRecorded'
  BY DEF PersistenceIInv, ProgressIsRecorded, Active
<1>3. QED
  BY <1>1, <1>2

\* A result is recorded only with its completion.
LEMMA FinalizeNeedsCompletion ==
  ASSUME TypeOK, NEW completed \in BOOLEAN, FinalizeRoom(completed)
  PROVE  finalized' \in BOOLEAN /\ (finalized' => finalized \/ CompletionLogged)
BY DEF FinalizeRoom, TypeOK

-----------------------------------------------------------------------------
(* Commands that wait, begin and end *)

LEMMA SubmitKeeps ==
  ASSUME PersistenceIInv, NEW cmd \in Command, NEW o \in Copy, Submit(cmd, o)
  PROVE  PersistenceIInv'
<1>1. /\ UNCHANGED <<mode, mem, store, log, op, leaving, finalized, stale, split, gaveUp, leaked>>
      /\ mode[o] = "active" /\ submits < MaxSubmits /\ submits' = submits + 1
      /\ queue' = Append(queue, [cmd |-> cmd, copy |-> o]) /\ TypeOK
      /\ [cmd |-> cmd, copy |-> o] \in Request
  BY DEF Submit, copyVars, joinHistory, Request, PersistenceIInv, PersistenceInv
<1>2. queue \in Seq(Request) /\ queue' \in Seq(Request) /\ submits' \in 0..MaxSubmits
  BY <1>1, SubmitsAssumption DEF TypeOK
<1>3. TypeOK'
  BY <1>1, <1>2 DEF TypeOK
<1>4. (CompletionSurvives /\ ProgressIsRecorded /\ CopiesAgree)'
  BY <1>1, MemoryStands DEF Appending
<1>5. WholeRooms'
  BY <1>1 DEF PersistenceIInv, WholeRooms, Whole
<1>6. CommandsNeedCopy'
  <2>1. \A i \in DOMAIN queue' : queue'[i] = [cmd |-> cmd, copy |-> o]
                                 \/ (i \in DOMAIN queue /\ queue'[i] = queue[i])
    BY <1>1, <1>2
  <2>2. QED
    BY <1>1, <2>1 DEF PersistenceIInv, DropInv, CommandsNeedCopy
<1>7. DropInv'
  BY <1>1, <1>6, DropStands DEF DropInv
<1>8. CopiesAreRecorded'
  BY <1>1, <1>3, CopiesStand
     DEF PersistenceIInv, CopiesAreRecorded, AllRecorded, Appending
<1>9. QED
  BY <1>1, <1>3, <1>4, <1>5, <1>7, <1>8, LogStands DEF PersistenceIInv, PersistenceInv

LEMMA StartDropKeeps == ASSUME PersistenceIInv, StartDrop PROVE PersistenceIInv'
<1> DEFINE request == Head(queue)
<1>1. /\ UNCHANGED <<mode, mem, store, log, leaving, finalized, stale, split, submits,
                     gaveUp, leaked>>
      /\ op = None /\ leaving = None /\ queue # <<>> /\ queue' = Tail(queue) /\ TypeOK
      /\ op' = [cmd |-> request.cmd, copy |-> request.copy, pc |-> "lookup",
                before |-> mem[request.copy],
                batch |-> [cmd |-> request.cmd, snap |-> FALSE, completes |-> FALSE]]
  BY DEF StartDrop, copyVars, joinHistory, history, PersistenceIInv, PersistenceInv
<1>2. /\ queue \in Seq(Request) /\ queue' \in Seq(Request) /\ request \in Request
      /\ request = queue[1] /\ 1 \in DOMAIN queue
      /\ \A i \in DOMAIN queue' : i + 1 \in DOMAIN queue /\ queue'[i] = queue[i + 1]
  BY <1>1 DEF TypeOK
<1>3. /\ op' \in Drop /\ op'.pc = "lookup" /\ op'.batch.cmd = op'.cmd
      /\ op'.copy = request.copy /\ op'.before = mem[op'.copy] /\ op'.copy \in Copy
  BY <1>1, <1>2 DEF TypeOK, Drop, Batch, Request
<1>4. TypeOK'
  BY <1>1, <1>2, <1>3 DEF TypeOK
<1>5. ~Appending /\ ~Appending'
  BY <1>1, <1>3 DEF Appending
<1>6. (CompletionSurvives /\ ProgressIsRecorded /\ CopiesAgree)'
  BY <1>1, <1>5, MemoryStands
<1>7. WholeRooms'
  BY <1>1, <1>3 DEF PersistenceIInv, WholeRooms, Whole
<1>8. CommandsNeedCopy'
  BY <1>1, <1>2, <1>3 DEF PersistenceIInv, DropInv, CommandsNeedCopy
<1>9. (BatchOfDrop /\ NoLateSnap)'
  BY <1>3, <1>5 DEF BatchOfDrop, NoLateSnap
<1>10. CopiesAreRecorded'
  BY <1>1, <1>4, <1>5, CopiesStand DEF PersistenceIInv, CopiesAreRecorded, AllRecorded
<1>11. QED
  BY <1>1, <1>4, <1>6, <1>7, <1>8, <1>9, <1>10, LogStands
     DEF PersistenceIInv, PersistenceInv, DropInv

\* Saves that leave the commands, the log and the copies alone, and the end of
\* a command: Redis has an earlier room, or a copy that shows recorded pieces.
LEMMA RoomIsSaved ==
  ASSUME PersistenceIInv,
         UNCHANGED <<mode, mem, log, queue, submits, gaveUp, stale, split>>,
         op' = op \/ (~Appending /\ op' = None),
         leaving' \in {leaving, None},
         leaked' \in BOOLEAN, leaked => leaked',
         finalized' \in BOOLEAN, finalized' => finalized \/ CompletionLogged,
         store' = store \/ \E o \in Copy : /\ store' = mem[o]
                                           /\ ~leaked' => AllRecorded(mem[o])
  PROVE  PersistenceIInv'
<1>1. TypeOK /\ store' \in RoomState
  BY DEF PersistenceIInv, PersistenceInv, TypeOK
<1>2. TypeOK'
  BY <1>1 DEF TypeOK
<1>3. op' # None => op' = op
  OBVIOUS
<1>4. Appending' <=> Appending
  BY DEF Appending
<1>5. Appending => op' = op
  OBVIOUS
<1>6. (CompletionSurvives /\ ProgressIsRecorded /\ CopiesAgree)'
  BY <1>4, <1>5, MemoryStands
<1>7. WholeRooms'
  BY <1>3 DEF PersistenceIInv, WholeRooms, Whole
<1>8. DropInv'
  <2>1. CommandsNeedCopy'
    BY <1>3 DEF PersistenceIInv, DropInv, CommandsNeedCopy
  <2>2. CASE op' = op
    BY <2>1, <2>2, DropStands DEF DropInv
  <2>3. CASE op' = None
    BY <2>1, <2>3 DEF DropInv, BatchOfDrop, NoLateSnap, Appending
  <2>4. QED
    BY <2>2, <2>3
<1>9. CopiesAreRecorded'
  <2>1. \A s \in RoomState : AllRecorded(s) => AllRecorded(s)'
    BY LogStands
  <2>2. ~leaked' => AllRecorded(store')
    BY DEF PersistenceIInv, CopiesAreRecorded
  <2>3. ~leaked' => AllRecorded(store)'
    BY <1>1, <2>1, <2>2
  <2>4. Appending => op.before \in RoomState
    BY <1>1 DEF TypeOK, Appending, Drop
  <2>5. ~leaked' => \A o \in Copy : mode'[o] \notin {"free", "active"} => AllRecorded(mem[o])'
    BY <1>1, <2>1 DEF PersistenceIInv, CopiesAreRecorded, TypeOK
  <2>6. ~leaked' /\ Appending' => AllRecorded(op.before)'
    BY <1>4, <1>5, <2>1, <2>4 DEF PersistenceIInv, CopiesAreRecorded
  <2>7. ~leaked' /\ CompletionLogged' => \A p \in Piece : Recorded(p)'
    BY LogStands DEF PersistenceIInv, CopiesAreRecorded
  <2>8. QED
    BY <2>3, <2>5, <2>6, <2>7 DEF CopiesAreRecorded
<1>10. QED
  BY <1>2, <1>6, <1>7, <1>8, <1>9, LogStands DEF PersistenceIInv, PersistenceInv

LEMMA LookupFailsKeeps == ASSUME PersistenceIInv, LookupFails PROVE PersistenceIInv'
<1>1. ~Appending /\ leaked \in BOOLEAN /\ finalized \in BOOLEAN
  BY DEF LookupFails, Appending, PersistenceIInv, PersistenceInv, TypeOK
<1>2. QED
  BY <1>1, RoomIsSaved DEF LookupFails, copyVars, joinHistory, history

LEMMA ReplayKeeps == ASSUME PersistenceIInv, Replay PROVE PersistenceIInv'
<1> DEFINE replayed == /\ mem[op.copy].completed
                       /\ \E i \in DOMAIN log : log[i].cmd = op.cmd /\ log[i].completes
<1>1. TypeOK /\ ~Appending /\ op \in Drop
  BY DEF Replay, Appending, PersistenceIInv, PersistenceInv, TypeOK
<1>2. replayed \in BOOLEAN
  BY <1>1 DEF TypeOK, RoomState, Drop
<1>3. FinalizeRoom(replayed)
  BY DEF Replay
<1>4. finalized' \in BOOLEAN /\ (finalized' => finalized \/ CompletionLogged)
  BY <1>1, <1>2, <1>3, FinalizeNeedsCompletion
<1>5. QED
  BY <1>1, <1>4, RoomIsSaved DEF Replay, copyVars, joinHistory, history, TypeOK

LEMMA FinalizeDropKeeps == ASSUME PersistenceIInv, FinalizeDrop PROVE PersistenceIInv'
<1>1. TypeOK /\ ~Appending /\ op \in Drop
  BY DEF FinalizeDrop, Appending, PersistenceIInv, PersistenceInv, TypeOK
<1>2. mem[op.copy].completed \in BOOLEAN
  BY <1>1 DEF TypeOK, RoomState, Drop
<1>3. finalized' \in BOOLEAN /\ (finalized' => finalized \/ CompletionLogged)
  BY <1>1, <1>2, FinalizeNeedsCompletion DEF FinalizeDrop
<1>4. QED
  BY <1>1, <1>3, RoomIsSaved DEF FinalizeDrop, copyVars, joinHistory, history, TypeOK

LEMMA SaveDropKeeps == ASSUME PersistenceIInv, SaveDrop PROVE PersistenceIInv'
<1>1. /\ UNCHANGED <<mode, mem, log, queue, leaving, finalized, submits, gaveUp, leaked,
                     stale, split>>
      /\ op # None /\ op.pc = "save" /\ ~Appending /\ op \in Drop /\ TypeOK
      /\ mode[op.copy] = "active" /\ op.copy \in Copy
  BY DEF SaveDrop, Appending, copyVars, joinHistory, history, PersistenceIInv, PersistenceInv,
         TypeOK, DropInv, CommandsNeedCopy, Drop
<1>2. ~leaked => AllRecorded(mem[op.copy])
  BY <1>1, MemoryIsRecorded
<1>3. CASE op' = None
  <2>1. store' = store \/ store' = mem[op.copy]
    BY <1>3 DEF SaveDrop
  <2>2. QED
    BY <1>1, <1>2, <1>3, <2>1, RoomIsSaved DEF TypeOK
<1>4. CASE op' # None
  <2>1. store' = mem[op.copy] /\ op' = [op EXCEPT !.pc = "finalize"]
    BY <1>4 DEF SaveDrop
  <2>2. /\ op' \in Drop /\ op'.pc = "finalize" /\ op'.batch = op.batch
        /\ op'.cmd = op.cmd /\ op'.before = op.before /\ op'.copy = op.copy
    BY <1>1, <2>1 DEF Drop
  <2>3. store' \in RoomState /\ TypeOK'
    BY <1>1, <2>1, <2>2 DEF TypeOK
  <2>4. ~Appending'
    BY <2>2 DEF Appending
  <2>5. (CompletionSurvives /\ ProgressIsRecorded /\ CopiesAgree)'
    BY <1>1, <2>4, MemoryStands
  <2>6. WholeRooms'
    BY <1>1, <2>1, <2>2 DEF PersistenceIInv, WholeRooms, Whole
  <2>7. DropInv'
    BY <1>1, <2>2, <2>4 DEF PersistenceIInv, DropInv, CommandsNeedCopy, BatchOfDrop, NoLateSnap
  <2>8. CopiesAreRecorded'
    BY <1>1, <1>2, <2>1, <2>3, <2>4, CopiesStand
       DEF PersistenceIInv, CopiesAreRecorded, AllRecorded
  <2>9. QED
    BY <1>1, <2>3, <2>5, <2>6, <2>7, <2>8, LogStands DEF PersistenceIInv, PersistenceInv
<1>5. QED
  BY <1>3, <1>4

-----------------------------------------------------------------------------
(* Saves *)

LEMMA SaveUnqueuedKeeps ==
  ASSUME PersistenceIInv, NEW o \in Copy, SaveUnqueued(o)
  PROVE  PersistenceIInv'
<1>1. /\ leaked \in BOOLEAN /\ finalized \in BOOLEAN
      /\ UNCHANGED <<mode, mem, log, queue, op, leaving, finalized, stale, split, submits, gaveUp>>
      /\ store' = mem[o] /\ mode[o] \in {"active", "left"}
      /\ leaked' = (leaked \/ (Appending /\ op.copy = o /\ ~Logged(op.cmd)))
  BY DEF SaveUnqueued, copyVars, dropVars, joinHistory, PersistenceIInv, PersistenceInv, TypeOK
<1>2. leaked' \in BOOLEAN /\ (leaked => leaked')
  BY <1>1
<1>3. ~leaked' => ~leaked /\ (Appending /\ op.copy = o => Logged(op.cmd))
  BY <1>1
<1>4. ~leaked' => AllRecorded(mem[o])
  <2>1. CASE mode[o] = "active"
    BY <1>3, <2>1, MemoryIsRecorded
  <2>2. CASE mode[o] = "left"
    BY <1>3, <2>2 DEF PersistenceIInv, CopiesAreRecorded
  <2>3. QED
    BY <1>1, <2>1, <2>2
<1>5. QED
  BY <1>1, <1>2, <1>4, RoomIsSaved

LEMMA PersistActiveRoomKeeps ==
  ASSUME PersistenceIInv, NEW o \in Copy, PersistActiveRoom(o)
  PROVE  PersistenceIInv'
<1>1. TypeOK /\ mem[o].completed \in BOOLEAN
  BY DEF PersistenceIInv, PersistenceInv, TypeOK, RoomState
<1>2. finalized' \in BOOLEAN /\ (finalized' => finalized \/ CompletionLogged)
  BY <1>1, FinalizeNeedsCompletion DEF PersistActiveRoom
<1>3. ~leaked => AllRecorded(mem[o])
  BY MemoryIsRecorded DEF PersistActiveRoom, Appending
<1>4. QED
  BY <1>1, <1>2, <1>3, RoomIsSaved
     DEF PersistActiveRoom, copyVars, dropVars, joinHistory, history, TypeOK

LEMMA RecoverKeeps == ASSUME PersistenceIInv, RecoverPendingCompletions PROVE PersistenceIInv'
<1>1. leaked \in BOOLEAN
  BY DEF PersistenceIInv, PersistenceInv, TypeOK
<1>2. QED
  BY <1>1, RoomIsSaved
     DEF RecoverPendingCompletions, copyVars, dropVars, joinHistory, history

\* The copy that is saved late has nothing under way: it was left, or entered
\* again, with the queue held for it.
LEMMA SaveUnloadedKeeps == ASSUME PersistenceIInv, SaveUnloaded PROVE PersistenceIInv'
<1>1. /\ leaked \in BOOLEAN /\ finalized \in BOOLEAN /\ leaving \in Copy
      /\ UNCHANGED <<mode, mem, log, queue, op, finalized, stale, split, submits, gaveUp, leaked>>
      /\ store' \in {mem[leaving], store} /\ leaving' \in {None, leaving}
  BY DEF SaveUnloaded, copyVars, dropVars, joinHistory, history, PersistenceIInv,
         PersistenceInv, TypeOK
<1>0. op = None /\ mode[leaving] \in {"active", "left"}
  BY DEF SaveUnloaded, PersistenceIInv, DropInv, CommandsNeedCopy
<1>2. ~leaked => AllRecorded(mem[leaving])
  <2>1. CASE mode[leaving] = "active"
    BY <1>0, <1>1, <2>1, MemoryIsRecorded DEF Appending
  <2>2. CASE mode[leaving] = "left"
    BY <1>1, <2>2 DEF PersistenceIInv, CopiesAreRecorded
  <2>3. QED
    BY <1>0, <2>1, <2>2
<1>3. QED
  BY <1>1, <1>2, RoomIsSaved

-----------------------------------------------------------------------------
(* Joins and departures *)

\* One copy changes hands, with no command waiting or running in it.
LEMMA CopyBecomes ==
  ASSUME PersistenceIInv, TypeOK', NEW o \in Copy,
         UNCHANGED <<log, op, queue, submits, gaveUp, leaked>>, split => split',
         finalized' => finalized \/ CompletionLogged,
         mode[o] # "active" \/ (op = None /\ \A i \in DOMAIN queue : queue[i].copy # o),
         \A q \in Copy : q # o => mode'[q] = mode[q] /\ mem'[q] = mem[q],
         leaving' # None => op = None /\ mode'[leaving'] \in {"active", "left"},
         store' \in {store, mem[o]}, Whole(mem[o])', ~leaked => AllRecorded(store'),
         ~leaked /\ mode'[o] # "free" => AllRecorded(mem'[o]),
         CompletionSurvives', CopiesAgree'
  PROVE  PersistenceIInv'
<1>1. TypeOK
  BY DEF PersistenceIInv, PersistenceInv
<1>2. op # None => op \in Drop /\ op.copy \in Copy /\ op.copy # o /\ mode[op.copy] = "active"
  BY <1>1 DEF PersistenceIInv, DropInv, CommandsNeedCopy, TypeOK, Drop
<1>3. ProgressIsRecorded'
  <2>1. SUFFICES ASSUME ~leaked, NEW q \in Copy, mode'[q] = "active", NEW p \in mem'[q].done
                 PROVE  \/ Recorded(p)
                        \/ Appending /\ op.copy = q /\ op.batch.snap /\ PieceOf[op.cmd] = p
    BY DEF ProgressIsRecorded, Active, Recorded, Appending
  <2>2. CASE q = o
    BY <2>1, <2>2 DEF AllRecorded
  <2>3. CASE q # o
    <3>1. q \in Active /\ p \in mem[q].done
      BY <2>1, <2>3 DEF Active
    <3>2. QED
      BY <2>1, <3>1 DEF PersistenceIInv, ProgressIsRecorded, Recorded
  <2>4. QED
    BY <2>2, <2>3
<1>4. WholeRooms'
  <2>1. \A q \in Copy : Whole(mem[q])'
    BY DEF PersistenceIInv, WholeRooms, Whole
  <2>2. Whole(store)'
    BY DEF PersistenceIInv, WholeRooms, Whole
  <2>3. QED
    BY <2>1, <2>2 DEF PersistenceIInv, WholeRooms, Whole
<1>5. CommandsNeedCopy'
  <2>1. \A i \in DOMAIN queue : queue[i].copy \in Copy /\ mode'[queue[i].copy] = "active"
    <3>1. \A i \in DOMAIN queue : queue[i].copy \in Copy /\ mode[queue[i].copy] = "active"
      <4>1. queue \in Seq(Request)
        BY <1>1 DEF TypeOK
      <4>2. \A i \in DOMAIN queue : queue[i] \in Request
        BY <4>1
      <4>3. QED
        BY <4>2 DEF Request, PersistenceIInv, DropInv, CommandsNeedCopy
    <3>2. QED
      BY <3>1
  <2>2. op # None => mode'[op.copy] = "active"
    BY <1>2
  <2>3. QED
    BY <2>1, <2>2 DEF CommandsNeedCopy
<1>6. DropInv'
  BY <1>2, <1>5, DropStands DEF DropInv
<1>7. CopiesAreRecorded'
  <2>1. ~leaked => \A q \in Copy : mode'[q] \notin {"free", "active"} =>
                     \A p \in mem'[q].done : Recorded(p)
    BY DEF PersistenceIInv, CopiesAreRecorded, AllRecorded
  <2>2. ~leaked => \A p \in store'.done : Recorded(p)
    BY DEF AllRecorded
  <2>3. Appending' => Appending /\ op' = op
    BY DEF Appending
  <2>4. QED
    BY <2>1, <2>2, <2>3, CopiesStand
<1>8. QED
  BY <1>3, <1>4, <1>6, <1>7, LogStands DEF PersistenceIInv, PersistenceInv

\* What a join that holds a copy knows of it.
LEMMA HeldFacts ==
  ASSUME PersistenceIInv, NEW o \in Copy, mode[o] # "active", mode[o] # "free"
  PROVE  /\ TypeOK /\ mem[o] \in RoomState /\ Whole(mem[o])
         /\ \A i \in DOMAIN queue : queue[i].copy # o
         /\ leaving # None => op = None /\ mode[leaving] \in {"active", "left"}
         /\ ~leaked => AllRecorded(mem[o]) /\ AllRecorded(store)
         /\ CompletionSurvives /\ CopiesAgree
BY DEF PersistenceIInv, PersistenceInv, TypeOK, WholeRooms, DropInv, CommandsNeedCopy,
       CopiesAreRecorded

LEMMA FetchKeeps == ASSUME PersistenceIInv, NEW o \in Copy, Fetch(o) PROVE PersistenceIInv'
<1>1. /\ UNCHANGED <<store, log, queue, op, leaving, finalized, stale, split, submits,
                     gaveUp, leaked>>
      /\ mode[o] = "free" /\ mode' = [mode EXCEPT ![o] = "fetched"]
      /\ mem' = [mem EXCEPT ![o] = store] /\ TypeOK
  BY DEF Fetch, dropVars, joinHistory, history, PersistenceIInv, PersistenceInv
<1>2. /\ mode' \in [Copy -> Mode] /\ mem' \in [Copy -> RoomState]
      /\ mode'[o] = "fetched" /\ mem'[o] = store
      /\ \A q \in Copy : q # o => mode'[q] = mode[q] /\ mem'[q] = mem[q]
  BY <1>1 DEF TypeOK, Mode
<1>3. TypeOK'
  BY <1>1, <1>2 DEF TypeOK
<1>4. /\ Active' = Active /\ Held' = Held /\ o \notin Active \cup Held
  BY <1>1, <1>2 DEF Active, Held
<1>5. Active \subseteq Copy /\ Held \subseteq Copy
  BY DEF Active, Held
<1>6. CompletionSurvives' /\ CopiesAgree'
  BY <1>1, <1>2, <1>4, <1>5 DEF PersistenceIInv, CompletionSurvives, CopiesAgree, CompletionLogged
<1>7. Whole(mem[o])' /\ (~leaked => AllRecorded(store))
  BY <1>1, <1>2 DEF PersistenceIInv, WholeRooms, Whole, CopiesAreRecorded
<1>8. leaving' # None => op = None /\ mode'[leaving'] \in {"active", "left"}
  BY <1>1, <1>2 DEF PersistenceIInv, DropInv, CommandsNeedCopy, TypeOK
<1>9. QED
  BY <1>1, <1>2, <1>3, <1>6, <1>7, <1>8, CopyBecomes

LEMMA FindRoomKeeps == ASSUME PersistenceIInv, NEW o \in Copy, FindRoom(o) PROVE PersistenceIInv'
<1>1. /\ UNCHANGED <<mem, store, log, queue, op, leaving, finalized, split, submits,
                     gaveUp, leaked>>
      /\ mode[o] = "fetched" /\ stale' = stale \ {o}
      /\ mode' = [mode EXCEPT ![o] = IF Active # {} THEN "free"
                                     ELSE IF mem[o].completed THEN "saving" ELSE "restoring"]
  BY DEF FindRoom, dropVars, history
<1>2. /\ TypeOK /\ Whole(mem[o]) /\ (~leaked => AllRecorded(mem[o]) /\ AllRecorded(store))
      /\ leaving # None => op = None /\ mode[leaving] \in {"active", "left"}
      /\ CompletionSurvives /\ CopiesAgree
  BY <1>1, HeldFacts
<1>3. /\ mode' \in [Copy -> Mode] /\ \A q \in Copy : q # o => mode'[q] = mode[q]
      /\ mode'[o] = IF Active # {} THEN "free"
                    ELSE IF mem[o].completed THEN "saving" ELSE "restoring"
  BY <1>1, <1>2 DEF TypeOK, Mode
<1>4. TypeOK'
  BY <1>1, <1>2, <1>3 DEF TypeOK
<1>5. Active' = Active /\ Held' \subseteq Held \cup {o}
      /\ (o \in Held' => Active = {} /\ (mode'[o] # "restoring" => mem[o].completed))
  BY <1>1, <1>3 DEF Active, Held
<1>6. CompletionSurvives'
  BY <1>1, <1>2, <1>5 DEF CompletionSurvives, CompletionLogged
<1>7. CopiesAgree'
  <2>1. \A q \in Held' \ stale' : q # o => q \in Held \ stale /\ q \in Copy
    BY <1>1, <1>5 DEF Held
  <2>2. QED
    BY <1>1, <1>2, <1>3, <1>5, <2>1 DEF CopiesAgree, CompletionLogged
<1>8. leaving' # None => op = None /\ mode'[leaving'] \in {"active", "left"}
  BY <1>1, <1>2, <1>3 DEF TypeOK
<1>9. Whole(mem[o])'
  BY <1>1, <1>2 DEF Whole
<1>10. QED
  BY <1>1, <1>2, <1>3, <1>4, <1>6, <1>7, <1>8, <1>9, CopyBecomes

\* What every step of a join leaves to show once its copy is known.
LEMMA JoinMoves ==
  ASSUME PersistenceIInv, TypeOK', NEW o \in Copy,
         mode[o] \in {"restoring", "saving", "finalizing", "entering", "left", "fetched"},
         mode'[o] \in {"saving", "finalizing", "entering", "free"},
         mode[o] = "fetched" => mode'[o] = "free",
         UNCHANGED <<log, op, queue, leaving, submits, gaveUp, leaked, stale, split>>,
         leaving # o,
         finalized' => finalized \/ CompletionLogged,
         \A q \in Copy : q # o => mode'[q] = mode[q] /\ mem'[q] = mem[q],
         mem'[o] = mem[o] \/ (CompletionLogged /\ mem'[o] = Solved),
         mode[o] = "restoring" /\ CompletionLogged => mode'[o] = "free" \/ mem'[o] = Solved,
         store' \in {store, mem[o]}
  PROVE  PersistenceIInv'
<1>1. /\ TypeOK /\ Whole(mem[o]) /\ (~leaked => AllRecorded(mem[o]) /\ AllRecorded(store))
      /\ leaving # None => op = None /\ mode[leaving] \in {"active", "left"}
      /\ CompletionSurvives /\ CopiesAgree
  BY HeldFacts
<1>2. Active' = Active /\ o \notin Active
  BY DEF Active
<1>3. Held' \subseteq Held /\ Held \subseteq Copy /\ (o \in Held' => mode[o] # "fetched")
  BY DEF Held
<1>4. CompletionSurvives'
  BY <1>1, <1>2 DEF CompletionSurvives, CompletionLogged, Active
<1>5. CopiesAgree'
  <2>1. SUFFICES ASSUME ~split
                 PROVE  /\ \A q, r \in Active' : q = r
                        /\ \A q \in Held' \ stale' :
                             /\ Active' = {}
                             /\ mode'[q] # "restoring" /\ CompletionLogged /\ ~gaveUp
                                  => mem'[q].completed
    BY DEF CopiesAgree, CompletionLogged
  <2>2. \A q, r \in Active' : q = r
    BY <1>1, <1>2, <2>1 DEF CopiesAgree
  <2>3. ASSUME NEW q \in Held' \ stale'
        PROVE  /\ Active' = {}
               /\ mode'[q] # "restoring" /\ CompletionLogged /\ ~gaveUp => mem'[q].completed
    <3>1. q \in Held \ stale /\ q \in Copy
      BY <1>3, <2>3
    <3>2. /\ Active = {}
          /\ mode[q] # "restoring" /\ CompletionLogged /\ ~gaveUp => mem[q].completed
      BY <1>1, <2>1, <3>1 DEF CopiesAgree
    <3>3. q = o /\ mode[o] = "restoring" /\ CompletionLogged => mem'[o].completed
      BY <2>3 DEF Held, Solved
    <3>4. QED
      BY <1>2, <3>1, <3>2, <3>3 DEF Solved
  <2>4. QED
    BY <2>2, <2>3
<1>6. Whole(mem[o])' /\ (~leaked => AllRecorded(mem'[o]))
  BY <1>1 DEF Whole, Solved, AllRecorded, PersistenceIInv, CopiesAreRecorded
<1>7. leaving' # None => op = None /\ mode'[leaving'] \in {"active", "left"}
  BY <1>1 DEF TypeOK
<1>8. QED
  BY <1>1, <1>4, <1>5, <1>6, <1>7, CopyBecomes

LEMMA RestoreKeeps == ASSUME PersistenceIInv, NEW o \in Copy, Restore(o) PROVE PersistenceIInv'
<1>1. /\ UNCHANGED <<store, log, queue, op, leaving, finalized, stale, split, submits,
                     gaveUp, leaked>>
      /\ mode[o] = "restoring" /\ mem' = [mem EXCEPT ![o] = Restored(o)]
      /\ mode' = [mode EXCEPT ![o] = IF Restored(o).completed THEN "saving" ELSE "entering"]
      /\ TypeOK
  BY DEF Restore, dropVars, joinHistory, history, PersistenceIInv, PersistenceInv
<1>2. /\ Restored(o) \in RoomState
      /\ Restored(o) = mem[o] \/ (CompletionLogged /\ Restored(o) = Solved)
      /\ CompletionLogged => Restored(o) = Solved
  BY <1>1 DEF Restored, Solved, RoomState, TypeOK
<1>3. /\ mode' \in [Copy -> Mode] /\ mem' \in [Copy -> RoomState]
      /\ mode'[o] \in {"saving", "entering"} /\ mem'[o] = Restored(o)
      /\ \A q \in Copy : q # o => mode'[q] = mode[q] /\ mem'[q] = mem[q]
  BY <1>1, <1>2 DEF TypeOK, Mode
<1>4. TypeOK'
  BY <1>1, <1>3 DEF TypeOK
<1>5. leaving # o
  BY <1>1, NoneAssumption DEF PersistenceIInv, DropInv, CommandsNeedCopy
<1>6. QED
  BY <1>1, <1>2, <1>3, <1>4, <1>5, JoinMoves

LEMMA SaveRestoredKeeps ==
  ASSUME PersistenceIInv, NEW o \in Copy, SaveRestored(o)
  PROVE  PersistenceIInv'
<1>1. /\ UNCHANGED <<mem, log, queue, op, leaving, finalized, stale, split, submits,
                     gaveUp, leaked>>
      /\ mode[o] = "saving" /\ store' = mem[o] /\ mode' = [mode EXCEPT ![o] = "finalizing"]
      /\ TypeOK
  BY DEF SaveRestored, dropVars, joinHistory, history, PersistenceIInv, PersistenceInv
<1>2. /\ mode' \in [Copy -> Mode] /\ mode'[o] = "finalizing" /\ store' \in RoomState
      /\ \A q \in Copy : q # o => mode'[q] = mode[q]
  BY <1>1 DEF TypeOK, Mode
<1>3. TypeOK'
  BY <1>1, <1>2 DEF TypeOK
<1>4. leaving # o
  BY <1>1, NoneAssumption DEF PersistenceIInv, DropInv, CommandsNeedCopy
<1>5. QED
  BY <1>1, <1>2, <1>3, <1>4, JoinMoves

LEMMA FinalizeRestoredKeeps ==
  ASSUME PersistenceIInv, NEW o \in Copy, FinalizeRestored(o)
  PROVE  PersistenceIInv'
<1>1. /\ UNCHANGED <<mem, store, log, queue, op, leaving, stale, split, submits, gaveUp, leaked>>
      /\ mode[o] = "finalizing" /\ FinalizeRoom(TRUE) /\ TypeOK
      /\ \E next \in {"entering", "free"} : mode' = [mode EXCEPT ![o] = next]
  BY DEF FinalizeRestored, dropVars, joinHistory, history, PersistenceIInv, PersistenceInv
<1>2. finalized' \in BOOLEAN /\ (finalized' => finalized \/ CompletionLogged)
  BY <1>1, FinalizeNeedsCompletion
<1>3. /\ mode' \in [Copy -> Mode] /\ mode'[o] \in {"entering", "free"}
      /\ \A q \in Copy : q # o => mode'[q] = mode[q]
  BY <1>1 DEF TypeOK, Mode
<1>4. TypeOK'
  BY <1>1, <1>2, <1>3 DEF TypeOK
<1>5. leaving # o
  BY <1>1, NoneAssumption DEF PersistenceIInv, DropInv, CommandsNeedCopy
<1>6. QED
  BY <1>1, <1>2, <1>3, <1>4, <1>5, JoinMoves

LEMMA GiveUpJoinKeeps ==
  ASSUME PersistenceIInv, NEW o \in Copy, GiveUpJoin(o)
  PROVE  PersistenceIInv'
<1>1. /\ UNCHANGED <<mem, store, log, queue, op, leaving, finalized, stale, split, submits,
                     gaveUp, leaked>>
      /\ mode[o] \in {"fetched", "restoring", "saving", "entering", "left"} /\ leaving # o
      /\ mode' = [mode EXCEPT ![o] = "free"] /\ TypeOK
  BY DEF GiveUpJoin, dropVars, joinHistory, history, PersistenceIInv, PersistenceInv
<1>2. /\ mode' \in [Copy -> Mode] /\ mode'[o] = "free"
      /\ \A q \in Copy : q # o => mode'[q] = mode[q]
  BY <1>1 DEF TypeOK, Mode
<1>3. TypeOK'
  BY <1>1, <1>2 DEF TypeOK
<1>4. QED
  BY <1>1, <1>2, <1>3, JoinMoves

\* The copy that its last player leaves is up to date.
LEMMA UnloadKeeps == ASSUME PersistenceIInv, NEW o \in Copy, Unload(o) PROVE PersistenceIInv'
<1>1. /\ UNCHANGED <<mem, store, log, queue, op, finalized, stale, split, submits, gaveUp, leaked>>
      /\ mode[o] = "active" /\ op = None /\ \A i \in DOMAIN queue : queue[i].copy # o
      /\ mode' = [mode EXCEPT ![o] = "left"] /\ leaving' = o /\ TypeOK
  BY DEF Unload, dropVars, joinHistory, history, PersistenceIInv, PersistenceInv
<1>2. /\ mode' \in [Copy -> Mode] /\ mode'[o] = "left"
      /\ \A q \in Copy : q # o => mode'[q] = mode[q]
  BY <1>1 DEF TypeOK, Mode
<1>3. TypeOK'
  BY <1>1, <1>2 DEF TypeOK
<1>4. Active' = Active \ {o} /\ o \in Active /\ Held' = Held \cup {o}
  BY <1>1, <1>2 DEF Active, Held
<1>5. CompletionSurvives'
  BY <1>1, <1>4 DEF PersistenceIInv, CompletionSurvives, CompletionLogged
<1>6. CopiesAgree'
  <2>1. ~split => Active' = {}
    BY <1>4 DEF PersistenceIInv, CopiesAgree
  <2>2. ~split => Held \ stale = {}
    BY <1>4 DEF PersistenceIInv, CopiesAgree
  <2>3. ~split /\ ~gaveUp /\ CompletionLogged => mem[o].completed
    BY <1>4 DEF PersistenceIInv, CompletionSurvives
  <2>4. QED
    BY <1>1, <1>4, <2>1, <2>2, <2>3 DEF CopiesAgree, CompletionLogged
<1>7. ~leaked => AllRecorded(mem[o]) /\ AllRecorded(store)
  BY <1>1, MemoryIsRecorded DEF Appending, PersistenceIInv, CopiesAreRecorded
<1>8. Whole(mem[o])'
  BY <1>1 DEF PersistenceIInv, WholeRooms, Whole
<1>9. QED
  BY <1>1, <1>2, <1>3, <1>5, <1>6, <1>7, <1>8, CopyBecomes

\* A join that nobody has overtaken enters a copy that is up to date, and
\* overtakes the others.
LEMMA EnterKeeps == ASSUME PersistenceIInv, NEW o \in Copy, Enter(o) PROVE PersistenceIInv'
<1>1. /\ UNCHANGED <<mem, store, log, queue, op, leaving, finalized, submits, gaveUp, leaked>>
      /\ mode[o] \in {"entering", "left"} /\ mode' = [mode EXCEPT ![o] = "active"]
      /\ stale' = (stale \cup Held) \ {o} /\ split' = (split \/ o \in stale)
  BY DEF Enter, dropVars, history
<1>2. /\ TypeOK /\ Whole(mem[o]) /\ (~leaked => AllRecorded(mem[o]) /\ AllRecorded(store))
      /\ leaving # None => op = None /\ mode[leaving] \in {"active", "left"}
      /\ CompletionSurvives /\ CopiesAgree
  BY <1>1, HeldFacts
<1>3. /\ mode' \in [Copy -> Mode] /\ mode'[o] = "active"
      /\ \A q \in Copy : q # o => mode'[q] = mode[q]
  BY <1>1, <1>2 DEF TypeOK, Mode
<1>4. split' \in BOOLEAN /\ stale' \subseteq Copy
  BY <1>1, <1>2 DEF TypeOK, Held
<1>5. TypeOK'
  BY <1>1, <1>2, <1>3, <1>4 DEF TypeOK
<1>6. Active' = Active \cup {o} /\ Held' = Held \ {o} /\ o \in Held
  BY <1>1, <1>3 DEF Active, Held
<1>7. ~split' => ~split /\ o \in Held \ stale
  BY <1>1, <1>6
<1>8. ~split' => Active = {} /\ (CompletionLogged /\ ~gaveUp => mem[o].completed)
  BY <1>1, <1>2, <1>7 DEF CopiesAgree
<1>9. CompletionSurvives'
  BY <1>1, <1>6, <1>8 DEF CompletionSurvives, CompletionLogged
<1>10. CopiesAgree'
  <2>1. ~split' => Active' = {o}
    BY <1>6, <1>8
  <2>2. Held' \ stale' = {}
    BY <1>1, <1>6
  <2>3. QED
    BY <2>1, <2>2 DEF CopiesAgree
<1>11. leaving' # None => op = None /\ mode'[leaving'] \in {"active", "left"}
  BY <1>1, <1>2, <1>3 DEF TypeOK
<1>12. Whole(mem[o])' /\ (split => split')
  BY <1>1, <1>2 DEF Whole
<1>13. QED
  BY <1>1, <1>2, <1>3, <1>5, <1>9, <1>10, <1>11, <1>12, CopyBecomes

-----------------------------------------------------------------------------
(* The drop *)

\* What a drop under way, or about to be, can rely on.
LEMMA DropFacts ==
  ASSUME PersistenceIInv, op # None
  PROVE  /\ TypeOK /\ op \in Drop /\ op.copy \in Copy /\ op.cmd \in Command
         /\ mode[op.copy] = "active" /\ op.copy \in Active /\ leaving = None
         /\ mem[op.copy] \in RoomState /\ Whole(mem[op.copy]) /\ op.before \in RoomState
         /\ Whole(op.before) /\ op.batch \in Batch /\ op.batch.cmd = op.cmd
         /\ ~split => Active = {op.copy} /\ Held \subseteq stale
<1>1. TypeOK /\ op \in Drop /\ mode[op.copy] = "active" /\ leaving = None
  BY DEF PersistenceIInv, PersistenceInv, TypeOK, DropInv, CommandsNeedCopy
<1>2. op.copy \in Copy /\ op.cmd \in Command /\ op.before \in RoomState /\ op.batch \in Batch
  BY <1>1 DEF Drop
<1>3. mem[op.copy] \in RoomState /\ Whole(mem[op.copy]) /\ Whole(op.before)
  BY <1>1, <1>2 DEF TypeOK, PersistenceIInv, WholeRooms
<1>4. op.copy \in Active /\ op.batch.cmd = op.cmd
  BY <1>1, <1>2 DEF Active, PersistenceIInv, DropInv, BatchOfDrop
<1>5. ~split => Active = {op.copy} /\ Held \subseteq stale
  BY <1>4 DEF PersistenceIInv, CopiesAgree
<1>6. QED
  BY <1>1, <1>2, <1>3, <1>4, <1>5

\* A drop disturbs no copy but its own.
LEMMA CopiesAgreeOnDrop ==
  ASSUME PersistenceIInv, op # None, UNCHANGED <<mode, stale, split>>
  PROVE  CopiesAgree'
BY DropFacts DEF CopiesAgree, Active, Held

\* The drop changes the memory, and remembers it as it was.
LEMMA ApplyKeeps == ASSUME PersistenceIInv, NEW snap \in BOOLEAN, Apply(snap) PROVE PersistenceIInv'
<1> DEFINE room == mem[op.copy]
           piece == PieceOf[op.cmd]
           done == room.done \cup {piece}
           completes == done = Piece /\ ~room.completed
<1>1. /\ UNCHANGED <<mode, store, log, queue, leaving, finalized, stale, split, submits,
                     gaveUp, leaked>>
      /\ op # None /\ op.pc = "lookup" /\ ~Logged(op.cmd) /\ ~Appending
      /\ snap => piece \notin room.done
  BY DEF Apply, Appending, joinHistory, history
<1>2. /\ TypeOK /\ op \in Drop /\ op.copy \in Copy /\ op.cmd \in Command
      /\ mode[op.copy] = "active" /\ op.copy \in Active /\ leaving = None
      /\ room \in RoomState /\ Whole(room)
  BY <1>1, DropFacts
<1>3. piece \in Piece
  BY <1>2, CommandAssumption
<1>4. /\ mem' = IF snap
                THEN [mem EXCEPT ![op.copy] =
                        [done |-> done, completed |-> room.completed \/ completes]]
                ELSE mem
      /\ op' = [op EXCEPT !.pc = "append", !.before = room,
                          !.batch = [cmd |-> op.cmd, snap |-> snap,
                                     completes |-> snap /\ completes]]
  BY DEF Apply
<1>5. /\ op' \in Drop /\ op'.pc = "append" /\ op'.cmd = op.cmd /\ op'.before = room
      /\ op'.copy = op.copy
      /\ op'.batch = [cmd |-> op.cmd, snap |-> snap, completes |-> snap /\ completes]
  BY <1>2, <1>4 DEF Drop, Batch
<1>6. /\ mem' \in [Copy -> RoomState]
      /\ mem'[op.copy] = IF snap THEN [done |-> done, completed |-> room.completed \/ completes]
                         ELSE room
      /\ \A o \in Copy : o # op.copy => mem'[o] = mem[o]
  <2>1. [done |-> done, completed |-> room.completed \/ completes] \in RoomState
    BY <1>2, <1>3 DEF RoomState
  <2>2. QED
    BY <1>2, <1>4, <2>1 DEF TypeOK
<1>7. Whole(mem'[op.copy])
  BY <1>2, <1>6 DEF Whole, RoomState
<1>8. TypeOK'
  BY <1>1, <1>2, <1>5, <1>6 DEF TypeOK
<1>9. Active' = Active /\ (room.completed => mem'[op.copy].completed)
  BY <1>1, <1>6 DEF Active
<1>10. CompletionSurvives'
  <2>1. \A o \in Active : o \in Copy
    BY DEF Active
  <2>2. QED
    BY <1>1, <1>2, <1>6, <1>9, <2>1 DEF PersistenceIInv, CompletionSurvives, CompletionLogged
<1>11. Appending' /\ op'.batch.snap = snap
  BY <1>5, NoneAssumption DEF Appending
<1>12. ProgressIsRecorded'
  <2>1. SUFFICES ASSUME ~leaked, NEW o \in Active, NEW p \in mem'[o].done
                 PROVE  Recorded(p) \/ (op.copy = o /\ snap /\ piece = p)
    BY <1>1, <1>5, <1>9, <1>11 DEF ProgressIsRecorded, Recorded
  <2>2. o \in Copy /\ AllRecorded(mem[o])
    BY <1>1, <2>1, MemoryIsRecorded DEF Active
  <2>3. CASE o # op.copy
    BY <1>6, <2>1, <2>2, <2>3 DEF AllRecorded
  <2>4. CASE o = op.copy
    BY <1>6, <2>1, <2>2, <2>4 DEF AllRecorded
  <2>5. QED
    BY <2>3, <2>4
<1>13. WholeRooms'
  <2>1. \A o \in Copy : Whole(mem[o])'
    BY <1>6, <1>7 DEF PersistenceIInv, WholeRooms, Whole
  <2>2. QED
    BY <1>1, <1>2, <1>5, <2>1 DEF PersistenceIInv, WholeRooms, Whole
<1>14. (CommandsNeedCopy /\ BatchOfDrop)'
  <2>1. CommandsNeedCopy'
    BY <1>1, <1>2, <1>5 DEF PersistenceIInv, DropInv, CommandsNeedCopy
  <2>2. BatchOfDrop'
    BY <1>1, <1>5, <1>6 DEF BatchOfDrop, Logged
  <2>3. QED
    BY <2>1, <2>2
<1>15. NoLateSnap'
  <2>1. ~gaveUp /\ ~split /\ CompletionLogged => room.completed /\ room.done = Piece
    BY <1>2 DEF PersistenceIInv, CompletionSurvives, Whole
  <2>2. op'.batch.snap = snap /\ op'.before = room /\ (snap => room.done # Piece)
    BY <1>1, <1>3, <1>5
  <2>3. gaveUp' = gaveUp /\ split' = split /\ CompletionLogged' = CompletionLogged
    BY <1>1 DEF CompletionLogged
  <2>4. QED
    BY <2>1, <2>2, <2>3 DEF NoLateSnap
<1>16. CopiesAreRecorded'
  <2>1. ~leaked => AllRecorded(room)
    BY <1>1, <1>2, MemoryIsRecorded
  <2>2. \A s \in RoomState : AllRecorded(s) => AllRecorded(s)'
    BY <1>1, LogStands
  <2>3. \A o \in Copy : mode'[o] \notin {"free", "active"} =>
          mode[o] \notin {"free", "active"} /\ mem'[o] = mem[o] /\ mem[o] \in RoomState
    BY <1>1, <1>2, <1>6 DEF TypeOK
  <2>4. ~leaked => \A o \in Copy : mode'[o] \notin {"free", "active"} => AllRecorded(mem[o])'
    BY <2>2, <2>3 DEF PersistenceIInv, CopiesAreRecorded
  <2>5. ~leaked => AllRecorded(store)' /\ (CompletionLogged' => \A p \in Piece : Recorded(p)')
    BY <1>1, <1>2, <2>2, LogStands DEF PersistenceIInv, CopiesAreRecorded, TypeOK
  <2>6. ~leaked => AllRecorded(op.before)'
    BY <1>2, <1>5, <2>1, <2>2
  <2>7. QED
    BY <1>1, <2>4, <2>5, <2>6 DEF CopiesAreRecorded
<1>17. QED
  BY <1>1, <1>8, <1>10, <1>12, <1>13, <1>14, <1>15, <1>16, LogStands, CopiesAgreeOnDrop
     DEF PersistenceIInv, PersistenceInv, DropInv

\* What a copy shows, as ProgressIsRecorded has it.
LEMMA MemoryShows ==
  ASSUME PersistenceIInv, ~leaked, NEW o \in Active
  PROVE  \A p \in mem[o].done :
           p \in Piece /\ (Recorded(p) \/ (Appending /\ op.copy = o /\ op.batch.snap
                                           /\ PieceOf[op.cmd] = p))
<1>1. mem[o].done \subseteq Piece
  BY DEF Active, PersistenceIInv, PersistenceInv, TypeOK, RoomState
<1>2. QED
  BY <1>1 DEF PersistenceIInv, ProgressIsRecorded, Recorded

\* Once its events are in the log, the drop shows nothing that is not recorded.
LEMMA BatchIsRecorded ==
  ASSUME PersistenceIInv, op # None, op.pc \in {"append", "retry"}, ~leaked,
         log' = LogWithBatch
  PROVE  \A o \in Active : \A p \in mem[o].done : Recorded(p)'
<1>1. Appending /\ op.batch.cmd = op.cmd
  BY DropFacts DEF Appending
<1>2. \A p \in {PieceOf[op.cmd]} : op.batch.snap => Recorded(p)'
  <2>1. PICK i \in DOMAIN log' : log'[i] = op.batch
    BY LogGrows
  <2>2. log'[i].snap = op.batch.snap /\ PieceOf[log'[i].cmd] = PieceOf[op.cmd]
    BY <1>1, <2>1
  <2>3. QED
    BY <2>2 DEF Recorded
<1>3. \A p \in Piece : Recorded(p) => Recorded(p)'
  BY LogGrows
<1>4. QED
  BY <1>1, <1>2, <1>3, MemoryShows

\* A completion that reaches the log finds all pieces there.
LEMMA CompletionGrows ==
  ASSUME PersistenceIInv, op # None, op.pc \in {"append", "retry"}, ~leaked,
         log' \in {log, LogWithBatch}, CompletionLogged'
  PROVE  \A p \in Piece : Recorded(p)'
<1>1. CASE CompletionLogged
  BY <1>1, LogGrows DEF PersistenceIInv, CopiesAreRecorded
<1>2. CASE log' = log
  BY <1>2 DEF PersistenceIInv, CopiesAreRecorded, CompletionLogged, Recorded
<1>3. CASE ~CompletionLogged /\ log' = LogWithBatch
  <2>1. Appending /\ op.batch.completes
    BY <1>3, LogGrows DEF Appending
  <2>2. mem[op.copy].done = Piece /\ op.copy \in Active
    BY <2>1, DropFacts DEF PersistenceIInv, DropInv, BatchOfDrop, Whole
  <2>3. QED
    BY <1>3, <2>2, BatchIsRecorded
<1>4. QED
  BY <1>1, <1>2, <1>3

\* Every room that joins hold shows recorded pieces still, and so does the
\* completion.
LEMMA CopiesGrow ==
  ASSUME PersistenceIInv, op # None, op.pc \in {"append", "retry"},
         log' \in {log, LogWithBatch}, UNCHANGED <<mode, store, leaked>>,
         \A o \in Copy : mode[o] # "active" => mem'[o] = mem[o],
         Appending' => op'.before = op.before
  PROVE  CopiesAreRecorded'
<1>1. Appending /\ TypeOK /\ op.before \in RoomState
  BY DropFacts DEF Appending
<1>2. \A s \in RoomState : AllRecorded(s) => AllRecorded(s)'
  BY LogGrows DEF AllRecorded, RoomState
<1>3. ~leaked /\ CompletionLogged' => \A p \in Piece : Recorded(p)'
  BY CompletionGrows
<1>4. ~leaked => AllRecorded(store)'
  BY <1>1, <1>2 DEF PersistenceIInv, CopiesAreRecorded, TypeOK
<1>5. ~leaked => \A o \in Copy : mode'[o] \notin {"free", "active"} => AllRecorded(mem[o])'
  <2>1. \A o \in Copy : mode'[o] \notin {"free", "active"} =>
          mode[o] \notin {"free", "active"} /\ mem'[o] = mem[o] /\ mem[o] \in RoomState
    BY <1>1 DEF TypeOK
  <2>2. QED
    BY <1>2, <2>1 DEF PersistenceIInv, CopiesAreRecorded
<1>6. ~leaked /\ Appending' => AllRecorded(op.before)'
  BY <1>1, <1>2 DEF PersistenceIInv, CopiesAreRecorded
<1>7. QED
  BY <1>3, <1>4, <1>5, <1>6 DEF CopiesAreRecorded

\* What holds once an append has been tried, whatever became of it.
LEMMA AttemptKeeps ==
  ASSUME PersistenceIInv, op # None, op.pc \in {"append", "retry"},
         log' \in {log, LogWithBatch},
         UNCHANGED <<mode, store, queue, leaving, finalized, stale, split, submits, leaked>>,
         op' = None \/ (/\ op' \in Drop /\ op'.batch = op.batch /\ op'.cmd = op.cmd
                        /\ op'.before = op.before /\ op'.copy = op.copy),
         gaveUp' \in BOOLEAN, gaveUp => gaveUp',
         mem' \in [Copy -> RoomState], \A o \in Copy : o # op.copy => mem'[o] = mem[o],
         mem'[op.copy] \in {mem[op.copy], op.before}
  PROVE  /\ TypeOK' /\ WholeRooms' /\ CommandsNeedCopy' /\ CopiesAreRecorded' /\ CopiesAgree'
         /\ (CommandsAreRecordedOnce /\ CompletionIsTheLastSnap /\ ResultsHaveCompletions)'
<1>1. /\ TypeOK /\ op.copy \in Copy /\ mode[op.copy] = "active" /\ leaving = None
      /\ Whole(mem[op.copy]) /\ Whole(op.before)
  BY DropFacts
<1>2. TypeOK'
  BY <1>1, LogGrows DEF TypeOK
<1>3. WholeRooms'
  <2>1. \A o \in Copy : Whole(mem[o])'
    BY <1>1 DEF PersistenceIInv, WholeRooms, Whole
  <2>2. QED
    BY <2>1 DEF PersistenceIInv, WholeRooms, Whole
<1>4. CommandsNeedCopy'
  BY <1>1 DEF PersistenceIInv, DropInv, CommandsNeedCopy
<1>5. CopiesAreRecorded'
  BY <1>1, CopiesGrow DEF Appending
<1>6. (CommandsAreRecordedOnce /\ ResultsHaveCompletions)'
  BY LogGrows DEF PersistenceIInv, PersistenceInv, ResultsHaveCompletions
<1>7. CompletionIsTheLastSnap'
  BY LogGrows DEF CompletionIsTheLastSnap
<1>8. QED
  BY <1>2, <1>3, <1>4, <1>5, <1>6, <1>7, CopiesAgreeOnDrop

\* A completion that the drop brings to the log is one that its copy shows.
LEMMA SurvivesAppend ==
  ASSUME PersistenceIInv, op # None, op.pc \in {"append", "retry"},
         log' \in {log, LogWithBatch}, UNCHANGED <<mode, mem, split, gaveUp>>
  PROVE  CompletionSurvives'
<1>1. Active' = Active
  BY DEF Active
<1>2. CompletionLogged' => CompletionLogged \/ mem[op.copy].completed
  BY LogGrows DEF PersistenceIInv, DropInv, BatchOfDrop, Appending
<1>3. ~split => Active = {op.copy}
  BY DropFacts
<1>4. QED
  BY <1>1, <1>2, <1>3 DEF PersistenceIInv, CompletionSurvives

\* The events of a drop reach the log, or the drop is taken back.
LEMMA AppendSucceedsKeeps == ASSUME PersistenceIInv, AppendSucceeds PROVE PersistenceIInv'
<1>1. /\ UNCHANGED <<mode, mem, store, queue, leaving, finalized, stale, split, submits,
                     gaveUp, leaked>>
      /\ op # None /\ op.pc \in {"append", "retry"}
      /\ log' = LogWithBatch /\ op' = [op EXCEPT !.pc = "save"]
  BY DEF AppendSucceeds, Appending, copyVars, joinHistory, history
<1>2. op \in Drop /\ op.copy \in Copy /\ mem \in [Copy -> RoomState] /\ gaveUp \in BOOLEAN
  BY <1>1, DropFacts DEF TypeOK
<1>3. /\ op' \in Drop /\ op'.pc = "save" /\ op'.batch = op.batch /\ op'.cmd = op.cmd
      /\ op'.before = op.before /\ op'.copy = op.copy
  BY <1>1, <1>2 DEF Drop
<1>4. ~Appending' /\ Active' = Active
  BY <1>1, <1>3 DEF Appending, Active
<1>5. (BatchOfDrop /\ NoLateSnap)'
  BY <1>1, <1>3, <1>4, DropFacts DEF BatchOfDrop, NoLateSnap
<1>6. ~leaked => \A o \in Active : \A p \in mem[o].done : Recorded(p)'
  BY <1>1, BatchIsRecorded
<1>7. ProgressIsRecorded'
  BY <1>1, <1>4, <1>6 DEF ProgressIsRecorded, Recorded
<1>8. CompletionSurvives'
  BY <1>1, SurvivesAppend
<1>9. /\ TypeOK' /\ WholeRooms' /\ CommandsNeedCopy' /\ CopiesAreRecorded' /\ CopiesAgree'
      /\ (CommandsAreRecordedOnce /\ CompletionIsTheLastSnap /\ ResultsHaveCompletions)'
  BY <1>1, <1>2, <1>3, AttemptKeeps
<1>10. QED
  BY <1>5, <1>7, <1>8, <1>9 DEF PersistenceIInv, PersistenceInv, DropInv

LEMMA FirstAttemptFailsKeeps == ASSUME PersistenceIInv, FirstAttemptFails PROVE PersistenceIInv'
<1>1. /\ UNCHANGED <<mode, mem, store, queue, leaving, finalized, stale, split, submits,
                     gaveUp, leaked>>
      /\ op # None /\ op.pc = "append"
      /\ log' \in {log, LogWithBatch} /\ op' = [op EXCEPT !.pc = "retry"]
  BY DEF FirstAttemptFails, AttemptFails, Appending, copyVars, joinHistory, history
<1>2. op \in Drop /\ op.copy \in Copy /\ mem \in [Copy -> RoomState] /\ gaveUp \in BOOLEAN
  BY <1>1, DropFacts DEF TypeOK
<1>3. /\ op' \in Drop /\ op'.pc = "retry" /\ op'.batch = op.batch /\ op'.cmd = op.cmd
      /\ op'.before = op.before /\ op'.copy = op.copy
  BY <1>1, <1>2 DEF Drop
<1>4. Appending /\ Appending' /\ Active' = Active
  BY <1>1, <1>3, NoneAssumption DEF Appending, Active
<1>5. BatchOfDrop'
  <2>1. Logged(op.cmd)' => \E i \in DOMAIN log' : log'[i] = op'.batch
    <3>1. CASE log' = LogWithBatch
      BY <1>1, <1>3, <3>1, LogGrows
    <3>2. CASE log' = log
      BY <1>3, <1>4, <3>2 DEF PersistenceIInv, DropInv, BatchOfDrop, Logged
    <3>3. QED
      BY <1>1, <3>1, <3>2
  <2>2. QED
    BY <1>1, <1>3, <1>4, <2>1 DEF PersistenceIInv, DropInv, BatchOfDrop
<1>6. NoLateSnap'
  <2>1. ~Logged(op.cmd)' => log' = log
    BY <1>1, <1>3, LogGrows DEF Logged
  <2>2. QED
    BY <1>1, <1>3, <1>4, <2>1
       DEF PersistenceIInv, DropInv, NoLateSnap, Logged, CompletionLogged
<1>7. ProgressIsRecorded'
  <2>1. SUFFICES ASSUME ~leaked, NEW o \in Active, NEW p \in mem[o].done
                 PROVE  Recorded(p)' \/ (op.copy = o /\ op.batch.snap /\ PieceOf[op.cmd] = p)
    BY <1>1, <1>3, <1>4 DEF ProgressIsRecorded, Recorded
  <2>2. p \in Piece /\ (Recorded(p) \/ (op.copy = o /\ op.batch.snap /\ PieceOf[op.cmd] = p))
    BY <2>1, MemoryShows
  <2>3. QED
    BY <1>1, <2>2, LogGrows
<1>8. CompletionSurvives'
  BY <1>1, SurvivesAppend
<1>9. /\ TypeOK' /\ WholeRooms' /\ CommandsNeedCopy' /\ CopiesAreRecorded' /\ CopiesAgree'
      /\ (CommandsAreRecordedOnce /\ CompletionIsTheLastSnap /\ ResultsHaveCompletions)'
  BY <1>1, <1>2, <1>3, AttemptKeeps
<1>10. QED
  BY <1>5, <1>6, <1>7, <1>8, <1>9 DEF PersistenceIInv, PersistenceInv, DropInv

LEMMA SecondAttemptFailsKeeps == ASSUME PersistenceIInv, SecondAttemptFails PROVE PersistenceIInv'
<1>1. /\ UNCHANGED <<mode, store, queue, leaving, finalized, stale, split, submits, leaked>>
      /\ op # None /\ op.pc = "retry" /\ Appending
      /\ log' \in {log, LogWithBatch} /\ op' = None
      /\ mem' = [mem EXCEPT ![op.copy] = op.before]
      /\ gaveUp' = (gaveUp \/ Logged(op.cmd) \/ log' # log)
  BY DEF SecondAttemptFails, AttemptFails, PutBack, Appending, joinHistory
<1>2. /\ TypeOK /\ op \in Drop /\ op.copy \in Copy /\ op.before \in RoomState
      /\ ~split => Active = {op.copy}
  BY <1>1, DropFacts
<1>3. /\ mem' \in [Copy -> RoomState] /\ mem'[op.copy] = op.before
      /\ \A o \in Copy : o # op.copy => mem'[o] = mem[o]
      /\ gaveUp' \in BOOLEAN /\ (gaveUp => gaveUp')
  BY <1>1, <1>2 DEF TypeOK
<1>4. Active' = Active /\ Active \subseteq Copy /\ ~Appending'
  BY <1>1 DEF Active, Appending
<1>5. CompletionSurvives'
  <2>1. ~gaveUp' => ~gaveUp /\ ~Logged(op.cmd) /\ log' = log
    BY <1>1
  <2>2. ~gaveUp' => CompletionLogged' = CompletionLogged
    BY <2>1 DEF CompletionLogged
  <2>3. QED
    BY <1>1, <1>2, <1>3, <1>4, <2>1, <2>2 DEF PersistenceIInv, DropInv, NoLateSnap,
                                              CompletionSurvives
<1>6. (BatchOfDrop /\ NoLateSnap)'
  BY <1>1 DEF BatchOfDrop, NoLateSnap, Appending
<1>7. ProgressIsRecorded'
  <2>1. SUFFICES ASSUME ~leaked, NEW o \in Active, NEW p \in mem'[o].done
                 PROVE  Recorded(p)'
    BY <1>1, <1>4 DEF ProgressIsRecorded, Recorded
  <2>2. p \in Piece /\ Recorded(p)
    <3>1. CASE o = op.copy
      BY <1>1, <1>2, <1>3, <2>1, <3>1
         DEF PersistenceIInv, CopiesAreRecorded, AllRecorded, RoomState
    <3>2. CASE o # op.copy
      BY <1>3, <1>4, <2>1, <3>2, MemoryShows
    <3>3. QED
      BY <3>1, <3>2
  <2>3. QED
    BY <1>1, <2>2, LogGrows
<1>8. /\ TypeOK' /\ WholeRooms' /\ CommandsNeedCopy' /\ CopiesAreRecorded' /\ CopiesAgree'
      /\ (CommandsAreRecordedOnce /\ CompletionIsTheLastSnap /\ ResultsHaveCompletions)'
  BY <1>1, <1>2, <1>3, AttemptKeeps
<1>9. QED
  BY <1>5, <1>6, <1>7, <1>8 DEF PersistenceIInv, PersistenceInv, DropInv

\* The crash takes the memory; an append under way is committed or not.
LEMMA CrashKeeps == ASSUME PersistenceIInv, Crash PROVE PersistenceIInv'
<1>1. /\ UNCHANGED <<mem, store, finalized, split, submits, gaveUp, leaked>>
      /\ mode' = [o \in Copy |-> "free"] /\ queue' = <<>> /\ op' = None
      /\ leaving' = None /\ stale' = {}
  BY DEF Crash, history
<1>2. /\ log' \in Seq(Batch)
      /\ (CommandsAreRecordedOnce /\ CompletionIsTheLastSnap /\ ResultsHaveCompletions)'
      /\ \A p \in Piece : Recorded(p) => Recorded(p)'
      /\ ~leaked /\ CompletionLogged' => \A p \in Piece : Recorded(p)'
  <2>1. CASE Appending
    <3>1. op # None /\ op.pc \in {"append", "retry"} /\ log' \in {log, LogWithBatch}
      BY <2>1 DEF Crash, Appending
    <3>2. QED
      BY <1>1, <3>1, LogGrows, CompletionGrows
         DEF PersistenceIInv, PersistenceInv, CompletionIsTheLastSnap, ResultsHaveCompletions
  <2>2. CASE ~Appending
    <3>1. log' = log
      BY <2>2 DEF Crash
    <3>2. QED
      BY <1>1, <3>1, LogStands DEF PersistenceIInv, CopiesAreRecorded
  <2>3. QED
    BY <2>1, <2>2
<1>3. TypeOK'
  <2>1. queue' \in Seq(Request) /\ mode' \in [Copy -> Mode]
    BY <1>1 DEF Mode
  <2>2. QED
    BY <1>1, <1>2, <2>1 DEF PersistenceIInv, PersistenceInv, TypeOK
<1>4. Active' = {} /\ Held' = {} /\ ~Appending'
  BY <1>1 DEF Active, Held, Appending
<1>5. (CompletionSurvives /\ ProgressIsRecorded /\ CopiesAgree)'
  BY <1>4 DEF CompletionSurvives, ProgressIsRecorded, CopiesAgree
<1>6. (WholeRooms /\ DropInv)'
  BY <1>1, <1>4 DEF PersistenceIInv, WholeRooms, Whole, DropInv, CommandsNeedCopy, BatchOfDrop,
                    NoLateSnap
<1>7. CopiesAreRecorded'
  <2>1. ~leaked => AllRecorded(store) /\ store.done \subseteq Piece
    BY DEF PersistenceIInv, PersistenceInv, TypeOK, RoomState, CopiesAreRecorded
  <2>2. ~leaked => AllRecorded(store)'
    BY <1>1, <1>2, <2>1 DEF AllRecorded
  <2>3. QED
    BY <1>1, <1>2, <1>4, <2>2 DEF CopiesAreRecorded
<1>8. QED
  BY <1>2, <1>3, <1>5, <1>6, <1>7 DEF PersistenceIInv, PersistenceInv

-----------------------------------------------------------------------------
LEMMA PersistenceInitial == Init => PersistenceIInv
<1> SUFFICES ASSUME Init
             PROVE  PersistenceIInv
  OBVIOUS
<1>1. PersistenceInv
  <2>1. /\ Fresh \in RoomState /\ <<>> \in Seq(Batch) /\ <<>> \in Seq(Request)
        /\ [o \in Copy |-> "free"] \in [Copy -> Mode]
        /\ [o \in Copy |-> Fresh] \in [Copy -> RoomState] /\ 0 \in 0..MaxSubmits
    BY SubmitsAssumption DEF Fresh, RoomState, Mode
  <2>2. TypeOK
    BY <2>1 DEF Init, TypeOK
  <2>3. CommandsAreRecordedOnce /\ CompletionIsTheLastSnap /\ ResultsHaveCompletions
    BY DEF Init, CommandsAreRecordedOnce, CompletionIsTheLastSnap, ResultsHaveCompletions
  <2>4. QED
    BY <2>2, <2>3 DEF PersistenceInv
<1>2. Active = {} /\ Held = {}
  BY DEF Init, Active, Held
<1>3. CompletionSurvives /\ ProgressIsRecorded /\ CopiesAgree
  BY <1>2 DEF CompletionSurvives, ProgressIsRecorded, CopiesAgree
<1>4. WholeRooms /\ DropInv
  BY DEF Init, Fresh, WholeRooms, Whole, DropInv, CommandsNeedCopy, BatchOfDrop, NoLateSnap,
         Appending
<1>5. CopiesAreRecorded
  BY DEF Init, Fresh, CopiesAreRecorded, AllRecorded, Appending, CompletionLogged
<1>6. QED
  BY <1>1, <1>3, <1>4, <1>5 DEF PersistenceIInv

LEMMA PersistenceStep == PersistenceIInv /\ [Next]_vars => PersistenceIInv'
<1> SUFFICES ASSUME PersistenceIInv, [Next]_vars
             PROVE  PersistenceIInv'
  OBVIOUS
<1>1. ASSUME NEW cmd \in Command, NEW o \in Copy, Submit(cmd, o) PROVE PersistenceIInv'
  BY <1>1, SubmitKeeps
<1>2. CASE StartDrop
  BY <1>2, StartDropKeeps
<1>3. CASE LookupFails \/ Replay \/ SaveDrop \/ FinalizeDrop
  BY <1>3, LookupFailsKeeps, ReplayKeeps, SaveDropKeeps, FinalizeDropKeeps
<1>4. ASSUME NEW snap \in BOOLEAN, Apply(snap) PROVE PersistenceIInv'
  BY <1>4, ApplyKeeps
<1>5. CASE AppendSucceeds \/ FirstAttemptFails \/ SecondAttemptFails
  BY <1>5, AppendSucceedsKeeps, FirstAttemptFailsKeeps, SecondAttemptFailsKeeps
<1>6. CASE RecoverPendingCompletions \/ SaveUnloaded \/ Crash
  BY <1>6, RecoverKeeps, SaveUnloadedKeeps, CrashKeeps
<1>7. ASSUME NEW o \in Copy, SaveUnqueued(o) \/ PersistActiveRoom(o) \/ Unload(o)
      PROVE  PersistenceIInv'
  BY <1>7, SaveUnqueuedKeeps, PersistActiveRoomKeeps, UnloadKeeps
<1>8. ASSUME NEW o \in Copy, Fetch(o) \/ FindRoom(o) \/ Restore(o) \/ SaveRestored(o)
      PROVE  PersistenceIInv'
  BY <1>8, FetchKeeps, FindRoomKeeps, RestoreKeeps, SaveRestoredKeeps
<1>9. ASSUME NEW o \in Copy, FinalizeRestored(o) \/ GiveUpJoin(o) \/ Enter(o)
      PROVE  PersistenceIInv'
  BY <1>9, FinalizeRestoredKeeps, GiveUpJoinKeeps, EnterKeeps
<1>10. CASE UNCHANGED vars
  <2>1. UNCHANGED <<mode, mem, store, log, queue, op, leaving, finalized, stale, split,
                    submits, gaveUp, leaked>>
    BY <1>10 DEF vars, copyVars, dropVars, joinHistory, history
  <2>2. leaked \in BOOLEAN /\ finalized \in BOOLEAN
    BY DEF PersistenceIInv, PersistenceInv, TypeOK
  <2>3. QED
    BY <2>1, <2>2, RoomIsSaved
<1>11. QED
  BY <1>1, <1>2, <1>3, <1>4, <1>5, <1>6, <1>7, <1>8, <1>9, <1>10 DEF Next

LEMMA PersistenceInductive == Spec => []PersistenceIInv
BY PersistenceInitial, PersistenceStep, PTL DEF Spec

\* The log of a room tells one story: every command once however often it is
\* resent and its append repeated, the completion last unless the server has
\* given up on a committed append or a join has entered a copy that others had
\* overtaken, and a result only after its completion.
THEOREM PersistenceInvariant == Spec => []PersistenceInv
<1>1. PersistenceIInv => PersistenceInv
  BY DEF PersistenceIInv
<1>2. QED
  BY <1>1, PersistenceInductive, PTL

\* Whoever has the room in memory sees a recorded completion, whatever was
\* saved, put back or reloaded from a stale copy, and however many joins were
\* under way, unless one has entered a copy that others had overtaken.
THEOREM CompletionSurvivesReloads == Spec => []CompletionSurvives
<1>1. PersistenceIInv => CompletionSurvives
  BY DEF PersistenceIInv
<1>2. QED
  BY <1>1, PersistenceInductive, PTL

\* No copy shows a snapped piece that is neither recorded nor about to be,
\* unless a save outside the queue has let one into Redis.
THEOREM ProgressStaysRecorded == Spec => []ProgressIsRecorded
<1>1. PersistenceIInv => ProgressIsRecorded
  BY DEF PersistenceIInv
<1>2. QED
  BY <1>1, PersistenceInductive, PTL

=============================================================================
