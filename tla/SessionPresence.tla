--------------------------- MODULE SessionPresence ---------------------------
(***************************************************************************)
(* How long a player was in a room and had its preview open, as the room   *)
(* manager records it and finalizeSession measures it. Connections enter   *)
(* and leave, toggle the preview and make the drop that completes the      *)
(* room. The room runs its commands one after the other (one that waits for *)
(* its turn and finds its presence gone does nothing: RoomMembership), but *)
(* the event of an entry and the periodic flush of events that could not be *)
(* stored run beside them. An append may fail, even after it was stored.   *)
(***************************************************************************)
EXTENDS Integers, Sequences, FiniteSets, SequencesExt

CONSTANTS
  Socket,
  PlayerOf,      \* PlayerOf[c]: the player of connection c
  PreviewCap,    \* 60_000: the most that an unclosed preview counts
  Nothing,
  MaxClock, MaxPresences, MaxPreviews, MaxFaults   \* bounds

VARIABLES
  clock,      \* the time, in units
  log,        \* the events of the room, in the order of their sequence
  here,       \* here[c]: the presence of c in the room, or Nothing
  presences,  \* how many presences there have been
  arriving,   \* [presence, conn] of entries whose event is not stored yet
  command,    \* the command of the room that awaits its append, or Nothing
  previews,   \* activePreviews: previews[c], or Nothing
  opened,     \* how many previews have been opened
  batch,      \* what the command command is appending
  before,     \* captureRoomMutation: the previews before a drop
  unsent,     \* pendingRoomEventBatches
  sending,   \* those the periodic flush has taken
  endedAt,    \* completedAt, or Nothing
  faults,     \* history: how many appends have failed
  inside,     \* history: [player, at] with a stored entry and still in the room
  leaving,    \* history: [player, at] in the room, or with a leave to be stored
  viewing,    \* history: [player, at] with the preview open
  doubtful,   \* history: previews with an event stored by a failed append
  overdue     \* history: previews whose end was being flushed at a completion

presenceVars == <<clock, log, here, presences, arriving, command, previews, opened,
                  batch, before, unsent, sending, endedAt, faults, inside, leaving,
                  viewing, doubtful, overdue>>
histories == <<inside, leaving, viewing>>
fixedInCalls == <<clock, presences, arriving, histories>>

\* A bound: the more appends have failed, the less time passes.
Within(time, failures) == time <= MaxClock /\ failures <= MaxFaults /\ time + 2 * failures <= MaxClock + 1
CanFail == Within(clock, faults + 1)

Attendee == {PlayerOf[c] : c \in Socket}
Event(type, id, by) == [type |-> type, id |-> id, by |-> by]
Stored(events) == [i \in DOMAIN events |-> [type |-> events[i].type, id |-> events[i].id, by |-> events[i].by, at |-> clock]]
Has(type, id) == \E i \in DOMAIN log : log[i].type = type /\ log[i].id = id

\* A batch is stored once: append finds the events of a command it has stored.
Appended(events) ==
  LET new == SelectSeq(events, LAMBDA e : ~Has(e.type, e.id)) IN log \o Stored(new)

NoPreviews == [c \in Socket |-> Nothing]

PresenceInit ==
  /\ clock = 0 /\ log = << >> /\ presences = 0 /\ arriving = {}
  /\ here = [c \in Socket |-> Nothing]
  /\ command = Nothing /\ batch = << >>
  /\ previews = NoPreviews /\ before = NoPreviews /\ opened = 0
  /\ unsent = {} /\ sending = {} /\ endedAt = Nothing
  /\ faults = 0 /\ inside = {} /\ leaving = {} /\ viewing = {} /\ doubtful = {} /\ overdue = {}

-----------------------------------------------------------------------------
(* Entering                                                                *)

\* A bound: what happens after the completion is stored changes no summary.
Playing == endedAt = Nothing \/ command # Nothing

\* joinRoom, once it has found the room.
Enters(c) ==
  /\ Playing /\ here[c] = Nothing /\ presences < MaxPresences
  /\ presences' = presences + 1
  /\ here' = [here EXCEPT ![c] = presences + 1]
  /\ arriving' = arriving \cup {[presence |-> presences + 1, conn |-> c]}
  /\ UNCHANGED <<clock, log, command, previews, opened, batch, before, unsent, sending,
                 endedAt, faults, histories, doubtful, overdue>>

\* player_connected is stored, or both attempts fail: joinRoom throws, and the
\* connection stays in the room.
Arrived(a) ==
  /\ Playing /\ a \in arriving
  /\ arriving' = arriving \ {a}
  /\ \/ log' = Appended(<<Event("connected", a.presence, PlayerOf[a.conn])>>) /\ UNCHANGED faults
     \/ CanFail /\ faults' = faults + 1 /\ UNCHANGED log
  /\ UNCHANGED <<clock, here, presences, command, previews, opened, batch, before, unsent,
                 sending, endedAt, histories, doubtful, overdue>>

-----------------------------------------------------------------------------
(* The commands of the room, one at a time                                 *)

\* runRoomCommand, when it is the turn of a command of c: getJoinedRoom has
\* found c in the room. A toggle of what is open or closed already does nothing.
Turn(c, kind) ==
  /\ Playing /\ command = Nothing /\ here[c] # Nothing
  /\ command' = [kind |-> kind, conn |-> c, presence |-> here[c]]
Is(kind) == command # Nothing /\ command.kind = kind
EndCommand == command' = Nothing /\ batch' = << >> /\ before' = NoPreviews

BeginOpen(c) ==
  /\ Turn(c, "open") /\ endedAt = Nothing /\ previews[c] = Nothing
  /\ opened < MaxPreviews /\ opened' = opened + 1
  /\ batch' = <<Event("opened", opened + 1, PlayerOf[c])>>
  /\ UNCHANGED <<fixedInCalls, log, here, previews, before, unsent, sending, endedAt,
                 faults, doubtful, overdue>>

BeginClose(c) ==
  /\ Turn(c, "close") /\ endedAt = Nothing /\ previews[c] # Nothing
  /\ batch' = <<Event("closed", previews[c], PlayerOf[c])>>
  /\ UNCHANGED <<fixedInCalls, log, here, previews, opened, before, unsent, sending,
                 endedAt, faults, doubtful, overdue>>

PreviewsWithout(c) == [previews EXCEPT ![c] = Nothing]

\* disconnectCommand leaves the room at once, and closes the preview with it.
BeginLeave(c) ==
  /\ Turn(c, "leave")
  /\ here' = [here EXCEPT ![c] = Nothing]
  /\ previews' = PreviewsWithout(c)
  /\ batch' = (IF previews[c] = Nothing THEN << >> ELSE <<Event("closed", previews[c], PlayerOf[c])>>)
                \o <<Event("left", here[c], PlayerOf[c])>>
  /\ UNCHANGED <<fixedInCalls, log, opened, before, unsent, sending, endedAt, faults,
                 doubtful, overdue>>

\* createDropEvents, for a drop that completes the room.
CompletionEvents ==
  LET open == SetToSeq({c \in Socket : previews[c] # Nothing}) IN
    [i \in DOMAIN open |-> Event("closed", previews[open[i]], PlayerOf[open[i]])]
      \o <<Event("completed", clock, Nothing)>>

ClosedIn(batches) == {e.id : e \in {f \in UNION {ToSet(b) : b \in batches} : f.type = "closed"}}

\* dropGroupCommand stores the pending events first, and throws if it cannot.
BeginDrop(c) ==
  /\ Turn(c, "drop") /\ endedAt = Nothing
  /\ log' = Appended(FlattenSeq(SetToSeq(unsent))) /\ unsent' = {}
  /\ endedAt' = clock
  /\ before' = previews /\ previews' = NoPreviews
  /\ batch' = CompletionEvents
  /\ overdue' = overdue \cup ClosedIn(sending)
  /\ UNCHANGED <<fixedInCalls, here, opened, sending, faults, doubtful>>

RefuseDrop(c) ==
  /\ Playing /\ command = Nothing /\ here[c] # Nothing
  /\ endedAt = Nothing /\ unsent # {} /\ CanFail
  /\ faults' = faults + 1
  /\ \E refused \in SUBSET unsent :
       /\ refused # {} /\ unsent' = refused
       /\ log' = Appended(FlattenSeq(SetToSeq(unsent \ refused)))
  /\ UNCHANGED <<fixedInCalls, here, command, previews, opened, batch, before, sending, endedAt,
                 doubtful, overdue>>

\* The append is answered: the command takes effect in memory.
Succeed ==
  /\ command # Nothing
  /\ log' = Appended(batch)
  /\ previews' = CASE Is("open") -> [previews EXCEPT ![command.conn] = batch[1].id]
                   [] Is("close") -> [previews EXCEPT ![command.conn] = Nothing]
                   [] OTHER -> previews
  /\ EndCommand
  /\ UNCHANGED <<fixedInCalls, here, opened, unsent, sending, endedAt, faults, doubtful, overdue>>

\* Mutant: the events of a leave are not kept.
LeaveIsForgotten == {}
KeptForLater == IF Is("leave") THEN {batch} ELSE {}

\* The append throws, stored or not: a leave keeps its events for the flush, a
\* drop restores the room, the others change nothing.
FailCommand(stored) ==
  /\ command # Nothing /\ CanFail
  /\ faults' = faults + 1
  /\ log' = IF stored THEN Appended(batch) ELSE log
  /\ unsent' = unsent \cup KeptForLater
  /\ previews' = IF Is("drop") THEN before ELSE previews
  /\ endedAt' = IF Is("drop") THEN Nothing ELSE endedAt
  /\ doubtful' = IF stored /\ ~Is("leave")
                 THEN doubtful \cup {e.id : e \in {f \in ToSet(batch) : f.type \in {"opened", "closed"}}}
                 ELSE doubtful
  /\ EndCommand
  /\ UNCHANGED <<fixedInCalls, here, opened, sending, overdue>>

-----------------------------------------------------------------------------
(* The periodic flush, and time                                            *)

TakeUnsent ==
  /\ Playing /\ unsent # {}
  /\ sending' = sending \cup unsent /\ unsent' = {}
  /\ UNCHANGED <<fixedInCalls, log, here, command, previews, opened, batch, before, endedAt,
                 faults, doubtful, overdue>>

Flush(events) ==
  /\ Playing /\ events \in sending
  /\ sending' = sending \ {events}
  /\ \/ log' = Appended(events) /\ UNCHANGED <<unsent, faults>>
     \/ /\ CanFail /\ faults' = faults + 1
        /\ unsent' = unsent \cup {events} /\ UNCHANGED log
  /\ UNCHANGED <<fixedInCalls, here, command, previews, opened, batch, before, endedAt,
                 doubtful, overdue>>

Waiting == unsent \cup sending \cup (IF Is("leave") THEN {batch} ELSE {})
LeavesIn(batches) == {e \in UNION {ToSet(b) : b \in batches} : e.type = "left"}
EntryIsStored(c) == Has("connected", here[c])
AtNow(set) == {[player |-> p, at |-> clock] : p \in set}

PassTime ==
  LET present == {c \in Socket : here[c] # Nothing} IN
  /\ Playing /\ presences > 0 /\ Within(clock + 1, faults) /\ clock' = clock + 1
  /\ inside' = inside \cup AtNow({PlayerOf[c] : c \in {d \in present : EntryIsStored(d)}})
  /\ leaving' = leaving \cup AtNow({PlayerOf[c] : c \in present} \cup {e.by : e \in LeavesIn(Waiting)})
  /\ viewing' = viewing \cup AtNow({PlayerOf[c] : c \in {d \in Socket : previews[d] # Nothing}})
  /\ UNCHANGED <<log, here, presences, arriving, command, previews, opened, batch, before,
                 unsent, sending, endedAt, faults, doubtful, overdue>>

PresenceNext ==
  \/ \E c \in Socket :
       \/ Enters(c) \/ BeginOpen(c) \/ BeginClose(c) \/ BeginLeave(c)
       \/ BeginDrop(c) \/ RefuseDrop(c)
  \/ \E a \in arriving : Arrived(a)
  \/ Succeed \/ \E stored \in BOOLEAN : FailCommand(stored)
  \/ TakeUnsent \/ (\E events \in sending : Flush(events)) \/ PassTime

PresenceSpec == PresenceInit /\ [][PresenceNext]_presenceVars

-----------------------------------------------------------------------------
(* The measures of finalizeSession, over the events up to the completion   *)

Completions == {i \in DOMAIN log : log[i].type = "completed"}
Finished == Completions # {}
Cut == CHOOSE i \in Completions : \A j \in Completions : j <= i
EndTime == log[Cut].id
Least(m, n) == IF m < n THEN m ELSE n
Most(m, n) == IF m < n THEN n ELSE m

\* The events that end the interval that event i begins: the first one counts.
EndsOf(i, type) == {j \in i..Cut : log[j].type = type /\ log[j].id = log[i].id}

Closed(i, j) == <<log[i].at, Least(log[j].at, EndTime)>>

IntervalsOf(player, from, to, unclosed) ==
  {LET ends == EndsOf(i, to) IN
     IF ends = {} THEN <<log[i].at, unclosed[i]>>
     ELSE Closed(i, CHOOSE j \in ends : \A k \in ends : j <= k) :
   i \in {k \in 1..Cut : log[k].type = from /\ log[k].by = player}}

ActiveIntervals(player) == IntervalsOf(player, "connected", "left", [i \in DOMAIN log |-> EndTime])
PreviewIntervals(player) ==
  IntervalsOf(player, "opened", "closed",
              [i \in DOMAIN log |-> Least(EndTime, log[i].at + PreviewCap)])

Joined(current, interval) == <<current[1], Most(current[2], interval[2])>>

\* measureIntervals: intervals that overlap or touch are joined, in order.
Measured(intervals) ==
  LET sorted == SetToSortSeq({i \in intervals : i[2] > i[1]}, LAMBDA a, b : a[1] < b[1])
      step(state, interval) ==
        IF state.current = << >> THEN [state EXCEPT !.current = interval]
        ELSE IF interval[1] <= state.current[2]
             THEN [state EXCEPT !.current = Joined(@, interval)]
             ELSE [total |-> state.total + state.current[2] - state.current[1],
                   current |-> interval]
      last == FoldLeft(step, [total |-> 0, current |-> << >>], sorted)
  IN  last.total + IF last.current = << >> THEN 0 ELSE last.current[2] - last.current[1]

-----------------------------------------------------------------------------
(* Correctness                                                             *)

UnitsIn(intervals) == UNION {i[1]..(i[2] - 1) : i \in intervals}
Counted(set, player) == {u.at : u \in {v \in set : v.player = player /\ v.at < EndTime}}

\* A preview is opened by one connection that is in the room, and is not open
\* in a room that is complete; only a command command has something to append.
PresenceTypeOK ==
  /\ \A c \in Socket : here[c] # Nothing => here[c] \in 1..presences
  /\ \A c \in Socket : previews[c] # Nothing =>
       here[c] # Nothing /\ endedAt = Nothing /\ Has("opened", previews[c])
  /\ \A c, d \in Socket : c # d /\ previews[c] # Nothing => previews[c] # previews[d]
  /\ (command = Nothing <=> batch = << >>)
  /\ \A i, j \in DOMAIN log : i < j => log[i].at <= log[j].at

\* The time that measureIntervals adds up is that of the union: two sockets of
\* a player do not count twice, whichever of them closes first.
MeasureIsUnion ==
  Finished => \A p \in Attendee : \A intervals \in {ActiveIntervals(p), PreviewIntervals(p)} :
    Measured(intervals) = Cardinality(UnitsIn(intervals))

\* No time in the room is lost: as long as one socket of a player has entered
\* on record and not left, the time counts, until the room is complete.
PresenceCounts ==
  Finished => \A p \in Attendee : Counted(inside, p) \subseteq UnitsIn(ActiveIntervals(p))

\* Time away does not count, unless the entry was stored after the leave: then
\* the interval is never closed.
LeftInVain == \E i, j \in DOMAIN log : i < j /\ log[i].type = "left" /\ log[j].type = "connected" /\ log[i].id = log[j].id
AbsenceDoesNotCount ==
  Finished /\ ~LeftInVain => \A p \in Attendee :
    \A t \in UnitsIn(ActiveIntervals(p)) : [player |-> p, at |-> t] \in leaving

\* Every preview that was opened on record and not closed is open, or will be
\* closed, unless one of its appends failed and was stored all the same.
PreviewsAreAccountedFor ==
  \A i \in DOMAIN log : log[i].type = "opened" =>
    \/ Has("closed", log[i].id) \/ log[i].id \in doubtful
    \/ \E c \in Socket : previews[c] = log[i].id
    \/ log[i].id \in ClosedIn(unsent \cup sending \cup {batch})

\* The time a preview was open counts in full, unless its events are in doubt
\* or were not stored when the room was completed.
ViewingCounts ==
  Finished /\ doubtful = {} /\ overdue = {} => \A p \in Attendee :
    Counted(viewing, p) \subseteq UnitsIn(PreviewIntervals(p))

\* What the events say of a player's time is what happened: time in the room and
\* open previews count once and in full, absence does not, although events are
\* stored late, in another order, or twice.
PresenceInv ==
  /\ PresenceTypeOK
  /\ MeasureIsUnion
  /\ PresenceCounts
  /\ AbsenceDoesNotCount
  /\ PreviewsAreAccountedFor
  /\ ViewingCounts
=============================================================================
