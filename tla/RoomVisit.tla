----------------------------- MODULE RoomVisit -----------------------------
(***************************************************************************)
(* One visit of a room page: the boot (player, snapshot, canvas, socket),  *)
(* the messages of the room, the statistics of the canvas, the saving of   *)
(* the profile, the polling of the result, and leaving at any of these     *)
(* moments.  The room is its number of placed pieces, its pause and its    *)
(* result; the other commands of the player change nothing here and are    *)
(* left out, as are the chat, the preview and the highlight.               *)
(***************************************************************************)
EXTENDS Naturals, Sequences

CONSTANTS
  Total,     \* the pieces of the puzzle
  MaxInbox,  \* bound: messages on their way to the client
  MaxRevision,   \* bound: announcements, before pieces go off the board again
  NoStats

ASSUME TotalAssumption == Total \in Nat \ {0}
ASSUME NoStatsAssumption == NoStats \notin 0..Total

VARIABLES
  isDevelopment,        \* a development build, which may play without a room
  bootAt,               \* the await that boot is at, or "done"
  left,
  shown,                \* the published RoomVisitState
  canvasReady,
  developmentFallback,
  restoreFailed,        \* restoreFailure # null
  authority,            \* the placed pieces of authoritativeStats
  stored,               \* the stored session is the current one
  saves,                \* profile saves in flight
  fetches,              \* fetches of the result in flight
  retryTimer,           \* resultTimer # null
  ticking,              \* timerInterval # null
  canvas,               \* the canvas and the puzzle it holds
  drag,                 \* the drag of the player: overtaken once pieces it holds
                        \* have been placed by the room
  undone,               \* a drag has taken placed pieces off the canvas
  socket,
  inbox,                \* messages of the room, in order
  asked,                \* room:join and room:request_state on their way
  room                  \* the room on the server

visitVars == <<isDevelopment, bootAt, left, shown, canvasReady,
               developmentFallback, restoreFailed, authority, stored, saves,
               fetches, retryTimer, ticking, canvas, drag, undone, socket, inbox,
               asked, room>>
bootVars == <<isDevelopment, bootAt, canvasReady, developmentFallback>>
resultVars == <<fetches, retryTimer>>
dragVars == <<drag, undone>>
serverVars == <<socket, inbox, asked, room>>

VisitTypeOK ==
  /\ isDevelopment \in BOOLEAN /\ left \in BOOLEAN /\ canvasReady \in BOOLEAN
  /\ developmentFallback \in BOOLEAN /\ restoreFailed \in BOOLEAN
  /\ stored \in BOOLEAN /\ retryTimer \in BOOLEAN /\ ticking \in BOOLEAN
  /\ bootAt \in {"queued", "session", "snapshot", "app", "texture", "started",
                 "done"}
  /\ shown \in [phase: {"starting", "active", "degraded", "failed"},
                session: {"local", "restoring", "saved", "saving", "offline", "error"},
                connection: {"connecting", "connected", "disabled",
                             "disconnected", "unavailable"},
                paused: BOOLEAN, placed: 0..Total,
                source: {"optimistic", "reconciled"}, solved: BOOLEAN,
                revision: Nat, result: {"idle", "loading", "ready"}]
  /\ authority \in 0..Total \cup {NoStats}
  /\ saves \in Nat /\ fetches \in Nat /\ asked \in Nat
  /\ canvas \in [status: {"none", "app", "live"}, placed: 0..Total]
  /\ drag \in {"none", "held", "overtaken"} /\ undone \in BOOLEAN
  /\ socket \in {"none", "connecting", "open", "closed"}
  /\ inbox \in Seq([type: {"state", "patch", "stats", "paused", "resumed",
                           "player", "fatal", "error"},
                    placed: 0..Total, paused: BOOLEAN])
  /\ room \in [placed: 0..Total, paused: BOOLEAN, joined: BOOLEAN, result: BOOLEAN]

-----------------------------------------------------------------------------
(***************************************************************************)
(* What the visit publishes.                                               *)
(***************************************************************************)
ConnectionFailed(view) ==
  view.connection \in {"disabled", "disconnected", "unavailable"}

\* publishPhase, once the canvas is there: failures that are left to tell.
WithPhase(view, failed) ==
  [view EXCEPT !.phase = IF failed \/ ConnectionFailed(view) \/ developmentFallback
                         THEN "degraded" ELSE "active"]
WithPhaseIfReady(view, failed) ==
  IF canvasReady THEN WithPhase(view, failed) ELSE view

\* applyStats: the completion is announced once the room itself has told it.
WithStats(view, placed, source, announce) ==
  LET solved == placed = Total
      announced == announce /\ solved
                   /\ (~view.solved \/ view.source = "optimistic")
  IN  [view EXCEPT !.placed = placed, !.source = source, !.solved = solved,
                   !.revision = IF announced THEN @ + 1 ELSE @]

\* applyCanvasStats: what the canvas holds is reconciled if the room says so too.
CanvasSource(placed) == IF placed = authority THEN "reconciled" ELSE "optimistic"
WithCanvasStats(view, placed) ==
  IF view.placed = placed /\ view.source = CanvasSource(placed) THEN view
  ELSE WithStats(view, placed, CanvasSource(placed),
                 canvasReady /\ developmentFallback)

\* startResultPolling: one series of fetches, from the first time it is due.
\* Mutant: only the timer tells that polling has started.
PollingStartsAgain(view, due) == due /\ ~developmentFallback /\ ~retryTimer
PollingStarts(view, due) ==
  due /\ ~developmentFallback /\ ~retryTimer /\ view.result = "idle"
PublishAndPoll(view, due) ==
  /\ shown' = IF PollingStarts(view, due) THEN [view EXCEPT !.result = "loading"]
              ELSE view
  /\ fetches' = IF PollingStarts(view, due) THEN fetches + 1 ELSE fetches
  /\ UNCHANGED retryTimer

\* The statistics that the canvas emits.
EmitStats(placed) ==
  LET view == WithCanvasStats(shown, placed)
  IN  PublishAndPoll(view, view # shown /\ view.solved /\ view.source = "reconciled")

-----------------------------------------------------------------------------
VisitInit ==
  /\ isDevelopment \in BOOLEAN
  /\ bootAt = "queued" /\ left = FALSE /\ canvasReady = FALSE
  /\ developmentFallback = FALSE
  /\ restoreFailed \in BOOLEAN   \* the stored session may not be readable
  /\ stored = ~restoreFailed
  /\ shown = [phase |-> "starting", connection |-> "connecting",
              session |-> IF restoreFailed THEN "offline" ELSE "local",
              paused |-> FALSE, placed |-> 0, source |-> "optimistic",
              solved |-> FALSE, revision |-> 0, result |-> "idle"]
  /\ authority = NoStats
  /\ saves = 0 /\ fetches = 0 /\ retryTimer = FALSE /\ ticking = TRUE
  /\ canvas = [status |-> "none", placed |-> 0] /\ drag = "none" /\ undone = FALSE
  /\ socket = "none" /\ inbox = <<>> /\ asked = 0
  /\ room \in [placed: 0..Total, paused: BOOLEAN, joined: {FALSE}, result: {FALSE}]

\* persistSession tells whether the browser has stored the session.
SavedOrOffline(persisted) == IF persisted THEN "saved" ELSE "offline"

\* failVisit.
FailVisit ==
  /\ ticking' = FALSE
  /\ shown' = [shown EXCEPT !.phase = "failed"]

\* boot starts in a microtask after the page has entered the visit.
Boot ==
  /\ bootAt = "queued"
  /\ \/ left /\ bootAt' = "done" /\ UNCHANGED <<shown, ticking>>
     \/ ~left /\ bootAt' = "done" /\ FailVisit   \* no room in the link
     \/ /\ ~left /\ bootAt' = "session"
        /\ shown' = [shown EXCEPT !.session = "restoring"]
        /\ UNCHANGED ticking
  /\ UNCHANGED <<isDevelopment, left, canvasReady, developmentFallback, canvas,
                 dragVars, restoreFailed, authority, stored, saves, resultVars,
                 serverVars>>

\* restoreSession has answered: persisted tells whether the browser stored it.
RestorePlayer ==
  /\ bootAt = "session"
  /\ \/ left /\ bootAt' = "done" /\ UNCHANGED <<shown, restoreFailed, stored>>
     \/ /\ ~left /\ bootAt' = "snapshot"
        /\ \/ \E persisted \in BOOLEAN :
                /\ stored' = persisted /\ restoreFailed' = ~persisted
                /\ shown' = [shown EXCEPT !.session = SavedOrOffline(persisted)]
           \/ /\ restoreFailed' = TRUE /\ UNCHANGED stored
              /\ shown' = [shown EXCEPT !.session = "offline"]
  /\ UNCHANGED <<isDevelopment, left, canvasReady, developmentFallback, canvas,
                 dragVars, ticking, authority, saves, resultVars, serverVars>>

\* fetchSnapshot has answered.
LoadSnapshot ==
  /\ bootAt = "snapshot"
  /\ \/ left /\ bootAt' = "done"
        /\ UNCHANGED <<shown, authority, canvas, ticking, developmentFallback>>
     \/ /\ ~left /\ bootAt' = "app" /\ authority' = room.placed
        /\ shown' = [WithStats(shown, room.placed, "reconciled", FALSE)
                       EXCEPT !.paused = room.paused]
        /\ canvas' = [canvas EXCEPT !.placed = room.placed]
        /\ UNCHANGED <<ticking, developmentFallback>>
     \/ /\ ~left /\ isDevelopment /\ bootAt' = "app" /\ developmentFallback' = TRUE
        /\ UNCHANGED <<shown, authority, canvas, ticking>>
     \/ /\ ~left /\ ~isDevelopment /\ bootAt' = "done" /\ FailVisit
        /\ UNCHANGED <<authority, canvas, developmentFallback>>
  /\ UNCHANGED <<isDevelopment, left, canvasReady, restoreFailed, stored, saves,
                 resultVars, serverVars, dragVars>>

\* createJigsawRoomCanvas throws after releasing what it has acquired.
\* Mutant: the page is told although it has gone.
CanvasFailsLoudly ==
  /\ canvas' = [canvas EXCEPT !.status = "none"]
  /\ bootAt' = "done"
  /\ FailVisit
CanvasFails ==
  /\ canvas' = [canvas EXCEPT !.status = "none"]
  /\ bootAt' = "done"
  /\ IF left THEN UNCHANGED <<shown, ticking>> ELSE FailVisit

\* The application has started, and the image is loaded next.
StartCanvas ==
  /\ bootAt = "app"
  /\ \/ CanvasFails
     \/ /\ ~left /\ bootAt' = "texture"
        /\ canvas' = [canvas EXCEPT !.status = "app"]
        /\ UNCHANGED <<shown, ticking>>
  /\ UNCHANGED <<isDevelopment, left, canvasReady, developmentFallback,
                 restoreFailed, authority, stored, saves, resultVars,
                 serverVars, dragVars>>

\* The image has arrived: the rest of the canvas is built in one go.
BuildCanvas ==
  /\ bootAt = "texture"
  /\ \/ CanvasFails /\ UNCHANGED resultVars
     \/ /\ ~left /\ bootAt' = "started"
        /\ canvas' = [canvas EXCEPT !.status = "live"]
        /\ EmitStats(canvas.placed)
        /\ UNCHANGED ticking
  /\ UNCHANGED <<isDevelopment, left, canvasReady, developmentFallback,
                 restoreFailed, authority, stored, saves, serverVars, dragVars>>

\* boot takes the canvas and opens the socket: the client is disabled without
\* an address, and the constructor may throw.
EnterRoom ==
  /\ bootAt = "started" /\ bootAt' = "done"
  /\ IF left
     THEN /\ canvas' = [canvas EXCEPT !.status = "none"]
          /\ UNCHANGED <<shown, canvasReady, resultVars, socket>>
     ELSE /\ canvasReady' = TRUE
          /\ \E opened \in {"connecting", "disabled", "unavailable"} :
               LET counted == WithCanvasStats(shown, canvas.placed)
                   view == WithPhase([counted EXCEPT !.connection = opened],
                                     restoreFailed)
               IN  /\ PublishAndPoll(view, view.solved)
                   /\ socket' = IF opened = "connecting" THEN opened ELSE socket
          /\ UNCHANGED canvas
  /\ UNCHANGED <<isDevelopment, left, developmentFallback, restoreFailed,
                 ticking, authority, stored, saves, inbox, asked, room,
                 dragVars>>

-----------------------------------------------------------------------------
(***************************************************************************)
(* The socket and its messages.                                            *)
(***************************************************************************)
WithConnection(status) ==
  WithPhase([shown EXCEPT !.connection = status], restoreFailed)

Opens ==
  /\ socket = "connecting" /\ socket' = "open"
  /\ shown' = WithConnection("connected")
  /\ asked' = asked + 1
  /\ UNCHANGED <<bootVars, resultVars, left, restoreFailed, authority, stored,
                 saves, ticking, canvas, dragVars, inbox, room>>

\* The connection is lost for good: the client does not connect again.
Closes ==
  /\ socket \in {"connecting", "open"} /\ socket' = "closed"
  /\ shown' = WithConnection(IF socket = "open" THEN "disconnected"
                             ELSE "unavailable")
  /\ inbox' = <<>> /\ asked' = 0
  /\ UNCHANGED <<bootVars, resultVars, left, restoreFailed, authority, stored,
                 saves, ticking, canvas, dragVars, room>>

\* applyStatePatch: a patch puts its own pieces in place, not the others that a
\* drag has taken off.
PlacedByPatch(placed) ==
  {placed} \cup (IF undone THEN {p \in 0..placed : p > canvas.placed} ELSE {})

\* What the canvas makes of a drag: a pause, and the error that tells of one,
\* cancel it; it goes on over the pieces that the room has placed meanwhile.
DragAfter(message) ==
  CASE message.type = "paused" -> {"none"}
    [] message.type = "state" /\ message.paused -> {"none"}
    [] message.type = "error" -> {drag, "none"}
    [] message.type \in {"patch", "state"} /\ ~message.paused /\ drag = "held"
         /\ message.placed > 0 -> {"held", "overtaken"}
    [] OTHER -> {drag}

\* applyServerMessage, after the canvas has applied the message.
Apply(message) ==
  CASE message.type = "state" ->
         /\ authority' = message.placed
         /\ canvas' = [canvas EXCEPT !.placed = message.placed]
         /\ LET view == [WithStats(shown, message.placed, "reconciled", TRUE)
                           EXCEPT !.paused = message.paused]
            IN  PublishAndPoll(view, view.solved /\ canvasReady)
         /\ UNCHANGED <<asked, restoreFailed, stored>>
    [] message.type = "stats" ->
         /\ authority' = message.placed
         /\ LET view == WithStats(shown, message.placed, "reconciled", TRUE)
            IN  PublishAndPoll(view, view.solved)
         /\ UNCHANGED <<asked, restoreFailed, stored, canvas>>
    [] message.type = "patch" ->
         /\ \E placed \in PlacedByPatch(message.placed) :
              canvas' = [canvas EXCEPT !.placed = placed]
         /\ UNCHANGED <<asked, restoreFailed, stored, authority, shown, resultVars>>
    [] message.type = "paused" ->
         /\ shown' = [shown EXCEPT !.paused = TRUE] /\ asked' = asked + 1
         /\ UNCHANGED <<restoreFailed, stored, authority, canvas, resultVars>>
    [] message.type = "resumed" ->
         /\ shown' = [shown EXCEPT !.paused = FALSE]
         /\ UNCHANGED <<asked, restoreFailed, stored, authority, canvas, resultVars>>
    [] message.type = "player" ->
         /\ \E persisted \in BOOLEAN :
              /\ stored' = persisted /\ restoreFailed' = ~persisted
              /\ shown' = WithPhaseIfReady(
                   [shown EXCEPT !.session = IF saves > 0 THEN "saving"
                                             ELSE SavedOrOffline(persisted)], ~persisted)
         /\ UNCHANGED <<asked, authority, canvas, resultVars>>
    [] message.type = "fatal" ->
         /\ shown' = [shown EXCEPT !.connection = "unavailable",
                                   !.phase = IF canvasReady THEN "degraded"
                                             ELSE "failed"]
         /\ UNCHANGED <<asked, restoreFailed, stored, authority, canvas, resultVars>>
    [] message.type = "error" ->
         /\ asked' = asked + 1
         /\ UNCHANGED <<shown, restoreFailed, stored, authority, canvas, resultVars>>

Receive ==
  /\ socket = "open" /\ inbox # <<>>
  /\ Apply(Head(inbox))
  /\ drag' \in DragAfter(Head(inbox))
  /\ inbox' = Tail(inbox)
  /\ UNCHANGED <<bootVars, left, saves, ticking, undone, socket, room>>

-----------------------------------------------------------------------------
(***************************************************************************)
(* The canvas: the player drags a group, which snaps here alone while      *)
(* there is no connection, and a ticker emits the statistics.  With a      *)
(* connection the drop is told to the room, whose messages change the      *)
(* canvas; a group being dragged is no longer placed here, whatever the    *)
(* room has made of it (moveGroupFromSnapshot).                            *)
(***************************************************************************)
onlyCanvas == UNCHANGED <<bootVars, left, restoreFailed, authority, stored, saves,
                          ticking, serverVars>>

PickUp ==
  /\ canvas.status = "live" /\ ~left /\ ~shown.paused
  /\ drag = "none" /\ canvas.placed < Total   \* placed pieces are locked
  /\ drag' = "held"
  /\ onlyCanvas /\ UNCHANGED <<resultVars, shown, canvas, undone>>

DragOn ==
  /\ drag = "overtaken" /\ ~left /\ shown.revision < MaxRevision
  /\ drag' = "held"
  /\ \E placed \in {p \in 0..Total : p < canvas.placed} :
       canvas' = [canvas EXCEPT !.placed = placed]
  /\ undone' = TRUE
  /\ onlyCanvas /\ UNCHANGED <<resultVars, shown>>

\* stopDrag without a snap, and cancelDrag, which need not tell anyone.
PutDown ==
  /\ drag # "none" /\ ~left /\ drag' = "none"
  /\ EmitStats(canvas.placed) \/ UNCHANGED <<resultVars, shown>>
  /\ onlyCanvas /\ UNCHANGED <<canvas, undone>>

SnapAlone ==
  /\ drag # "none" /\ ~left /\ socket # "open" /\ drag' = "none"
  /\ \E placed \in {p \in 0..Total : p > canvas.placed} :
       /\ canvas' = [canvas EXCEPT !.placed = placed]
       /\ EmitStats(placed)
  /\ onlyCanvas /\ UNCHANGED undone

\* quickSolve, which only a development build offers.
QuickSolve ==
  /\ canvasReady /\ isDevelopment /\ ~left /\ drag' = "none"
  /\ shown.revision < MaxRevision
  /\ canvas' = [canvas EXCEPT !.placed = Total]
  /\ EmitStats(Total)
  /\ onlyCanvas /\ UNCHANGED undone

EmitTick ==
  /\ canvas.status = "live" /\ ~left
  /\ WithCanvasStats(shown, canvas.placed) # shown
  /\ EmitStats(canvas.placed)
  /\ UNCHANGED <<bootVars, left, restoreFailed, authority, stored, saves,
                 ticking, canvas, dragVars, serverVars>>

-----------------------------------------------------------------------------
(***************************************************************************)
(* The profile and the result.                                             *)
(***************************************************************************)
\* availability.saveProfile; nothing is available before the first publish.
CanSaveProfile ==
  ~left /\ bootAt # "queued" /\ shown.session \notin {"restoring", "saving"}

SaveProfile ==
  /\ CanSaveProfile
  /\ saves' = saves + 1
  /\ shown' = [shown EXCEPT !.session = "saving"]
  /\ UNCHANGED <<bootVars, resultVars, left, restoreFailed, authority, stored,
                 ticking, canvas, dragVars, serverVars>>

ProfileSaved ==
  /\ saves > 0 /\ saves' = saves - 1
  /\ IF left THEN UNCHANGED <<shown, stored, restoreFailed>>
     ELSE \/ \E persisted \in BOOLEAN :
               /\ stored' = persisted /\ restoreFailed' = ~persisted
               /\ shown' = WithPhaseIfReady(
                    [shown EXCEPT !.session = SavedOrOffline(persisted)], ~persisted)
          \/ /\ shown' = [shown EXCEPT !.session = "error"]
             /\ UNCHANGED <<stored, restoreFailed>>
  /\ UNCHANGED <<bootVars, resultVars, left, authority, ticking, canvas,
                 dragVars, serverVars>>

\* A fetch brings the result once the room has one.
ResultReady ==
  /\ fetches > 0 /\ fetches' = fetches - 1
  /\ ~left /\ room.result
  /\ shown' = [shown EXCEPT !.result = "ready"]
  /\ UNCHANGED <<bootVars, left, restoreFailed, authority, stored, saves,
                 ticking, retryTimer, canvas, dragVars, serverVars>>

\* scheduleResultRetry. Mutant: nothing is scheduled.
RetriesNever == FALSE
Retries == ~left

\* It fails, finds no result yet, or ends after the visit.
ResultPending ==
  /\ fetches > 0 /\ fetches' = fetches - 1
  /\ retryTimer' = Retries
  /\ UNCHANGED <<bootVars, left, shown, restoreFailed, authority, stored, saves,
                 ticking, canvas, dragVars, serverVars>>

RetryResult ==
  /\ retryTimer /\ retryTimer' = FALSE
  /\ fetches' = fetches + 1
  /\ UNCHANGED <<bootVars, left, shown, restoreFailed, authority, stored, saves,
                 ticking, canvas, dragVars, serverVars>>

Leave ==
  /\ ~left /\ left' = TRUE
  /\ ticking' = FALSE /\ retryTimer' = FALSE
  /\ socket' = IF socket \in {"connecting", "open"} THEN "closed" ELSE socket
  /\ inbox' = <<>> /\ asked' = 0
  /\ canvas' = IF canvasReady THEN [canvas EXCEPT !.status = "none"] ELSE canvas
  /\ drag' = "none"
  /\ UNCHANGED <<bootVars, shown, restoreFailed, authority, stored, saves, fetches,
                 undone, room>>

-----------------------------------------------------------------------------
(***************************************************************************)
(* The room on the server, as the socket of this visit shows it.  What it  *)
(* does by itself is bounded by MaxInbox.                                  *)
(***************************************************************************)
Message(type) == [type |-> type, placed |-> room'.placed, paused |-> room'.paused]
Tells(types) ==
  inbox' = IF room.joined /\ socket = "open"
           THEN inbox \o [k \in DOMAIN types |-> Message(types[k])] ELSE inbox
RoomActs(types) ==
  /\ Len(inbox) + asked < MaxInbox
  /\ Tells(types)
  /\ UNCHANGED <<bootVars, resultVars, left, shown, restoreFailed, authority,
                 stored, saves, ticking, canvas, dragVars, socket, asked>>

RoomSnaps == /\ room.placed < Total /\ ~room.paused
             /\ room' = [room EXCEPT !.placed = @ + 1]
             /\ RoomActs(<<"patch", "stats">>)
RoomPauses == room' = [room EXCEPT !.paused = ~@]
              /\ RoomActs(<<IF room.paused THEN "resumed" ELSE "paused">>)
RoomUpdatesPlayer == room.joined /\ UNCHANGED room /\ RoomActs(<<"player">>)
RoomErrs == room.joined /\ UNCHANGED room /\ RoomActs(<<"error">>)
RoomFinalizes == /\ room.placed = Total /\ ~room.result
                 /\ room' = [room EXCEPT !.result = TRUE]
                 /\ UNCHANGED <<bootVars, resultVars, left, shown, restoreFailed,
                                authority, stored, saves, ticking, canvas,
                                dragVars, socket, inbox, asked>>

\* The join is answered by the state or refused; later requests by the state.
RoomAnswers ==
  /\ asked > 0 /\ asked' = asked - 1
  /\ \/ /\ room' = [room EXCEPT !.joined = TRUE]
        /\ inbox' = Append(inbox, Message("state"))
     \/ /\ ~room.joined /\ UNCHANGED room
        /\ inbox' = Append(inbox, Message("fatal"))
  /\ UNCHANGED <<bootVars, resultVars, left, shown, restoreFailed, authority,
                 stored, saves, ticking, canvas, dragVars, socket>>

VisitNext ==
  \/ Boot \/ RestorePlayer \/ LoadSnapshot \/ StartCanvas \/ BuildCanvas
  \/ EnterRoom \/ Opens \/ Closes \/ Receive \/ PickUp \/ DragOn \/ PutDown
  \/ SnapAlone \/ QuickSolve \/ EmitTick
  \/ SaveProfile \/ ProfileSaved \/ ResultReady \/ ResultPending \/ RetryResult
  \/ Leave \/ RoomSnaps \/ RoomPauses \/ RoomUpdatesPlayer \/ RoomErrs
  \/ RoomFinalizes \/ RoomAnswers

VisitSpec == VisitInit /\ [][VisitNext]_visitVars

\* What the browser and the server keep doing: awaits end, timers fire, and a
\* fetch that is repeated forever succeeds in the end.
VisitFairness ==
  /\ WF_visitVars(Boot) /\ WF_visitVars(RestorePlayer)
  /\ WF_visitVars(LoadSnapshot) /\ WF_visitVars(StartCanvas)
  /\ WF_visitVars(BuildCanvas) /\ WF_visitVars(EnterRoom)
  /\ WF_visitVars(ResultReady \/ ResultPending) /\ SF_visitVars(ResultReady)
  /\ WF_visitVars(RetryResult) /\ WF_visitVars(RoomFinalizes)

VisitFairSpec == VisitSpec /\ VisitFairness

-----------------------------------------------------------------------------
(***************************************************************************)
(* The visit is shown as active only while nothing that degrades it has    *)
(* happened: the player is restored and stored, and the socket is not lost *)
(* (publishPhase, applyConnectionStatus, persistSession).                  *)
(***************************************************************************)
ActiveIsHealthy ==
  shown.phase = "active" /\ ~left =>
    ~restoreFailed /\ stored /\ socket \in {"connecting", "open"}

(***************************************************************************)
(* The page tells that the profile is being saved exactly while a save is  *)
(* in flight, through updates of the player by others, so there is never a *)
(* second save (profileSavePending and availability.saveProfile).          *)
(***************************************************************************)
SavingIsShown ==
  ~left => /\ saves <= 1
           /\ shown.session = "saving" <=> saves = 1

\* A player shown as saved is the one that the browser has stored
\* (persistSession on restore, on player:updated and after a save).
SavedMeansStored == shown.session = "saved" /\ ~left => stored

(***************************************************************************)
(* Whatever the order of snapshot, state, patches, statistics and local    *)
(* snaps, the result is polled by one series of fetches, and it lives as   *)
(* long as the page waits (startResultPolling, scheduleResultRetry).       *)
(***************************************************************************)
OnePollLives ==
  ~left => (shown.result = "loading" <=> fetches + (IF retryTimer THEN 1 ELSE 0) = 1)

(***************************************************************************)
(* The completion is announced only when the room is solved, never for a   *)
(* snap that the canvas made on its own, and once (completionRevision),    *)
(* unless a drag of the player was overtaken by the room: dragged on, the  *)
(* pieces that the room has placed are off the board here, the ticker      *)
(* tells that the puzzle is not solved, and the next room:state announces  *)
(* the completion anew.                                                    *)
(***************************************************************************)
CompletionAnnouncedOnce ==
  ~isDevelopment => /\ shown.revision > 0 => room.placed = Total
                    /\ ~undone => shown.revision <= 1

(***************************************************************************)
(* After leave nothing of the visit stays: the timers are cleared, the     *)
(* socket is closed, and a canvas is there only while its creation is      *)
(* still to notice (leave, isCancelled, the check of left after the await).*)
(***************************************************************************)
NothingLeftBehind ==
  left => /\ ~ticking /\ ~retryTimer /\ socket \notin {"connecting", "open"}
          /\ canvas.status # "none" => bootAt \in {"texture", "started"}

\* A visit shows what it has: it is active only with a stored player and a live
\* socket, saves and polls one at a time, announces a completion once as long as
\* no drag is overtaken, and leaves nothing behind, wherever in the boot it is
\* left (room-visit.ts).
VisitInv ==
  /\ VisitTypeOK
  /\ ActiveIsHealthy
  /\ SavingIsShown
  /\ SavedMeansStored
  /\ OnePollLives
  /\ CompletionAnnouncedOnce
  /\ NothingLeftBehind

\* A visit that is over stays over: nothing is published once it has been left,
\* after whichever await, and one that has failed stays failed, whatever
\* arrives later (publish, fatalFailure).
OverIsOver ==
  [][/\ left => shown' = shown
     /\ shown.phase = "failed" => shown'.phase = "failed"]_visitVars

\* A solved room gets its result shown in the end, unless the player leaves.
ResultArrives ==
  (canvasReady /\ shown.solved /\ shown.source = "reconciled"
     /\ ~developmentFallback)
    ~> (shown.result = "ready" \/ left)
=============================================================================
