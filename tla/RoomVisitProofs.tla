-------------------------- MODULE RoomVisitProofs --------------------------
(***************************************************************************)
(* Proofs about RoomVisit: a visit shows what it has, leaves nothing       *)
(* behind, announces a completion once, and stays over, for every size of  *)
(* the puzzle and every number of messages under way.                      *)
(***************************************************************************)
EXTENDS RoomVisit, TLAPS

View == [phase: {"starting", "active", "degraded", "failed"},
         session: {"local", "restoring", "saved", "saving", "offline", "error"},
         connection: {"connecting", "connected", "disabled",
                      "disconnected", "unavailable"},
         paused: BOOLEAN, placed: 0..Total,
         source: {"optimistic", "reconciled"}, solved: BOOLEAN,
         revision: Nat, result: {"idle", "loading", "ready"}]
RoomMessage == [type: {"state", "patch", "stats", "paused", "resumed",
                       "player", "fatal", "error"},
                placed: 0..Total, paused: BOOLEAN]

\* How far the boot has come tells what there is of the canvas and the socket.
BootOrder ==
  /\ canvasReady => bootAt = "done"
  /\ socket # "none" => canvasReady
  /\ socket # "open" => inbox = <<>> /\ asked = 0
  /\ bootAt \in {"queued", "session", "snapshot", "app"} => canvas.status = "none"
  /\ bootAt = "done" /\ canvas.status # "none" => canvasReady /\ ~left
  /\ canvasReady => shown.phase \in {"active", "degraded"}
  /\ ~canvasReady => shown.phase \in {"starting", "failed"}
  /\ shown.phase = "failed" => bootAt = "done"

\* What a phase is computed from.
PhaseSources ==
  /\ ~restoreFailed => stored
  /\ canvasReady /\ ~left /\ ~ConnectionFailed(shown)
       => socket \in {"connecting", "open"}

\* Nothing is saved before the player is restored.
SavesWait ==
  /\ bootAt = "queued" => saves = 0
  /\ bootAt = "session" /\ ~left => shown.session = "restoring"

\* One series of fetches.
OneSeries ==
  ~left => /\ fetches + (IF retryTimer THEN 1 ELSE 0) <= 1
           /\ shown.result = "loading" <=> fetches > 0 \/ retryTimer

\* Once a message says that the room is solved, so does all that comes later;
\* the canvas hears of it before the statistics do.
SolvedMessages ==
  /\ \A i \in DOMAIN inbox : inbox[i].placed = Total => room.placed = Total
  /\ \A i, j \in DOMAIN inbox :
       i < j /\ inbox[i].placed = Total => inbox[j].placed = Total
  /\ ~undone => \A i \in DOMAIN inbox :
       inbox[i].type = "stats" /\ inbox[i].placed = Total =>
         IF i = 1 THEN canvas.placed = Total
         ELSE inbox[i - 1].type = "patch" /\ inbox[i - 1].placed = Total

\* What was announced is shown, and everything agrees with it, as long as no drag
\* has taken placed pieces off.
AnnouncedIsSettled ==
  /\ developmentFallback => isDevelopment
  /\ ~isDevelopment /\ shown.revision > 0 => canvasReady
  /\ ~isDevelopment /\ shown.revision > 0 /\ ~undone =>
       /\ shown.solved /\ shown.source = "reconciled" /\ shown.placed = Total
       /\ authority = Total /\ canvas.placed = Total
       /\ \A i \in DOMAIN inbox : inbox[i].placed = Total

\* The inductive invariant, in the parts that the actions disturb.
PhaseInv == BootOrder /\ PhaseSources /\ ActiveIsHealthy /\ NothingLeftBehind
SaveInv == SavingIsShown /\ SavedMeansStored /\ SavesWait
PollInv == OneSeries /\ OnePollLives
AnnounceInv == SolvedMessages /\ AnnouncedIsSettled /\ CompletionAnnouncedOnce
VisitIInv == VisitTypeOK /\ PhaseInv /\ SaveInv /\ PollInv /\ AnnounceInv

-----------------------------------------------------------------------------
(***************************************************************************)
(* What is published: the operators give a view, and change what they say. *)
(***************************************************************************)
LEMMA ViewFields ==
  ASSUME NEW view \in View
  PROVE  /\ \A x \in {"starting", "active", "degraded", "failed"} :
              [view EXCEPT !.phase = x] \in View
         /\ \A x \in {"local", "restoring", "saved", "saving", "offline", "error"} :
              [view EXCEPT !.session = x] \in View
         /\ \A x \in {"connecting", "connected", "disabled", "disconnected",
                      "unavailable"} : [view EXCEPT !.connection = x] \in View
         /\ \A x \in BOOLEAN : [view EXCEPT !.paused = x] \in View
         /\ \A x \in {"idle", "loading", "ready"} : [view EXCEPT !.result = x] \in View
BY DEF View

LEMMA PhaseView ==
  ASSUME NEW view \in View, NEW failed \in BOOLEAN, developmentFallback \in BOOLEAN
  PROVE  LET w == WithPhase(view, failed) IN
         /\ w \in View
         /\ w.phase = IF failed \/ ConnectionFailed(view) \/ developmentFallback
                      THEN "degraded" ELSE "active"
         /\ w.session = view.session /\ w.connection = view.connection
         /\ w.paused = view.paused /\ w.placed = view.placed /\ w.source = view.source
         /\ w.solved = view.solved /\ w.revision = view.revision
         /\ w.result = view.result
BY DEF View, WithPhase

LEMMA StatsView ==
  ASSUME NEW view \in View, NEW placed \in 0..Total,
         NEW source \in {"optimistic", "reconciled"}, NEW announce \in BOOLEAN
  PROVE  LET w == WithStats(view, placed, source, announce) IN
         /\ w \in View
         /\ w.phase = view.phase /\ w.session = view.session
         /\ w.connection = view.connection /\ w.paused = view.paused
         /\ w.result = view.result
         /\ w.placed = placed /\ w.source = source /\ w.solved = (placed = Total)
         /\ w.revision = IF announce /\ placed = Total
                             /\ (~view.solved \/ view.source = "optimistic")
                         THEN view.revision + 1 ELSE view.revision
<1> DEFINE w == WithStats(view, placed, source, announce)
           counted == [view EXCEPT !.placed = placed, !.source = source,
                                   !.solved = (placed = Total)]
           announced == announce /\ placed = Total
                        /\ (~view.solved \/ view.source = "optimistic")
<1>1. counted \in View
  BY DEF View
<1>2. w = [counted EXCEPT !.revision = IF announced THEN @ + 1 ELSE @]
  BY DEF WithStats, View
<1>3. (IF announced THEN counted.revision + 1 ELSE counted.revision) \in Nat
  BY <1>1 DEF View
<1> HIDE DEF announced
<1>4. w \in View
  <2> DEFINE n == IF announced THEN counted.revision + 1 ELSE counted.revision
  <2>1. n \in Nat /\ w = [counted EXCEPT !.revision = n]
    BY <1>2, <1>3
  <2> HIDE DEF n, w, counted
  <2>2. QED
    BY <1>1, <2>1 DEF View
<1>5. /\ w.phase = view.phase /\ w.session = view.session
      /\ w.connection = view.connection /\ w.paused = view.paused
      /\ w.result = view.result
      /\ w.placed = placed /\ w.source = source /\ w.solved = (placed = Total)
  BY <1>2 DEF View
<1>6. w.revision = IF announced THEN view.revision + 1 ELSE view.revision
  BY <1>2, <1>3 DEF View
<1>7. QED
  BY <1>4, <1>5, <1>6 DEF announced

\* The statistics of the canvas announce nothing outside of development, and
\* leave alone what agrees with them.
LEMMA CanvasStatsView ==
  ASSUME VisitTypeOK, NEW placed \in 0..Total
  PROVE  LET w == WithCanvasStats(shown, placed) IN
         /\ w \in View
         /\ w.phase = shown.phase /\ w.session = shown.session
         /\ w.connection = shown.connection /\ w.paused = shown.paused
         /\ w.result = shown.result
         /\ ~developmentFallback => w.revision = shown.revision
         /\ shown.placed = placed /\ shown.source = CanvasSource(placed) => w = shown
<1>1. shown \in View /\ developmentFallback \in BOOLEAN /\ canvasReady \in BOOLEAN
  BY DEF VisitTypeOK, View
<1>2. CanvasSource(placed) \in {"optimistic", "reconciled"}
  BY DEF CanvasSource
<1>3. (canvasReady /\ developmentFallback) \in BOOLEAN
  BY <1>1
<1> DEFINE announce == canvasReady /\ developmentFallback
<1>4. CASE shown.placed = placed /\ shown.source = CanvasSource(placed)
  BY <1>1, <1>4 DEF WithCanvasStats
<1>5. CASE ~(shown.placed = placed /\ shown.source = CanvasSource(placed))
  <2>1. WithCanvasStats(shown, placed)
          = WithStats(shown, placed, CanvasSource(placed), announce)
    BY <1>5 DEF WithCanvasStats
  <2>2. announce \in BOOLEAN
    BY <1>3
  <2> HIDE DEF announce
  <2>3. QED
    BY <1>1, <1>2, <1>5, <2>1, <2>2, StatsView DEF announce
<1>6. QED
  BY <1>4, <1>5

\* A publication that may start the polling.
LEMMA PublishKeepsPolling ==
  ASSUME VisitTypeOK, PollInv, NEW view \in View, view.result = shown.result,
         NEW due, PublishAndPoll(view, due), UNCHANGED left
  PROVE  /\ shown' \in View
         /\ shown'.phase = view.phase /\ shown'.session = view.session
         /\ shown'.connection = view.connection /\ shown'.paused = view.paused
         /\ shown'.placed = view.placed /\ shown'.source = view.source
         /\ shown'.solved = view.solved /\ shown'.revision = view.revision
         /\ fetches' \in Nat /\ retryTimer' \in BOOLEAN
         /\ PollInv'
<1>1. CASE PollingStarts(view, due)
  <2>1. /\ shown' = [view EXCEPT !.result = "loading"] /\ fetches' = fetches + 1
        /\ retryTimer' = retryTimer
    BY <1>1 DEF PublishAndPoll
  <2>2. ~retryTimer /\ shown.result = "idle"
    BY <1>1 DEF PollingStarts
  <2>3. /\ shown' \in View /\ shown'.result = "loading"
        /\ shown'.phase = view.phase /\ shown'.session = view.session
        /\ shown'.connection = view.connection /\ shown'.paused = view.paused
        /\ shown'.placed = view.placed /\ shown'.source = view.source
        /\ shown'.solved = view.solved /\ shown'.revision = view.revision
    <3>1. shown' \in View
      BY <2>1, ViewFields
    <3>2. QED
      BY <2>1, <3>1 DEF View
  <2>4. QED
    BY <2>1, <2>2, <2>3 DEF VisitTypeOK, View, PollInv, OneSeries, OnePollLives
<1>2. CASE ~PollingStarts(view, due)
  <2>1. shown' = view /\ fetches' = fetches /\ retryTimer' = retryTimer
    BY <1>2 DEF PublishAndPoll
  <2>2. QED
    BY <2>1 DEF VisitTypeOK, PollInv, OneSeries, OnePollLives
<1>3. QED
  BY <1>1, <1>2

LEMMA EmitKeeps ==
  ASSUME VisitTypeOK, PollInv, NEW placed \in 0..Total, EmitStats(placed),
         UNCHANGED left
  PROVE  /\ shown' \in View
         /\ shown'.phase = shown.phase /\ shown'.session = shown.session
         /\ shown'.connection = shown.connection /\ shown'.paused = shown.paused
         /\ ~developmentFallback => shown'.revision = shown.revision
         /\ shown.placed = placed /\ shown.source = CanvasSource(placed)
              => /\ shown'.placed = shown.placed /\ shown'.source = shown.source
                 /\ shown'.solved = shown.solved
         /\ fetches' \in Nat /\ retryTimer' \in BOOLEAN
         /\ PollInv'
<1> DEFINE view == WithCanvasStats(shown, placed)
           due == view # shown /\ view.solved /\ view.source = "reconciled"
<1>1. /\ view \in View
      /\ view.phase = shown.phase /\ view.session = shown.session
      /\ view.connection = shown.connection /\ view.paused = shown.paused
      /\ view.result = shown.result
      /\ ~developmentFallback => view.revision = shown.revision
      /\ shown.placed = placed /\ shown.source = CanvasSource(placed) => view = shown
  BY CanvasStatsView
<1>2. PublishAndPoll(view, due)
  BY DEF EmitStats
<1> HIDE DEF view, due
<1>3. QED
  BY <1>1, <1>2, PublishKeepsPolling

-----------------------------------------------------------------------------
(* Booting *)

LEMMA ReadyPhaseView ==
  ASSUME VisitTypeOK, NEW view \in View, NEW failed \in BOOLEAN
  PROVE  LET w == WithPhaseIfReady(view, failed) IN
         /\ w \in View
         /\ canvasReady => w.phase = IF failed \/ ConnectionFailed(view) \/ developmentFallback
                                     THEN "degraded" ELSE "active"
         /\ ~canvasReady => w.phase = view.phase
         /\ w.session = view.session /\ w.connection = view.connection
         /\ w.paused = view.paused /\ w.placed = view.placed /\ w.source = view.source
         /\ w.solved = view.solved /\ w.revision = view.revision
         /\ w.result = view.result
<1>1. developmentFallback \in BOOLEAN /\ canvasReady \in BOOLEAN
  BY DEF VisitTypeOK
<1>2. CASE canvasReady
  BY <1>1, <1>2, PhaseView DEF WithPhaseIfReady
<1>3. CASE ~canvasReady
  BY <1>3 DEF WithPhaseIfReady
<1>4. QED
  BY <1>2, <1>3

LEMMA ShownView == ASSUME VisitTypeOK PROVE shown \in View
BY DEF VisitTypeOK, View

\* The visit fails before the canvas is there.
LEMMA FailView ==
  ASSUME VisitTypeOK, FailVisit
  PROVE  /\ shown' \in View /\ ticking' = FALSE
         /\ shown'.phase = "failed" /\ shown'.session = shown.session
         /\ shown'.connection = shown.connection /\ shown'.paused = shown.paused
         /\ shown'.placed = shown.placed /\ shown'.source = shown.source
         /\ shown'.solved = shown.solved /\ shown'.revision = shown.revision
         /\ shown'.result = shown.result
<1>1. shown \in View /\ shown' = [shown EXCEPT !.phase = "failed"]
  BY ShownView DEF FailVisit
<1>2. shown' \in View
  BY <1>1, ViewFields
<1>3. QED
  BY <1>1, <1>2 DEF View, FailVisit

\* A publication of the session only.
LEMMA SessionView ==
  ASSUME VisitTypeOK,
         NEW x \in {"local", "restoring", "saved", "saving", "offline", "error"},
         shown' = [shown EXCEPT !.session = x]
  PROVE  /\ shown' \in View /\ shown'.session = x
         /\ shown'.phase = shown.phase
         /\ shown'.connection = shown.connection /\ shown'.paused = shown.paused
         /\ shown'.placed = shown.placed /\ shown'.source = shown.source
         /\ shown'.solved = shown.solved /\ shown'.revision = shown.revision
         /\ shown'.result = shown.result
<1>1. shown \in View
  BY ShownView
<1>2. shown' \in View
  BY <1>1, ViewFields
<1>3. QED
  BY <1>1, <1>2 DEF View

LEMMA BootKeeps == ASSUME VisitIInv, Boot PROVE VisitIInv'
<1>1. /\ UNCHANGED <<isDevelopment, left, canvasReady, developmentFallback, canvas,
                     restoreFailed, authority, stored, saves, fetches, retryTimer,
                     socket, inbox, asked, room, drag, undone>>
      /\ bootAt = "queued" /\ bootAt' \in {"done", "session"} /\ VisitTypeOK
  BY DEF Boot, dragVars, resultVars, serverVars, VisitIInv
<1>2. /\ shown' \in View /\ ticking' \in BOOLEAN
      /\ shown'.connection = shown.connection /\ shown'.result = shown.result
      /\ shown'.placed = shown.placed /\ shown'.source = shown.source
      /\ shown'.solved = shown.solved /\ shown'.revision = shown.revision
      /\ \/ bootAt' = "done" /\ shown'.phase \in {shown.phase, "failed"}
            /\ shown'.session = shown.session
         \/ bootAt' = "session" /\ shown'.phase = shown.phase /\ shown'.session = "restoring"
      /\ left => shown' = shown /\ ticking' = ticking /\ bootAt' = "done"
  <2>1. CASE UNCHANGED <<shown, ticking>> /\ left /\ bootAt' = "done"
    BY <1>1, <2>1, ShownView DEF VisitTypeOK
  <2>2. CASE FailVisit /\ ~left /\ bootAt' = "done"
    BY <1>1, <2>2, FailView
  <2>3. CASE ~left /\ bootAt' = "session" /\ shown' = [shown EXCEPT !.session = "restoring"]
                   /\ UNCHANGED ticking
    BY <1>1, <2>3, SessionView DEF VisitTypeOK
  <2>4. QED
    BY <2>1, <2>2, <2>3 DEF Boot
<1>3. VisitTypeOK'
  BY <1>1, <1>2 DEF VisitTypeOK, View
<1>4. PhaseInv'
  BY <1>1, <1>2 DEF VisitIInv, PhaseInv, BootOrder, PhaseSources, ActiveIsHealthy,
                    NothingLeftBehind, ConnectionFailed
<1>5. SaveInv'
  BY <1>1, <1>2 DEF VisitIInv, SaveInv, SavingIsShown, SavedMeansStored, SavesWait
<1>6. (PollInv /\ AnnounceInv)'
  BY <1>1, <1>2 DEF VisitIInv, PollInv, OneSeries, OnePollLives, AnnounceInv,
                    SolvedMessages, AnnouncedIsSettled, CompletionAnnouncedOnce
<1>7. QED
  BY <1>3, <1>4, <1>5, <1>6 DEF VisitIInv

LEMMA RestorePlayerKeeps == ASSUME VisitIInv, RestorePlayer PROVE VisitIInv'
<1>1. /\ UNCHANGED <<isDevelopment, left, canvasReady, developmentFallback, canvas,
                     ticking, authority, saves, fetches, retryTimer, socket, inbox,
                     asked, room, drag, undone>>
      /\ bootAt = "session" /\ bootAt' \in {"done", "snapshot"} /\ VisitTypeOK
      /\ left => UNCHANGED <<shown, restoreFailed, stored>> /\ bootAt' = "done"
      /\ ~left => bootAt' = "snapshot"
  BY DEF RestorePlayer, dragVars, resultVars, serverVars, VisitIInv
<1> DEFINE told == /\ shown' \in View /\ stored' \in BOOLEAN /\ restoreFailed' \in BOOLEAN
                   /\ shown'.phase = shown.phase
                   /\ shown'.session \in {"saved", "offline"}
                   /\ shown'.session = "saved" => stored'
                   /\ ~restoreFailed' => stored'
                   /\ shown'.connection = shown.connection /\ shown'.result = shown.result
                   /\ shown'.placed = shown.placed /\ shown'.source = shown.source
                   /\ shown'.solved = shown.solved /\ shown'.revision = shown.revision
<1>2. ~left => told
  <2>1. ASSUME NEW persisted \in BOOLEAN, stored' = persisted, restoreFailed' = ~persisted,
               shown' = [shown EXCEPT !.session = SavedOrOffline(persisted)]
        PROVE  told
    <3>1. SavedOrOffline(persisted) = IF persisted THEN "saved" ELSE "offline"
      BY DEF SavedOrOffline
    <3>2. QED
      BY <1>1, <2>1, <3>1, SessionView
  <2>2. ASSUME restoreFailed' = TRUE, UNCHANGED stored,
               shown' = [shown EXCEPT !.session = "offline"]
        PROVE  told
    BY <1>1, <2>2, SessionView DEF VisitTypeOK
  <2> HIDE DEF told
  <2>3. QED
    BY <1>1, <2>1, <2>2 DEF RestorePlayer
<1>3. VisitTypeOK'
  BY <1>1, <1>2 DEF VisitTypeOK, View
<1>4. PhaseInv'
  BY <1>1, <1>2 DEF VisitIInv, PhaseInv, BootOrder, PhaseSources, ActiveIsHealthy,
                    NothingLeftBehind, ConnectionFailed
<1>5. SaveInv'
  BY <1>1, <1>2 DEF VisitIInv, VisitTypeOK, SaveInv, SavingIsShown, SavedMeansStored,
                    SavesWait
<1>6. (PollInv /\ AnnounceInv)'
  BY <1>1, <1>2 DEF VisitIInv, PollInv, OneSeries, OnePollLives, AnnounceInv,
                    SolvedMessages, AnnouncedIsSettled, CompletionAnnouncedOnce
<1>7. QED
  BY <1>3, <1>4, <1>5, <1>6 DEF VisitIInv

\* The snapshot is there: nothing is announced yet.
LEMMA SnapshotView ==
  ASSUME VisitTypeOK,
         shown' = [WithStats(shown, room.placed, "reconciled", FALSE)
                     EXCEPT !.paused = room.paused]
  PROVE  /\ shown' \in View
         /\ shown'.phase = shown.phase /\ shown'.session = shown.session
         /\ shown'.connection = shown.connection /\ shown'.result = shown.result
         /\ shown'.revision = shown.revision
<1> DEFINE w == WithStats(shown, room.placed, "reconciled", FALSE)
<1>1. shown \in View /\ room.placed \in 0..Total /\ room.paused \in BOOLEAN
  BY ShownView DEF VisitTypeOK
<1>2. /\ w \in View
      /\ w.phase = shown.phase /\ w.session = shown.session
      /\ w.connection = shown.connection /\ w.result = shown.result
      /\ w.revision = shown.revision
  <2>1. \A told \in {"optimistic", "reconciled"}, no \in BOOLEAN :
          LET v == WithStats(shown, room.placed, told, no)
          IN  /\ v \in View
              /\ v.phase = shown.phase /\ v.session = shown.session
              /\ v.connection = shown.connection /\ v.result = shown.result
              /\ no \/ v.revision = shown.revision
    BY <1>1, StatsView
  <2>2. "reconciled" \in {"optimistic", "reconciled"} /\ FALSE \in BOOLEAN
    OBVIOUS
  <2>3. QED
    BY <2>1, <2>2
<1> HIDE DEF w
<1>3. shown' \in View
  BY <1>1, <1>2, ViewFields DEF w
<1>4. shown' = [w EXCEPT !.paused = room.paused]
  BY DEF w
<1>5. QED
  BY ZenonT(40), <1>2, <1>3, <1>4 DEF View

\* Nothing of the canvas is ready, so nothing has been announced.
LEMMA NothingAnnouncedYet ==
  ASSUME VisitIInv, bootAt # "done"
  PROVE  /\ ~canvasReady /\ socket = "none" /\ inbox = <<>> /\ asked = 0
         /\ shown.phase \in {"starting", "failed"}
         /\ ~isDevelopment => shown.revision = 0 /\ ~developmentFallback
BY DEF VisitIInv, VisitTypeOK, PhaseInv, BootOrder, AnnounceInv, AnnouncedIsSettled

LEMMA LoadSnapshotKeeps == ASSUME VisitIInv, LoadSnapshot PROVE VisitIInv'
<1>1. /\ UNCHANGED <<isDevelopment, left, canvasReady, restoreFailed, stored, saves,
                     fetches, retryTimer, socket, inbox, asked, room, drag, undone>>
      /\ bootAt = "snapshot" /\ bootAt' \in {"done", "app"} /\ VisitTypeOK
      /\ left => bootAt' = "done" /\ UNCHANGED <<shown, ticking>>
    BY DEF LoadSnapshot, dragVars, resultVars, serverVars, VisitIInv
<1>2. /\ ~canvasReady /\ inbox = <<>>
      /\ ~isDevelopment => shown.revision = 0
    BY <1>1, NothingAnnouncedYet
<1>3. canvas.status = "none"
    BY <1>1 DEF VisitIInv, PhaseInv, BootOrder
<1> DEFINE told == /\ shown' \in View /\ authority' \in 0..Total \cup {NoStats}
                   /\ canvas' \in [status : {"none", "app", "live"}, placed : 0..Total]
                   /\ canvas'.status = "none" /\ ticking' \in BOOLEAN /\ (ticking' => ticking)
                   /\ developmentFallback' \in BOOLEAN
                   /\ developmentFallback' => developmentFallback \/ isDevelopment
                   /\ shown'.session = shown.session /\ shown'.result = shown.result
                   /\ shown'.connection = shown.connection
                   /\ shown'.revision = shown.revision
                   /\ \/ shown'.phase = shown.phase
                      \/ shown'.phase = "failed" /\ bootAt' = "done"
<1>4. told
  <2>1. CASE UNCHANGED <<shown, authority, canvas, ticking, developmentFallback>>
    BY <1>1, <1>3, <2>1, ShownView DEF VisitTypeOK
  <2>2. CASE /\ shown' = [WithStats(shown, room.placed, "reconciled", FALSE)
                            EXCEPT !.paused = room.paused]
             /\ authority' = room.placed /\ canvas' = [canvas EXCEPT !.placed = room.placed]
             /\ UNCHANGED <<ticking, developmentFallback>>
    BY <1>1, <1>3, <2>2, SnapshotView DEF VisitTypeOK
  <2>3. CASE /\ isDevelopment /\ developmentFallback' = TRUE
             /\ UNCHANGED <<shown, authority, canvas, ticking>>
    BY <1>1, <1>3, <2>3, ShownView DEF VisitTypeOK
  <2>4. CASE /\ bootAt' = "done" /\ FailVisit
             /\ UNCHANGED <<authority, canvas, developmentFallback>>
    BY <1>1, <1>3, <2>4, FailView DEF VisitTypeOK
  <2> HIDE DEF told
  <2>5. QED
    BY <1>1, <1>3, <2>1, <2>2, <2>3, <2>4 DEF LoadSnapshot
<1>5. VisitTypeOK'
  BY <1>1, <1>2, <1>3, <1>4 DEF VisitTypeOK, View
<1>6. PhaseInv'
  BY <1>1, <1>2, <1>3, <1>4 DEF VisitIInv, PhaseInv, BootOrder, PhaseSources, ActiveIsHealthy,
                    NothingLeftBehind, ConnectionFailed
<1>7. SaveInv'
  BY <1>1, <1>2, <1>3, <1>4 DEF VisitIInv, SaveInv, SavingIsShown, SavedMeansStored, SavesWait
<1>8. PollInv'
  BY <1>1, <1>2, <1>3, <1>4 DEF VisitIInv, PollInv, OneSeries, OnePollLives
<1>9. AnnounceInv'
  BY <1>1, <1>2, <1>4 DEF VisitIInv, AnnounceInv, SolvedMessages, AnnouncedIsSettled,
                            CompletionAnnouncedOnce
<1>10. QED
  BY <1>5, <1>6, <1>7, <1>8, <1>9 DEF VisitIInv

LEMMA StartCanvasKeeps == ASSUME VisitIInv, StartCanvas PROVE VisitIInv'
<1>1. /\ UNCHANGED <<isDevelopment, left, canvasReady, developmentFallback, restoreFailed,
                     authority, stored, saves, fetches, retryTimer, socket, inbox, asked,
                     room, drag, undone>>
      /\ bootAt = "app" /\ VisitTypeOK
  BY DEF StartCanvas, dragVars, resultVars, serverVars, VisitIInv
<1>2. /\ ~canvasReady /\ inbox = <<>>
      /\ ~isDevelopment => shown.revision = 0
  BY <1>1, NothingAnnouncedYet
<1> DEFINE told == /\ shown' \in View /\ ticking' \in BOOLEAN /\ (ticking' => ticking)
                   /\ canvas' \in [status : {"none", "app", "live"}, placed : 0..Total]
                   /\ shown'.session = shown.session /\ shown'.result = shown.result
                   /\ shown'.connection = shown.connection
                   /\ shown'.revision = shown.revision
                   /\ \/ /\ bootAt' = "done" /\ canvas'.status = "none"
                         /\ shown'.phase \in {shown.phase, "failed"}
                      \/ /\ bootAt' = "texture" /\ ~left /\ shown'.phase = shown.phase
<1>3. told
  <2>1. CASE CanvasFails /\ left
    BY <1>1, <2>1, ShownView DEF CanvasFails, VisitTypeOK
  <2>2. CASE CanvasFails /\ ~left
    <3>1. /\ canvas' = [canvas EXCEPT !.status = "none"] /\ bootAt' = "done" /\ FailVisit
      BY <2>2 DEF CanvasFails
    <3>2. QED
      BY <1>1, <3>1, FailView DEF VisitTypeOK
  <2>3. CASE /\ ~left /\ bootAt' = "texture" /\ canvas' = [canvas EXCEPT !.status = "app"]
             /\ UNCHANGED <<shown, ticking>>
    BY <1>1, <2>3, ShownView DEF VisitTypeOK
  <2> HIDE DEF told
  <2>4. QED
    BY <2>1, <2>2, <2>3 DEF StartCanvas
<1>4. VisitTypeOK'
  BY <1>1, <1>3 DEF VisitTypeOK, View
<1>5. PhaseInv'
  BY <1>1, <1>2, <1>3 DEF VisitIInv, PhaseInv, BootOrder, PhaseSources, ActiveIsHealthy,
                          NothingLeftBehind, ConnectionFailed
<1>6. SaveInv'
  BY <1>1, <1>3 DEF VisitIInv, SaveInv, SavingIsShown, SavedMeansStored, SavesWait
<1>7. PollInv'
  BY <1>1, <1>3 DEF VisitIInv, PollInv, OneSeries, OnePollLives
<1>8. AnnounceInv'
  BY <1>1, <1>2, <1>3 DEF VisitIInv, AnnounceInv, SolvedMessages, AnnouncedIsSettled,
                          CompletionAnnouncedOnce
<1>9. QED
  BY <1>4, <1>5, <1>6, <1>7, <1>8 DEF VisitIInv

LEMMA BuildCanvasKeeps == ASSUME VisitIInv, BuildCanvas PROVE VisitIInv'
<1>1. /\ UNCHANGED <<isDevelopment, left, canvasReady, developmentFallback, restoreFailed,
                     authority, stored, saves, socket, inbox, asked, room, drag, undone>>
      /\ bootAt = "texture" /\ VisitTypeOK /\ PollInv
  BY DEF BuildCanvas, dragVars, serverVars, VisitIInv
<1>2. /\ ~canvasReady /\ inbox = <<>>
      /\ ~isDevelopment => shown.revision = 0 /\ ~developmentFallback
  BY <1>1, NothingAnnouncedYet
<1> DEFINE told == /\ shown' \in View /\ ticking' \in BOOLEAN /\ (ticking' => ticking)
                   /\ fetches' \in Nat /\ retryTimer' \in BOOLEAN
                   /\ canvas' \in [status : {"none", "app", "live"}, placed : 0..Total]
                   /\ shown'.session = shown.session
                   /\ shown'.connection = shown.connection
                   /\ ~isDevelopment => shown'.revision = shown.revision
                   /\ PollInv'
                   /\ left => retryTimer' = retryTimer
                   /\ \/ /\ bootAt' = "done" /\ canvas'.status = "none"
                         /\ shown'.phase \in {shown.phase, "failed"}
                      \/ /\ bootAt' = "started" /\ ~left /\ shown'.phase = shown.phase
<1>3. told
  <2>1. CASE CanvasFails /\ left /\ UNCHANGED resultVars
    <3>1. PollInv'
      BY <1>1, <2>1 DEF PollInv, OneSeries, OnePollLives
    <3>2. QED
      BY <1>1, <2>1, <3>1, ShownView DEF CanvasFails, VisitTypeOK, resultVars
  <2>2. CASE CanvasFails /\ ~left /\ UNCHANGED resultVars
    <3>1. /\ canvas' = [canvas EXCEPT !.status = "none"] /\ bootAt' = "done" /\ FailVisit
      BY <2>2 DEF CanvasFails
    <3>2. UNCHANGED <<fetches, retryTimer, left>>
      BY <1>1, <2>2 DEF resultVars
    <3>3. PollInv'
      BY <1>1, <3>1, <3>2, FailView DEF PollInv, OneSeries, OnePollLives
    <3>4. QED
      BY <1>1, <3>1, <3>2, <3>3, FailView DEF VisitTypeOK
  <2>3. CASE /\ ~left /\ bootAt' = "started" /\ canvas' = [canvas EXCEPT !.status = "live"]
             /\ EmitStats(canvas.placed) /\ UNCHANGED ticking
    <3>1. canvas.placed \in 0..Total /\ UNCHANGED left
      BY <1>1 DEF VisitTypeOK
    <3>2. QED
      BY <1>1, <1>2, <2>3, <3>1, EmitKeeps DEF VisitTypeOK
  <2> HIDE DEF told
  <2>4. QED
    BY <2>1, <2>2, <2>3 DEF BuildCanvas
<1>4. VisitTypeOK'
  BY <1>1, <1>3 DEF VisitTypeOK, View
<1>5. PhaseInv'
  BY <1>1, <1>2, <1>3 DEF VisitIInv, PhaseInv, BootOrder, PhaseSources, ActiveIsHealthy,
                          NothingLeftBehind, ConnectionFailed
<1>6. SaveInv'
  BY <1>1, <1>3 DEF VisitIInv, SaveInv, SavingIsShown, SavedMeansStored, SavesWait
<1>7. AnnounceInv'
  BY <1>1, <1>2, <1>3
     DEF VisitIInv, AnnounceInv, SolvedMessages, AnnouncedIsSettled, CompletionAnnouncedOnce
<1>8. QED
  BY <1>3, <1>4, <1>5, <1>6, <1>7 DEF VisitIInv

LEMMA EnterRoomKeeps == ASSUME VisitIInv, EnterRoom PROVE VisitIInv'
<1>1. /\ UNCHANGED <<isDevelopment, left, developmentFallback, restoreFailed, ticking,
                     authority, stored, saves, inbox, asked, room, drag, undone>>
      /\ bootAt = "started" /\ bootAt' = "done" /\ VisitTypeOK /\ PollInv
  BY DEF EnterRoom, dragVars, VisitIInv
<1>2. /\ ~canvasReady /\ inbox = <<>> /\ asked = 0 /\ socket = "none"
      /\ ~isDevelopment => shown.revision = 0 /\ ~developmentFallback
  BY <1>1, NothingAnnouncedYet
<1>3. CASE left
  <2>1. canvas' = [canvas EXCEPT !.status = "none"]
        /\ UNCHANGED <<shown, canvasReady, fetches, retryTimer, socket>>
    BY <1>3 DEF EnterRoom, dragVars, resultVars
  <2>2. VisitTypeOK'
    BY <1>1, <2>1 DEF VisitTypeOK
  <2>3. PhaseInv'
    BY <1>1, <1>2, <2>1 DEF VisitIInv, VisitTypeOK, PhaseInv, BootOrder, PhaseSources,
                            ActiveIsHealthy, NothingLeftBehind, ConnectionFailed
  <2>4. (SaveInv /\ PollInv /\ AnnounceInv)'
    BY <1>1, <1>2, <2>1
       DEF VisitIInv, SaveInv, SavingIsShown, SavedMeansStored, SavesWait, PollInv, OneSeries,
           OnePollLives, AnnounceInv, SolvedMessages, AnnouncedIsSettled,
           CompletionAnnouncedOnce
  <2>5. QED
    BY <2>2, <2>3, <2>4 DEF VisitIInv
<1>4. CASE ~left
  <2> DEFINE counted == WithCanvasStats(shown, canvas.placed)
  <2>1. PICK opened \in {"connecting", "disabled", "unavailable"} :
          /\ PublishAndPoll(WithPhase([counted EXCEPT !.connection = opened], restoreFailed),
                            WithPhase([counted EXCEPT !.connection = opened],
                                      restoreFailed).solved)
          /\ socket' = IF opened = "connecting" THEN opened ELSE socket
    BY <1>4 DEF EnterRoom
  <2> DEFINE linked == [counted EXCEPT !.connection = opened]
             view == WithPhase(linked, restoreFailed)
  <2>2. canvasReady' = TRUE /\ UNCHANGED canvas
    BY <1>4 DEF EnterRoom
  <2>3. /\ counted \in View
        /\ counted.phase = shown.phase /\ counted.session = shown.session
        /\ counted.result = shown.result
        /\ ~developmentFallback => counted.revision = shown.revision
    BY <1>1, CanvasStatsView DEF VisitTypeOK
  <2> HIDE DEF counted
  <2>4. linked \in View
    BY <2>3, ViewFields
  <2>5. /\ linked.connection = opened /\ linked.session = shown.session
        /\ linked.result = shown.result
        /\ ~developmentFallback => linked.revision = shown.revision
    BY <2>3, <2>4 DEF View
  <2> HIDE DEF linked
  <2>6. /\ view \in View /\ view.connection = opened /\ view.session = shown.session
        /\ view.result = shown.result
        /\ ~developmentFallback => view.revision = shown.revision
        /\ view.phase = IF restoreFailed \/ ConnectionFailed(linked) \/ developmentFallback
                        THEN "degraded" ELSE "active"
    <3>1. developmentFallback \in BOOLEAN /\ restoreFailed \in BOOLEAN
      BY <1>1 DEF VisitTypeOK
    <3>2. QED
      BY <2>4, <2>5, <3>1, PhaseView
  <2>7. PublishAndPoll(view, view.solved)
    BY <2>1 DEF linked
  <2> HIDE DEF view
  <2>8. /\ shown' \in View /\ shown'.connection = opened /\ shown'.session = shown.session
        /\ ~developmentFallback => shown'.revision = shown.revision
        /\ shown'.phase = IF restoreFailed \/ ConnectionFailed(linked) \/ developmentFallback
                          THEN "degraded" ELSE "active"
        /\ fetches' \in Nat /\ retryTimer' \in BOOLEAN /\ PollInv'
    BY <1>1, <2>6, <2>7, PublishKeepsPolling
  <2>9. ConnectionFailed(linked) <=> opened # "connecting"
    BY <2>5 DEF ConnectionFailed
  <2>10. VisitTypeOK'
    BY <1>1, <1>2, <2>1, <2>2, <2>8 DEF VisitTypeOK, View
  <2>11. PhaseInv'
    BY <1>1, <1>2, <1>4, <2>1, <2>2, <2>8, <2>9
       DEF VisitIInv, PhaseInv, BootOrder, PhaseSources, ActiveIsHealthy, NothingLeftBehind,
           ConnectionFailed
  <2>12. SaveInv'
    BY <1>1, <2>8 DEF VisitIInv, SaveInv, SavingIsShown, SavedMeansStored, SavesWait
  <2>13. AnnounceInv'
    BY <1>1, <1>2, <2>8
       DEF VisitIInv, AnnounceInv, SolvedMessages, AnnouncedIsSettled, CompletionAnnouncedOnce
  <2>14. QED
    BY <2>8, <2>10, <2>11, <2>12, <2>13 DEF VisitIInv
<1>5. QED
  BY <1>3, <1>4


-----------------------------------------------------------------------------
(* The socket opens and closes *)

LEMMA ConnectionView ==
  ASSUME VisitTypeOK,
         NEW status \in {"connecting", "connected", "disabled", "disconnected",
                         "unavailable"},
         shown' = WithConnection(status)
  PROVE  /\ shown' \in View /\ shown'.connection = status
         /\ shown'.phase \in {"active", "degraded"}
         /\ shown'.phase = "active" =>
              ~restoreFailed /\ status \in {"connecting", "connected"}
         /\ shown'.session = shown.session /\ shown'.paused = shown.paused
         /\ shown'.placed = shown.placed /\ shown'.source = shown.source
         /\ shown'.solved = shown.solved /\ shown'.revision = shown.revision
         /\ shown'.result = shown.result
<1> DEFINE linked == [shown EXCEPT !.connection = status]
<1>1. developmentFallback \in BOOLEAN /\ restoreFailed \in BOOLEAN /\ shown \in View
  BY ShownView DEF VisitTypeOK
<1>2. linked \in View
  BY <1>1, ViewFields
<1>3. /\ linked.connection = status /\ linked.session = shown.session
      /\ linked.paused = shown.paused
      /\ linked.placed = shown.placed /\ linked.source = shown.source
      /\ linked.solved = shown.solved /\ linked.revision = shown.revision
      /\ linked.result = shown.result
  BY <1>1 DEF View
<1>4. shown' = WithPhase(linked, restoreFailed)
  BY DEF WithConnection
<1> HIDE DEF linked
<1>5. ConnectionFailed(linked) <=> status \in {"disabled", "disconnected", "unavailable"}
  BY <1>3 DEF ConnectionFailed
<1>6. QED
  BY <1>1, <1>2, <1>3, <1>4, <1>5, PhaseView

LEMMA OpensKeeps == ASSUME VisitIInv, Opens PROVE VisitIInv'
<1>1. /\ UNCHANGED <<isDevelopment, bootAt, canvasReady, developmentFallback, fetches,
                     retryTimer, left, restoreFailed, authority, stored, saves, ticking,
                     canvas, inbox, room, drag, undone>>
      /\ socket = "connecting" /\ socket' = "open" /\ asked' = asked + 1 /\ VisitTypeOK
      /\ shown' = WithConnection("connected")
  BY DEF Opens, dragVars, bootVars, resultVars, VisitIInv
<1>2. /\ shown' \in View /\ shown'.connection = "connected"
      /\ shown'.phase \in {"active", "degraded"}
      /\ shown'.phase = "active" => ~restoreFailed
      /\ shown'.session = shown.session
      /\ shown'.placed = shown.placed /\ shown'.source = shown.source
      /\ shown'.solved = shown.solved /\ shown'.revision = shown.revision
      /\ shown'.result = shown.result
  BY <1>1, ConnectionView
<1>3. VisitTypeOK'
  BY <1>1, <1>2 DEF VisitTypeOK, View
<1>4. PhaseInv'
  BY <1>1, <1>2 DEF VisitIInv, PhaseInv, BootOrder, PhaseSources, ActiveIsHealthy,
                    NothingLeftBehind, ConnectionFailed
<1>5. SaveInv'
  BY <1>1, <1>2 DEF VisitIInv, SaveInv, SavingIsShown, SavedMeansStored, SavesWait
<1>6. PollInv'
  BY <1>1, <1>2 DEF VisitIInv, PollInv, OneSeries, OnePollLives
<1>7. AnnounceInv'
  BY <1>1, <1>2 DEF VisitIInv, AnnounceInv, SolvedMessages, AnnouncedIsSettled,
                    CompletionAnnouncedOnce
<1>8. QED
  BY <1>3, <1>4, <1>5, <1>6, <1>7 DEF VisitIInv

LEMMA ClosesKeeps == ASSUME VisitIInv, Closes PROVE VisitIInv'
<1> DEFINE status == IF socket = "open" THEN "disconnected" ELSE "unavailable"
<1>1. /\ UNCHANGED <<isDevelopment, bootAt, canvasReady, developmentFallback, fetches,
                     retryTimer, left, restoreFailed, authority, stored, saves, ticking,
                     canvas, room, drag, undone>>
      /\ socket \in {"connecting", "open"} /\ socket' = "closed" /\ asked' = 0
      /\ inbox' = <<>> /\ VisitTypeOK
      /\ shown' = WithConnection(status)
  BY DEF Closes, dragVars, bootVars, resultVars, VisitIInv
<1>2. status \in {"disconnected", "unavailable"}
  OBVIOUS
<1> HIDE DEF status
<1>3. /\ shown' \in View /\ shown'.connection \in {"disconnected", "unavailable"}
      /\ shown'.phase = "degraded"
      /\ shown'.session = shown.session
      /\ shown'.placed = shown.placed /\ shown'.source = shown.source
      /\ shown'.solved = shown.solved /\ shown'.revision = shown.revision
      /\ shown'.result = shown.result
  BY <1>1, <1>2, ConnectionView
<1>4. VisitTypeOK'
  BY <1>1, <1>3 DEF VisitTypeOK, View
<1>5. PhaseInv'
  BY <1>1, <1>3 DEF VisitIInv, PhaseInv, BootOrder, PhaseSources, ActiveIsHealthy,
                    NothingLeftBehind, ConnectionFailed
<1>6. SaveInv'
  BY <1>1, <1>3 DEF VisitIInv, SaveInv, SavingIsShown, SavedMeansStored, SavesWait
<1>7. PollInv'
  BY <1>1, <1>3 DEF VisitIInv, PollInv, OneSeries, OnePollLives
<1>8. AnnounceInv'
  BY <1>1, <1>3 DEF VisitIInv, AnnounceInv, SolvedMessages, AnnouncedIsSettled,
                    CompletionAnnouncedOnce
<1>9. QED
  BY <1>4, <1>5, <1>6, <1>7, <1>8 DEF VisitIInv

-----------------------------------------------------------------------------
(* The canvas emits its statistics *)

\* The frame of what the player does on the canvas: the connection, the player
\* and the boot are as they were.
LEMMA CanvasKeeps ==
  ASSUME VisitIInv, onlyCanvas, ~left, drag' \in {"none", "held", "overtaken"},
         undone' \in BOOLEAN, undone => undone',
         canvas' \in [status : {"none", "app", "live"}, placed : 0..Total],
         canvas'.status = canvas.status,
         shown' \in View, shown'.phase = shown.phase, shown'.session = shown.session,
         shown'.connection = shown.connection,
         fetches' \in Nat, retryTimer' \in BOOLEAN, PollInv',
         ~isDevelopment => shown'.revision = shown.revision,
         \/ undone' \/ isDevelopment \/ shown.revision = 0
         \/ /\ canvas'.placed = canvas.placed /\ shown'.placed = shown.placed
            /\ shown'.source = shown.source /\ shown'.solved = shown.solved,
         \/ undone' \/ canvas'.placed \in {canvas.placed, Total} \/ inbox = <<>>
  PROVE  VisitIInv'
<1>1. /\ UNCHANGED <<isDevelopment, bootAt, canvasReady, developmentFallback, left,
                     restoreFailed, authority, stored, saves, ticking, socket, inbox,
                     asked, room>>
      /\ VisitTypeOK
  BY DEF onlyCanvas, bootVars, serverVars, VisitIInv
<1>2. VisitTypeOK'
  BY <1>1 DEF VisitTypeOK, View
<1>3. PhaseInv'
  BY <1>1 DEF VisitIInv, PhaseInv, BootOrder, PhaseSources, ActiveIsHealthy,
              NothingLeftBehind, ConnectionFailed
<1>4. SaveInv'
  BY <1>1 DEF VisitIInv, SaveInv, SavingIsShown, SavedMeansStored, SavesWait
<1>5. SolvedMessages'
  BY <1>1 DEF VisitIInv, AnnounceInv, SolvedMessages
<1>6. (AnnouncedIsSettled /\ CompletionAnnouncedOnce)'
  BY <1>1 DEF VisitIInv, VisitTypeOK, AnnounceInv, AnnouncedIsSettled,
              CompletionAnnouncedOnce
<1>7. QED
  BY <1>2, <1>3, <1>4, <1>5, <1>6 DEF VisitIInv, AnnounceInv

\* Nothing is told.
LEMMA QuietCanvas ==
  ASSUME VisitIInv, onlyCanvas, UNCHANGED <<resultVars, shown>>
  PROVE  /\ shown \in View /\ shown' = shown /\ fetches' \in Nat
         /\ retryTimer' \in BOOLEAN /\ PollInv'
<1>1. UNCHANGED <<left, fetches, retryTimer, shown>> /\ VisitTypeOK /\ PollInv
  BY DEF onlyCanvas, resultVars, VisitIInv
<1>2. QED
  BY <1>1, ShownView DEF PollInv, OneSeries, OnePollLives, VisitTypeOK

LEMMA DragKeeps == ASSUME VisitIInv, PickUp \/ DragOn \/ PutDown PROVE VisitIInv'
<1>1. /\ VisitTypeOK /\ PollInv /\ Total \in Nat
      /\ canvas \in [status : {"none", "app", "live"}, placed : 0..Total]
      /\ undone \in BOOLEAN
  BY TotalAssumption DEF VisitIInv, VisitTypeOK
<1>2. CASE PickUp
  <2>1. /\ onlyCanvas /\ ~left /\ drag' = "held" /\ UNCHANGED <<resultVars, shown>>
        /\ canvas' = canvas /\ undone' = undone
    BY <1>2 DEF PickUp
  <2>2. QED
    BY <1>1, <2>1, QuietCanvas, CanvasKeeps
<1>3. CASE DragOn
  <2>1. /\ onlyCanvas /\ ~left /\ drag' = "held" /\ UNCHANGED <<resultVars, shown>>
        /\ undone' = TRUE
    BY <1>3 DEF DragOn
  <2>2. PICK placed \in {p \in 0..Total : p < canvas.placed} :
          canvas' = [canvas EXCEPT !.placed = placed]
    BY <1>3 DEF DragOn
  <2>3. /\ canvas' \in [status : {"none", "app", "live"}, placed : 0..Total]
        /\ canvas'.status = canvas.status
    BY <1>1, <2>2
  <2>4. QED
    BY <1>1, <2>1, <2>3, QuietCanvas, CanvasKeeps
<1>4. CASE PutDown
  <2>1. /\ onlyCanvas /\ ~left /\ drag' = "none" /\ canvas' = canvas /\ undone' = undone
    BY <1>4 DEF PutDown
  <2>2. CASE UNCHANGED <<resultVars, shown>>
    BY <1>1, <2>1, <2>2, QuietCanvas, CanvasKeeps
  <2>3. CASE EmitStats(canvas.placed)
    <3>1. ~isDevelopment => ~developmentFallback
      BY DEF VisitIInv, AnnounceInv, AnnouncedIsSettled
    <3>2. ~isDevelopment /\ shown.revision > 0 /\ ~undone =>
             shown.placed = canvas.placed /\ shown.source = CanvasSource(canvas.placed)
      BY <1>1 DEF VisitIInv, AnnounceInv, AnnouncedIsSettled, CanvasSource
    <3>3. canvas.placed \in 0..Total /\ left' = left /\ shown.revision \in Nat
      BY <1>1, <2>1 DEF onlyCanvas, VisitTypeOK
    <3>4. /\ shown' \in View /\ shown'.phase = shown.phase
          /\ shown'.session = shown.session /\ shown'.connection = shown.connection
          /\ ~isDevelopment => shown'.revision = shown.revision
          /\ ~isDevelopment /\ shown.revision > 0 /\ ~undone =>
               /\ shown'.placed = shown.placed /\ shown'.source = shown.source
               /\ shown'.solved = shown.solved
          /\ fetches' \in Nat /\ retryTimer' \in BOOLEAN /\ PollInv'
      BY <1>1, <2>3, <3>1, <3>2, <3>3, EmitKeeps
    <3>5. QED
      BY <1>1, <2>1, <3>3, <3>4, CanvasKeeps
  <2>4. QED
    BY <1>4, <2>2, <2>3 DEF PutDown
<1>5. QED
  BY <1>2, <1>3, <1>4

LEMMA SnapAloneKeeps == ASSUME VisitIInv, SnapAlone \/ QuickSolve PROVE VisitIInv'
<1>1. /\ VisitTypeOK /\ PollInv /\ Total \in Nat /\ onlyCanvas /\ ~left
      /\ canvas \in [status : {"none", "app", "live"}, placed : 0..Total]
      /\ drag' = "none" /\ undone' = undone /\ undone \in BOOLEAN
      /\ shown.revision \in Nat /\ left' = left
  BY TotalAssumption DEF VisitIInv, VisitTypeOK, SnapAlone, QuickSolve, onlyCanvas
<1>2. PICK placed \in 0..Total :
        /\ canvas' = [canvas EXCEPT !.placed = placed] /\ EmitStats(placed)
        /\ \/ placed > canvas.placed /\ socket # "open"
           \/ isDevelopment /\ placed = Total
  <2>1. Total \in 0..Total
    BY <1>1
  <2>2. QED
    BY <2>1 DEF SnapAlone, QuickSolve
<1>3. /\ canvas' \in [status : {"none", "app", "live"}, placed : 0..Total]
      /\ canvas'.status = canvas.status /\ canvas'.placed = placed
  BY <1>1, <1>2
<1>4. placed = Total \/ inbox = <<>>
  BY <1>2 DEF VisitIInv, PhaseInv, BootOrder
<1>5. ~isDevelopment => ~developmentFallback
  BY DEF VisitIInv, AnnounceInv, AnnouncedIsSettled
<1>6. ~isDevelopment /\ ~undone => shown.revision = 0
  BY <1>1, <1>2 DEF VisitIInv, AnnounceInv, AnnouncedIsSettled
<1>7. /\ shown' \in View /\ shown'.phase = shown.phase /\ shown'.session = shown.session
      /\ shown'.connection = shown.connection
      /\ ~isDevelopment => shown'.revision = shown.revision
      /\ fetches' \in Nat /\ retryTimer' \in BOOLEAN /\ PollInv'
  BY <1>1, <1>2, <1>5, EmitKeeps
<1>8. QED
  BY <1>1, <1>3, <1>4, <1>6, <1>7, CanvasKeeps

LEMMA EmitTickKeeps == ASSUME VisitIInv, EmitTick PROVE VisitIInv'
<1>1. /\ UNCHANGED <<isDevelopment, bootAt, canvasReady, developmentFallback, left,
                     restoreFailed, authority, stored, saves, ticking, canvas, socket,
                     inbox, asked, room, drag, undone>>
      /\ VisitTypeOK /\ PollInv /\ ~left
      /\ EmitStats(canvas.placed)
  BY DEF EmitTick, dragVars, bootVars, serverVars, VisitIInv
<1>2. canvas.placed \in 0..Total
  BY <1>1 DEF VisitTypeOK
<1>3. ~isDevelopment => ~developmentFallback
  BY DEF VisitIInv, AnnounceInv, AnnouncedIsSettled
<1>4. ~isDevelopment /\ shown.revision > 0 /\ ~undone =>
         shown.placed = canvas.placed /\ shown.source = CanvasSource(canvas.placed)
  BY <1>1 DEF VisitIInv, AnnounceInv, AnnouncedIsSettled, CanvasSource
<1>5. /\ shown' \in View /\ shown'.phase = shown.phase /\ shown'.session = shown.session
      /\ shown'.connection = shown.connection
      /\ ~isDevelopment => shown'.revision = shown.revision
      /\ ~isDevelopment /\ shown.revision > 0 /\ ~undone =>
           /\ shown'.placed = shown.placed /\ shown'.source = shown.source
           /\ shown'.solved = shown.solved
      /\ fetches' \in Nat /\ retryTimer' \in BOOLEAN
      /\ PollInv'
  BY <1>1, <1>2, <1>3, <1>4, EmitKeeps
<1>6. VisitTypeOK'
  BY <1>1, <1>2, <1>5 DEF VisitTypeOK, View
<1>7. PhaseInv'
  BY <1>1, <1>2, <1>5 DEF VisitIInv, PhaseInv, BootOrder, PhaseSources, ActiveIsHealthy,
                          NothingLeftBehind, ConnectionFailed
<1>8. SaveInv'
  BY <1>1, <1>5 DEF VisitIInv, SaveInv, SavingIsShown, SavedMeansStored, SavesWait
<1>9. AnnounceInv'
  BY <1>1, <1>5
     DEF VisitIInv, AnnounceInv, SolvedMessages, AnnouncedIsSettled, CompletionAnnouncedOnce
<1>10. QED
  BY <1>5, <1>6, <1>7, <1>8, <1>9 DEF VisitIInv

-----------------------------------------------------------------------------
(* The profile and the result *)

\* The player is stored, or not, and the page tells what that makes of it.
LEMMA PlayerView ==
  ASSUME VisitTypeOK, NEW failed \in BOOLEAN,
         NEW x \in {"local", "restoring", "saved", "saving", "offline", "error"},
         shown' = WithPhaseIfReady([shown EXCEPT !.session = x], failed)
  PROVE  /\ shown' \in View /\ shown'.session = x
         /\ canvasReady => shown'.phase \in {"active", "degraded"}
         /\ canvasReady /\ shown'.phase = "active" => ~failed /\ ~ConnectionFailed(shown)
         /\ ~canvasReady => shown'.phase = shown.phase
         /\ shown'.connection = shown.connection /\ shown'.paused = shown.paused
         /\ shown'.placed = shown.placed /\ shown'.source = shown.source
         /\ shown'.solved = shown.solved /\ shown'.revision = shown.revision
         /\ shown'.result = shown.result
<1> DEFINE told == [shown EXCEPT !.session = x]
<1>1. shown \in View
  BY ShownView
<1>2. told \in View
  BY <1>1, ViewFields
<1>3. /\ told.session = x /\ told.phase = shown.phase /\ told.connection = shown.connection
      /\ told.paused = shown.paused
      /\ told.placed = shown.placed /\ told.source = shown.source
      /\ told.solved = shown.solved /\ told.revision = shown.revision
      /\ told.result = shown.result
  BY <1>1 DEF View
<1>4. shown' = WithPhaseIfReady(told, failed)
  OBVIOUS
<1> HIDE DEF told
<1>5. ConnectionFailed(told) <=> ConnectionFailed(shown)
  BY <1>3 DEF ConnectionFailed
<1>6. QED
  BY <1>2, <1>3, <1>4, <1>5, ReadyPhaseView

\* While a save is in flight, the boot is past restoring the player.
LEMMA SavePastRestore ==
  ASSUME VisitIInv, ~left, saves > 0
  PROVE  saves = 1 /\ shown.session = "saving" /\ bootAt \notin {"queued", "session"}
BY DEF VisitIInv, VisitTypeOK, SaveInv, SavingIsShown, SavesWait

LEMMA SaveProfileKeeps == ASSUME VisitIInv, SaveProfile PROVE VisitIInv'
<1>1. /\ UNCHANGED <<isDevelopment, bootAt, canvasReady, developmentFallback, left,
                     restoreFailed, authority, stored, fetches, retryTimer, ticking,
                     canvas, socket, inbox, asked, room, drag, undone>>
      /\ VisitTypeOK /\ saves' = saves + 1 /\ CanSaveProfile
      /\ shown' = [shown EXCEPT !.session = "saving"]
  BY DEF SaveProfile, dragVars, bootVars, resultVars, serverVars, VisitIInv
<1>2. /\ shown' \in View /\ shown'.session = "saving"
      /\ shown'.phase = shown.phase /\ shown'.connection = shown.connection
      /\ shown'.placed = shown.placed /\ shown'.source = shown.source
      /\ shown'.solved = shown.solved /\ shown'.revision = shown.revision
      /\ shown'.result = shown.result
  BY <1>1, SessionView
<1>3. /\ ~left /\ saves = 0 /\ bootAt \notin {"queued", "session"}
  BY <1>1 DEF CanSaveProfile, VisitIInv, VisitTypeOK, SaveInv, SavingIsShown, SavesWait
<1>4. VisitTypeOK'
  BY <1>1, <1>2 DEF VisitTypeOK, View
<1>5. PhaseInv'
  BY <1>1, <1>2 DEF VisitIInv, PhaseInv, BootOrder, PhaseSources, ActiveIsHealthy,
                    NothingLeftBehind, ConnectionFailed
<1>6. SaveInv'
  BY <1>1, <1>2, <1>3 DEF VisitIInv, SaveInv, SavingIsShown, SavedMeansStored, SavesWait
<1>7. PollInv'
  BY <1>1, <1>2 DEF VisitIInv, PollInv, OneSeries, OnePollLives
<1>8. AnnounceInv'
  BY <1>1, <1>2 DEF VisitIInv, AnnounceInv, SolvedMessages, AnnouncedIsSettled,
                    CompletionAnnouncedOnce
<1>9. QED
  BY <1>4, <1>5, <1>6, <1>7, <1>8 DEF VisitIInv

LEMMA ProfileSavedKeeps == ASSUME VisitIInv, ProfileSaved PROVE VisitIInv'
<1>1. /\ UNCHANGED <<isDevelopment, bootAt, canvasReady, developmentFallback, left,
                     authority, fetches, retryTimer, ticking, canvas, socket, inbox,
                     asked, room, drag, undone>>
      /\ VisitTypeOK /\ saves > 0 /\ saves' = saves - 1
      /\ left => UNCHANGED <<shown, stored, restoreFailed>>
  BY DEF ProfileSaved, dragVars, bootVars, resultVars, serverVars, VisitIInv
<1> DEFINE told == /\ shown' \in View /\ stored' \in BOOLEAN /\ restoreFailed' \in BOOLEAN
                   /\ ~left => shown'.session \in {"saved", "offline", "error"}
                   /\ shown'.session = "saved" /\ ~left => stored'
                   /\ ~restoreFailed' => stored'
                   /\ canvasReady => shown'.phase \in {"active", "degraded"}
                   /\ canvasReady /\ shown'.phase = "active" /\ ~left =>
                        ~restoreFailed'
                        /\ (~ConnectionFailed(shown) \/ shown.phase = "active")
                   /\ ~canvasReady => shown'.phase = shown.phase
                   /\ shown'.connection = shown.connection
                   /\ shown'.placed = shown.placed /\ shown'.source = shown.source
                   /\ shown'.solved = shown.solved /\ shown'.revision = shown.revision
                   /\ shown'.result = shown.result
<1>2. told
  <2>1. CASE left
    BY <1>1, <2>1, ShownView DEF VisitTypeOK, VisitIInv, PhaseInv, BootOrder, PhaseSources
  <2>2. ASSUME ~left, NEW persisted \in BOOLEAN, stored' = persisted,
               restoreFailed' = ~persisted,
               shown' = WithPhaseIfReady([shown EXCEPT !.session = SavedOrOffline(persisted)],
                                         ~persisted)
        PROVE  told
    <3>1. SavedOrOffline(persisted) = IF persisted THEN "saved" ELSE "offline"
      BY DEF SavedOrOffline
    <3>2. (~persisted) \in BOOLEAN
      OBVIOUS
    <3>3. /\ SavedOrOffline(persisted) \in {"local", "restoring", "saved", "saving",
                                           "offline", "error"}
          /\ SavedOrOffline(persisted) \in {"saved", "offline", "error"}
          /\ SavedOrOffline(persisted) = "saved" => persisted
      BY <3>1
    <3>4. /\ shown' \in View /\ shown'.session = SavedOrOffline(persisted)
          /\ canvasReady => shown'.phase \in {"active", "degraded"}
          /\ canvasReady /\ shown'.phase = "active" => persisted /\ ~ConnectionFailed(shown)
          /\ ~canvasReady => shown'.phase = shown.phase
          /\ shown'.connection = shown.connection
          /\ shown'.placed = shown.placed /\ shown'.source = shown.source
          /\ shown'.solved = shown.solved /\ shown'.revision = shown.revision
          /\ shown'.result = shown.result
      BY <1>1, <2>2, <3>2, <3>3, PlayerView
    <3>5. /\ stored' \in BOOLEAN /\ restoreFailed' \in BOOLEAN
          /\ (stored' <=> persisted) /\ (restoreFailed' <=> ~persisted)
      BY <2>2
    <3>6. QED
      BY <2>2, <3>3, <3>4, <3>5
  <2>3. ASSUME ~left, shown' = [shown EXCEPT !.session = "error"],
               UNCHANGED <<stored, restoreFailed>>
        PROVE  told
    <3>1. /\ canvasReady => shown.phase \in {"active", "degraded"}
          /\ ~restoreFailed => stored
          /\ shown.phase = "active" /\ ~left => ~restoreFailed
          /\ ActiveIsHealthy /\ restoreFailed \in BOOLEAN /\ stored \in BOOLEAN
      BY DEF VisitIInv, VisitTypeOK, PhaseInv, BootOrder, PhaseSources, ActiveIsHealthy
    <3>2. QED
      BY <1>1, <2>3, <3>1, SessionView
  <2> HIDE DEF told
  <2>4. QED
    BY <2>1, <2>2, <2>3 DEF ProfileSaved
<1>3. VisitTypeOK'
  BY <1>1, <1>2 DEF VisitTypeOK, View
<1>4. PhaseInv'
  BY <1>1, <1>2 DEF VisitIInv, PhaseInv, BootOrder, PhaseSources, ActiveIsHealthy,
                    NothingLeftBehind, ConnectionFailed
<1>5. SaveInv'
  BY <1>1, <1>2, SavePastRestore
     DEF VisitIInv, VisitTypeOK, SaveInv, SavingIsShown, SavedMeansStored, SavesWait
<1>6. PollInv'
  BY <1>1, <1>2 DEF VisitIInv, PollInv, OneSeries, OnePollLives
<1>7. AnnounceInv'
  BY <1>1, <1>2 DEF VisitIInv, AnnounceInv, SolvedMessages, AnnouncedIsSettled,
                    CompletionAnnouncedOnce
<1>8. QED
  BY <1>3, <1>4, <1>5, <1>6, <1>7 DEF VisitIInv

\* The fetches and their timer touch nothing but the result that is shown.
LEMMA ResultKeeps ==
  ASSUME VisitIInv,
         UNCHANGED <<isDevelopment, bootAt, canvasReady, developmentFallback, left,
                     restoreFailed, authority, stored, saves, ticking, canvas, socket,
                     inbox, asked, room, drag, undone>>,
         shown' \in View, shown'.phase = shown.phase, shown'.session = shown.session,
         shown'.connection = shown.connection, shown'.placed = shown.placed,
         shown'.source = shown.source, shown'.solved = shown.solved,
         shown'.revision = shown.revision,
         fetches' \in Nat, retryTimer' \in BOOLEAN, left => ~retryTimer', PollInv'
  PROVE  VisitIInv'
<1>1. VisitTypeOK'
  BY DEF VisitIInv, VisitTypeOK, View
<1>2. PhaseInv'
  BY DEF VisitIInv, PhaseInv, BootOrder, PhaseSources, ActiveIsHealthy,
         NothingLeftBehind, ConnectionFailed
<1>3. SaveInv'
  BY DEF VisitIInv, SaveInv, SavingIsShown, SavedMeansStored, SavesWait
<1>4. AnnounceInv'
  BY DEF VisitIInv, AnnounceInv, SolvedMessages, AnnouncedIsSettled,
         CompletionAnnouncedOnce
<1>5. QED
  BY <1>1, <1>2, <1>3, <1>4 DEF VisitIInv

LEMMA FetchesKeep == ASSUME VisitIInv, ResultReady \/ ResultPending \/ RetryResult
                     PROVE VisitIInv'
<1>1. /\ UNCHANGED <<isDevelopment, bootAt, canvasReady, developmentFallback, left,
                     restoreFailed, authority, stored, saves, ticking, canvas, socket,
                     inbox, asked, room, drag, undone>>
      /\ VisitTypeOK /\ PollInv /\ shown \in View
  BY ShownView DEF ResultReady, ResultPending, RetryResult, dragVars, bootVars, serverVars,
                   VisitIInv
<1>2. left => ~retryTimer
  BY DEF VisitIInv, PhaseInv, NothingLeftBehind
<1>3. CASE ResultReady
  <2>1. /\ shown' = [shown EXCEPT !.result = "ready"] /\ fetches > 0
        /\ fetches' = fetches - 1 /\ retryTimer' = retryTimer /\ ~left
    BY <1>3 DEF ResultReady
  <2>2. /\ shown' \in View
    BY <1>1, <2>1, ViewFields
  <2>3. /\ shown'.result = "ready"
        /\ shown'.phase = shown.phase /\ shown'.session = shown.session
        /\ shown'.connection = shown.connection /\ shown'.placed = shown.placed
        /\ shown'.source = shown.source /\ shown'.solved = shown.solved
        /\ shown'.revision = shown.revision
    BY <1>1, <2>1, <2>2 DEF View
  <2>4. fetches' \in Nat /\ retryTimer' \in BOOLEAN
    BY <1>1, <2>1 DEF VisitTypeOK
  <2>5. PollInv'
    BY <1>1, <2>1, <2>3 DEF PollInv, OneSeries, OnePollLives, VisitTypeOK
  <2>6. QED
    BY <1>1, <1>2, <2>1, <2>2, <2>3, <2>4, <2>5, ResultKeeps
<1>4. CASE ResultPending
  <2>1. /\ shown' = shown /\ fetches > 0 /\ fetches' = fetches - 1 /\ retryTimer' = ~left
    BY <1>4 DEF ResultPending, Retries
  <2>2. fetches' \in Nat /\ retryTimer' \in BOOLEAN
    BY <1>1, <2>1 DEF VisitTypeOK
  <2>3. PollInv'
    <3>1. CASE left
      BY <1>1, <3>1 DEF PollInv, OneSeries, OnePollLives
    <3>2. CASE ~left
      <4>1. fetches = 1 /\ shown.result = "loading"
        BY <1>1, <2>1, <3>2 DEF PollInv, OneSeries, VisitTypeOK
      <4>2. retryTimer' = TRUE /\ ~left'
        BY <1>1, <2>1, <3>2
      <4>3. fetches' = 0 /\ shown'.result = "loading"
        BY <2>1, <4>1
      <4>4. QED
        BY <4>2, <4>3 DEF PollInv, OneSeries, OnePollLives
    <3>3. QED
      BY <3>1, <3>2
  <2>4. QED
    BY <1>1, <1>2, <2>1, <2>2, <2>3, ResultKeeps
<1>5. CASE RetryResult
  <2>1. /\ shown' = shown /\ retryTimer /\ ~retryTimer' /\ fetches' = fetches + 1
        /\ retryTimer' \in BOOLEAN
    BY <1>5 DEF RetryResult
  <2>2. fetches' \in Nat
    BY <1>1, <2>1 DEF VisitTypeOK
  <2>3. PollInv'
    BY <1>1, <2>1 DEF PollInv, OneSeries, OnePollLives, VisitTypeOK
  <2>4. QED
    BY <1>1, <1>2, <2>1, <2>2, <2>3, ResultKeeps
<1>6. QED
  BY <1>3, <1>4, <1>5

LEMMA LeaveKeeps == ASSUME VisitIInv, Leave PROVE VisitIInv'
<1>1. /\ UNCHANGED <<isDevelopment, bootAt, canvasReady, developmentFallback, shown,
                     restoreFailed, authority, stored, saves, fetches, room, undone>>
      /\ drag' = "none"
      /\ VisitTypeOK /\ ~left /\ left' = TRUE /\ ticking' = FALSE /\ retryTimer' = FALSE
      /\ inbox' = <<>> /\ asked' = 0
      /\ socket' = IF socket \in {"connecting", "open"} THEN "closed" ELSE socket
  BY DEF Leave, bootVars, VisitIInv
<1>2. /\ canvas' \in [status : {"none", "app", "live"}, placed : 0..Total]
      /\ canvas'.placed = canvas.placed
      /\ canvas'.status = IF canvasReady THEN "none" ELSE canvas.status
  BY <1>1 DEF Leave, VisitTypeOK
<1>3. VisitTypeOK'
  <2>1. socket' \in {"none", "connecting", "open", "closed"}
    BY <1>1 DEF VisitTypeOK
  <2>2. inbox' \in Seq(RoomMessage)
    BY <1>1
  <2>3. left' \in BOOLEAN /\ ticking' \in BOOLEAN /\ retryTimer' \in BOOLEAN /\ asked' \in Nat
    BY <1>1
  <2>4. QED
    BY <1>1, <1>2, <2>1, <2>2, <2>3 DEF VisitTypeOK, RoomMessage
<1>4. PhaseInv'
  <2>1. BootOrder'
    BY <1>1, <1>2 DEF VisitIInv, PhaseInv, BootOrder
  <2>2. (PhaseSources /\ ActiveIsHealthy)'
    BY <1>1, <1>2 DEF VisitIInv, PhaseInv, PhaseSources, ActiveIsHealthy, ConnectionFailed
  <2>3. NothingLeftBehind'
    BY <1>1, <1>2 DEF VisitIInv, VisitTypeOK, PhaseInv, BootOrder, NothingLeftBehind
  <2>4. QED
    BY <2>1, <2>2, <2>3 DEF PhaseInv
<1>5. SaveInv'
  BY <1>1 DEF VisitIInv, SaveInv, SavingIsShown, SavedMeansStored, SavesWait
<1>6. PollInv'
  BY <1>1 DEF PollInv, OneSeries, OnePollLives
<1>7. AnnounceInv'
  BY <1>1, <1>2 DEF VisitIInv, AnnounceInv, SolvedMessages, AnnouncedIsSettled,
                    CompletionAnnouncedOnce
<1>8. QED
  BY <1>3, <1>4, <1>5, <1>6, <1>7 DEF VisitIInv

-----------------------------------------------------------------------------
(* Messages are sent *)

LEMMA InboxMessages ==
  ASSUME VisitTypeOK
  PROVE  /\ inbox \in Seq(RoomMessage)
         /\ room \in [placed : 0..Total, paused : BOOLEAN, joined : BOOLEAN, result : BOOLEAN]
BY DEF VisitTypeOK, RoomMessage

\* What the room tells is appended, with what the room is then.
LEMMA InboxGrows ==
  ASSUME NEW s \in Seq(RoomMessage), VisitTypeOK, inbox' = inbox \o s
  PROVE  /\ inbox' \in Seq(RoomMessage)
         /\ \A i \in DOMAIN inbox' : i \in Nat \ {0}
         /\ \A i \in DOMAIN inbox' :
              \/ i \in DOMAIN inbox /\ inbox'[i] = inbox[i]
              \/ /\ i > Len(inbox) /\ i - Len(inbox) \in DOMAIN s
                 /\ inbox'[i] = s[i - Len(inbox)]
         /\ \A i \in DOMAIN inbox : i <= Len(inbox)
<1>1. inbox \in Seq(RoomMessage)
  BY InboxMessages
<1>2. QED
  BY <1>1

\* The place before one in the second of two sequences, but not its first, is in it.
LEMMA IndexInTail ==
  ASSUME NEW n \in Nat, NEW k \in Nat, NEW i \in (n + 1)..(n + k), i - n > 1
  PROVE  /\ i # 1 /\ i - 1 \in (n + 1)..(n + k) /\ (i - 1) - n = i - n - 1
         /\ i - n - 1 \in 1..k
OBVIOUS

\* Solved stays solved, and the statistics come after their patch.
LEMMA SolvedTogether ==
  ASSUME NEW s \in Seq(RoomMessage), VisitTypeOK, SolvedMessages, inbox' = inbox \o s,
         \A k \in DOMAIN s : s[k].placed = room.placed',
         \A k \in DOMAIN s : s[k].type = "stats" => k > 1 /\ s[k - 1].type = "patch",
         room.placed = Total => room.placed' = Total,
         canvas' = canvas, undone' = undone
  PROVE  /\ SolvedMessages'
         /\ room.placed' = Total /\ (\A i \in DOMAIN inbox : inbox[i].placed = Total) =>
              \A i \in DOMAIN inbox' : inbox'[i].placed = Total
<1> DEFINE n == Len(inbox)
<1>1. /\ inbox \in Seq(RoomMessage) /\ n \in Nat /\ inbox' \in Seq(RoomMessage)
      /\ DOMAIN s = 1..Len(s) /\ Len(s) \in Nat
      /\ DOMAIN inbox = 1..n /\ DOMAIN inbox' = 1..(n + Len(s))
      /\ \A i \in 1..n : inbox'[i] = inbox[i]
      /\ \A i \in (n + 1)..(n + Len(s)) : i - n \in 1..Len(s) /\ inbox'[i] = s[i - n]
  BY InboxMessages, InboxGrows
<1> HIDE DEF n
<1>2. \A i \in DOMAIN inbox' : inbox'[i].placed = Total =>
        room.placed' = Total /\ (i \in 1..n => room.placed = Total)
  BY <1>1 DEF SolvedMessages
<1>3. \A i, j \in DOMAIN inbox' :
        i < j /\ inbox'[i].placed = Total => inbox'[j].placed = Total
  <2> SUFFICES ASSUME NEW i \in DOMAIN inbox', NEW j \in DOMAIN inbox', i < j,
                      inbox'[i].placed = Total
               PROVE  inbox'[j].placed = Total
    OBVIOUS
  <2>1. CASE j \in 1..n
    BY <1>1, <2>1 DEF SolvedMessages
  <2>2. CASE j \in (n + 1)..(n + Len(s))
    BY <1>1, <1>2, <2>2
  <2>3. QED
    BY <1>1, <2>1, <2>2
<1>4. ~undone => \A i \in DOMAIN inbox' :
        inbox'[i].type = "stats" /\ inbox'[i].placed = Total =>
          IF i = 1 THEN canvas.placed = Total
          ELSE inbox'[i - 1].type = "patch" /\ inbox'[i - 1].placed = Total
  <2> SUFFICES ASSUME ~undone, NEW i \in DOMAIN inbox',
                      inbox'[i].type = "stats", inbox'[i].placed = Total
               PROVE  IF i = 1 THEN canvas.placed = Total
                      ELSE inbox'[i - 1].type = "patch" /\ inbox'[i - 1].placed = Total
    OBVIOUS
  <2>1. CASE i \in 1..n
    <3>1. inbox[i].type = "stats" /\ inbox[i].placed = Total
      BY <1>1, <2>1
    <3>2. IF i = 1 THEN canvas.placed = Total
          ELSE inbox[i - 1].type = "patch" /\ inbox[i - 1].placed = Total
      BY <1>1, <2>1, <3>1 DEF SolvedMessages
    <3>3. i # 1 => i - 1 \in 1..n
      BY <1>1, <2>1
    <3>4. QED
      BY <1>1, <3>2, <3>3
  <2>2. CASE i \in (n + 1)..(n + Len(s))
    <3>1. i - n \in DOMAIN s /\ s[i - n].type = "stats"
      BY <1>1, <2>2
    <3>2. i - n > 1 /\ s[i - n - 1].type = "patch"
      BY <3>1
    <3>3. /\ i # 1 /\ i - 1 \in (n + 1)..(n + Len(s)) /\ (i - 1) - n = i - n - 1
          /\ i - n - 1 \in DOMAIN s
      <4>1. n \in Nat /\ Len(s) \in Nat /\ DOMAIN s = 1..Len(s)
        BY <1>1
      <4>2. QED
        BY <2>2, <3>2, <4>1, IndexInTail
    <3>4. inbox'[i - 1] = s[i - n - 1]
      BY <1>1, <3>3
    <3>5. s[i - n - 1].placed = room.placed'
      BY <3>3
    <3>6. room.placed' = Total
      BY <1>2
    <3>7. inbox'[i - 1].type = "patch" /\ inbox'[i - 1].placed = Total
      BY <3>2, <3>4, <3>5, <3>6
    <3>8. QED
      BY <3>3, <3>7
  <2>3. QED
    BY <1>1, <2>1, <2>2
<1>5. SolvedMessages'
  BY <1>2, <1>3, <1>4 DEF SolvedMessages
<1>6. ASSUME room.placed' = Total, \A i \in DOMAIN inbox : inbox[i].placed = Total
      PROVE  \A i \in DOMAIN inbox' : inbox'[i].placed = Total
  BY <1>1, <1>6
<1>7. QED
  BY <1>5, <1>6

\* The frame of what the room does by itself: the client is as it was.
LEMMA RoomKeeps ==
  ASSUME VisitIInv,
         UNCHANGED <<isDevelopment, bootAt, canvasReady, developmentFallback, fetches,
                     retryTimer, left, shown, restoreFailed, authority, stored, saves,
                     ticking, canvas, socket, drag, undone>>,
         room' \in [placed : 0..Total, paused : BOOLEAN, joined : BOOLEAN, result : BOOLEAN],
         room.placed = Total => room.placed' = Total,
         asked' \in Nat, socket # "open" => inbox' = inbox /\ asked' = asked,
         NEW s \in Seq(RoomMessage), inbox' = inbox \o s \/ inbox' = inbox,
         \A k \in DOMAIN s : s[k].placed = room.placed',
         \A k \in DOMAIN s : s[k].type = "stats" => k > 1 /\ s[k - 1].type = "patch"
  PROVE  VisitIInv'
<1>1. /\ VisitTypeOK /\ SolvedMessages /\ inbox \in Seq(RoomMessage)
  BY InboxMessages DEF VisitIInv, AnnounceInv
<1>2. /\ inbox' \in Seq(RoomMessage) /\ SolvedMessages'
      /\ room.placed' = Total /\ (\A i \in DOMAIN inbox : inbox[i].placed = Total) =>
           \A i \in DOMAIN inbox' : inbox'[i].placed = Total
  <2>1. CASE inbox' = inbox \o s
    BY <1>1, <2>1, InboxGrows, SolvedTogether
  <2>2. CASE inbox' = inbox
    BY <1>1, <2>2 DEF SolvedMessages
  <2>3. QED
    BY <2>1, <2>2
<1>3. VisitTypeOK'
  BY <1>1, <1>2 DEF VisitTypeOK, RoomMessage
<1>4. PhaseInv'
  BY DEF VisitIInv, PhaseInv, BootOrder, PhaseSources, ActiveIsHealthy,
         NothingLeftBehind, ConnectionFailed
<1>5. (SaveInv /\ PollInv)'
  BY DEF VisitIInv, SaveInv, SavingIsShown, SavedMeansStored, SavesWait, PollInv,
         OneSeries, OnePollLives
<1>6. CompletionAnnouncedOnce'
  BY <1>1 DEF VisitIInv, AnnounceInv, CompletionAnnouncedOnce, VisitTypeOK
<1>7. AnnouncedIsSettled'
  <2>1. ~isDevelopment /\ shown.revision > 0 => room.placed = Total
    BY <1>1 DEF VisitIInv, AnnounceInv, CompletionAnnouncedOnce, VisitTypeOK
  <2>2. QED
    BY <1>2, <2>1 DEF VisitIInv, AnnounceInv, AnnouncedIsSettled
<1>8. QED
  BY <1>2, <1>3, <1>4, <1>5, <1>6, <1>7 DEF VisitIInv, AnnounceInv

\* What Tells appends.
LEMMA ToldMessages ==
  ASSUME NEW types \in Seq({"state", "patch", "stats", "paused", "resumed", "player",
                            "fatal", "error"}),
         room' \in [placed : 0..Total, paused : BOOLEAN, joined : BOOLEAN, result : BOOLEAN]
  PROVE  LET s == [k \in DOMAIN types |-> Message(types[k])] IN
         /\ s \in Seq(RoomMessage) /\ DOMAIN s = DOMAIN types
         /\ \A k \in DOMAIN s : s[k].placed = room.placed' /\ s[k].type = types[k]
<1>1. \A k \in DOMAIN types : Message(types[k]) \in RoomMessage
  BY DEF Message, RoomMessage
<1>2. \A k \in DOMAIN types :
        Message(types[k]).placed = room.placed' /\ Message(types[k]).type = types[k]
  BY DEF Message
<1>3. DOMAIN types = 1..Len(types) /\ Len(types) \in Nat
  OBVIOUS
<1> DEFINE s == [k \in DOMAIN types |-> Message(types[k])]
<1>4. s \in Seq(RoomMessage)
  <2>1. s \in [1..Len(types) -> RoomMessage]
    BY <1>1, <1>3
  <2> HIDE DEF s
  <2>2. QED
    BY <1>3, <2>1
<1>5. QED
  BY <1>2, <1>4

\* The frame of RoomActs.
LEMMA RoomActsKeeps ==
  ASSUME VisitIInv,
         NEW types \in Seq({"state", "patch", "stats", "paused", "resumed", "player",
                            "fatal", "error"}),
         RoomActs(types),
         room' \in [placed : 0..Total, paused : BOOLEAN, joined : BOOLEAN, result : BOOLEAN],
         room.placed = Total => room.placed' = Total,
         \A k \in DOMAIN types : types[k] = "stats" => k > 1 /\ types[k - 1] = "patch"
  PROVE  VisitIInv'
<1> DEFINE s == [k \in DOMAIN types |-> Message(types[k])]
<1>1. /\ s \in Seq(RoomMessage) /\ DOMAIN s = DOMAIN types
      /\ \A k \in DOMAIN s : s[k].placed = room.placed' /\ s[k].type = types[k]
  BY ToldMessages
<1>2. /\ UNCHANGED <<isDevelopment, bootAt, canvasReady, developmentFallback, fetches,
                     retryTimer, left, shown, restoreFailed, authority, stored, saves,
                     ticking, canvas, socket, asked, drag, undone>>
      /\ inbox' = IF room.joined /\ socket = "open" THEN inbox \o s ELSE inbox
  BY DEF RoomActs, Tells, dragVars, bootVars, resultVars
<1> HIDE DEF s
<1>3. asked' \in Nat
  BY <1>2 DEF VisitIInv, VisitTypeOK
<1>4. \A k \in DOMAIN s : s[k].type = "stats" => k > 1 /\ s[k - 1].type = "patch"
  <2> SUFFICES ASSUME NEW k \in DOMAIN s, s[k].type = "stats"
               PROVE  k > 1 /\ s[k - 1].type = "patch"
    OBVIOUS
  <2>1. k > 1 /\ types[k - 1] = "patch"
    BY <1>1
  <2>2. k - 1 \in DOMAIN types
    <3>1. DOMAIN types = 1..Len(types) /\ Len(types) \in Nat /\ k \in DOMAIN types
      BY <1>1
    <3>2. QED
      BY <2>1, <3>1
  <2>3. QED
    BY <1>1, <2>1, <2>2
<1>5. QED
  BY <1>1, <1>2, <1>3, <1>4, RoomKeeps

LEMMA RoomSendsKeep ==
  ASSUME VisitIInv, RoomSnaps \/ RoomPauses \/ RoomUpdatesPlayer \/ RoomErrs
  PROVE  VisitIInv'
<1> DEFINE R == [placed : 0..Total, paused : BOOLEAN, joined : BOOLEAN, result : BOOLEAN]
           T == {"state", "patch", "stats", "paused", "resumed", "player", "fatal", "error"}
<1>1. room \in R /\ Total \in Nat
  BY InboxMessages, TotalAssumption DEF VisitIInv
<1>2. \A t \in T : <<t>> \in Seq(T) /\ (t # "stats" =>
        \A k \in DOMAIN <<t>> : <<t>>[k] = "stats" => k > 1 /\ <<t>>[k - 1] = "patch")
  OBVIOUS
<1>3. CASE RoomSnaps
  <2>1. room.placed < Total /\ room' = [room EXCEPT !.placed = @ + 1]
        /\ RoomActs(<<"patch", "stats">>)
    BY <1>3 DEF RoomSnaps
  <2>2. room.placed + 1 \in 0..Total
    BY <1>1, <2>1
  <2>3. room' \in R /\ (room.placed = Total => room.placed' = Total)
    BY <1>1, <2>1, <2>2
  <2>4. <<"patch", "stats">> \in Seq(T)
        /\ \A k \in DOMAIN <<"patch", "stats">> : <<"patch", "stats">>[k] = "stats" =>
             k > 1 /\ <<"patch", "stats">>[k - 1] = "patch"
    OBVIOUS
  <2>5. QED
    BY <2>1, <2>3, <2>4, RoomActsKeeps
<1>4. CASE RoomPauses
  <2> DEFINE t == IF room.paused THEN "resumed" ELSE "paused"
  <2>1. room' = [room EXCEPT !.paused = ~@] /\ RoomActs(<<t>>)
    BY <1>4 DEF RoomPauses
  <2>2. room' \in R /\ room.placed' = room.placed
    BY <1>1, <2>1
  <2>3. t \in T /\ t # "stats"
    OBVIOUS
  <2> HIDE DEF t
  <2>4. QED
    BY <1>2, <2>1, <2>2, <2>3, RoomActsKeeps
<1>5. CASE RoomUpdatesPlayer
  <2>1. room' = room /\ RoomActs(<<"player">>)
    BY <1>5 DEF RoomUpdatesPlayer
  <2>2. "player" \in T /\ "player" # "stats"
    OBVIOUS
  <2>3. QED
    BY <1>1, <1>2, <2>1, <2>2, RoomActsKeeps
<1>6. CASE RoomErrs
  <2>1. room' = room /\ RoomActs(<<"error">>)
    BY <1>6 DEF RoomErrs
  <2>2. "error" \in T /\ "error" # "stats"
    OBVIOUS
  <2>3. QED
    BY <1>1, <1>2, <2>1, <2>2, RoomActsKeeps
<1>7. QED
  BY <1>3, <1>4, <1>5, <1>6

LEMMA RoomFinalizesKeeps == ASSUME VisitIInv, RoomFinalizes PROVE VisitIInv'
<1>1. /\ UNCHANGED <<isDevelopment, bootAt, canvasReady, developmentFallback, fetches,
                     retryTimer, left, shown, restoreFailed, authority, stored, saves,
                     ticking, canvas, socket, inbox, asked, drag, undone>>
      /\ room' = [room EXCEPT !.result = TRUE]
  BY DEF RoomFinalizes, dragVars, bootVars, resultVars
<1>2. room' \in [placed : 0..Total, paused : BOOLEAN, joined : BOOLEAN, result : BOOLEAN]
      /\ room.placed' = room.placed
  BY <1>1, InboxMessages DEF VisitIInv
<1>3. asked' \in Nat
  BY <1>1 DEF VisitIInv, VisitTypeOK
<1> DEFINE s == <<>>
<1>4. s \in Seq(RoomMessage) /\ DOMAIN s = {}
  OBVIOUS
<1> HIDE DEF s
<1>5. QED
  BY <1>1, <1>2, <1>3, <1>4, RoomKeeps

LEMMA RoomAnswersKeeps == ASSUME VisitIInv, RoomAnswers PROVE VisitIInv'
<1>1. /\ UNCHANGED <<isDevelopment, bootAt, canvasReady, developmentFallback, fetches,
                     retryTimer, left, shown, restoreFailed, authority, stored, saves,
                     ticking, canvas, socket, drag, undone>>
      /\ asked > 0 /\ asked' = asked - 1 /\ VisitTypeOK
      /\ room' = [room EXCEPT !.joined = TRUE] \/ room' = room
  BY DEF RoomAnswers, dragVars, bootVars, resultVars, VisitIInv
<1>2. PICK t \in {"state", "fatal"} : inbox' = Append(inbox, Message(t))
  BY DEF RoomAnswers
<1> DEFINE s == <<Message(t)>>
<1>3. room' \in [placed : 0..Total, paused : BOOLEAN, joined : BOOLEAN, result : BOOLEAN]
      /\ room.placed' = room.placed
  BY <1>1, InboxMessages
<1>4. Message(t) \in RoomMessage /\ Message(t).placed = room.placed' /\ Message(t).type = t
  BY <1>3 DEF Message, RoomMessage
<1>5. /\ s \in Seq(RoomMessage) /\ inbox' = inbox \o s
      /\ \A k \in DOMAIN s : s[k].placed = room.placed' /\ s[k].type # "stats"
  BY <1>1, <1>2, <1>4, InboxMessages
<1> HIDE DEF s
<1>6. asked' \in Nat /\ socket = "open"
  BY <1>1 DEF VisitTypeOK, VisitIInv, PhaseInv, BootOrder
<1>7. QED
  BY <1>1, <1>3, <1>5, <1>6, RoomKeeps

-----------------------------------------------------------------------------
(* Messages are received *)

\* What is left of the inbox.
LEMMA InboxShrinks ==
  ASSUME VisitTypeOK, SolvedMessages, inbox # <<>>, inbox' = Tail(inbox),
         room' = room, undone' = undone,
         Head(inbox).type = "patch" /\ ~undone => canvas'.placed = Head(inbox).placed
  PROVE  /\ Head(inbox) \in RoomMessage /\ inbox' \in Seq(RoomMessage)
         /\ SolvedMessages'
         /\ Head(inbox).placed = Total =>
              room.placed = Total /\ \A i \in DOMAIN inbox' : inbox'[i].placed = Total
         /\ Head(inbox).type = "stats" /\ Head(inbox).placed = Total /\ ~undone =>
              canvas.placed = Total
         /\ (\A i \in DOMAIN inbox : inbox[i].placed = Total) =>
              /\ Head(inbox).placed = Total
              /\ \A i \in DOMAIN inbox' : inbox'[i].placed = Total
<1> DEFINE n == Len(inbox)
<1>1. /\ inbox \in Seq(RoomMessage) /\ n \in Nat /\ n > 0 /\ DOMAIN inbox = 1..n
      /\ Head(inbox) = inbox[1] /\ inbox' \in Seq(RoomMessage) /\ DOMAIN inbox' = 1..(n - 1)
      /\ \A i \in DOMAIN inbox' : i + 1 \in DOMAIN inbox /\ inbox'[i] = inbox[i + 1]
      /\ 1 \in DOMAIN inbox
  BY InboxMessages
<1> HIDE DEF n
<1>2. Head(inbox) \in RoomMessage
  BY <1>1
<1>3. \A i \in DOMAIN inbox' : inbox'[i].placed = Total => room.placed = Total
  BY <1>1 DEF SolvedMessages
<1>4. \A i, j \in DOMAIN inbox' :
        i < j /\ inbox'[i].placed = Total => inbox'[j].placed = Total
  <2> SUFFICES ASSUME NEW i \in DOMAIN inbox', NEW j \in DOMAIN inbox', i < j,
                      inbox'[i].placed = Total
               PROVE  inbox'[j].placed = Total
    OBVIOUS
  <2>1. i + 1 \in DOMAIN inbox /\ j + 1 \in DOMAIN inbox /\ i + 1 < j + 1
    BY <1>1
  <2>2. QED
    BY <1>1, <2>1 DEF SolvedMessages
<1>5. ~undone => \A i \in DOMAIN inbox' :
        inbox'[i].type = "stats" /\ inbox'[i].placed = Total =>
          IF i = 1 THEN canvas.placed' = Total
          ELSE inbox'[i - 1].type = "patch" /\ inbox'[i - 1].placed = Total
  <2> SUFFICES ASSUME ~undone, NEW i \in DOMAIN inbox',
                      inbox'[i].type = "stats", inbox'[i].placed = Total
               PROVE  IF i = 1 THEN canvas.placed' = Total
                      ELSE inbox'[i - 1].type = "patch" /\ inbox'[i - 1].placed = Total
    OBVIOUS
  <2>1. /\ i + 1 \in DOMAIN inbox /\ i + 1 # 1 /\ (i + 1) - 1 = i
        /\ inbox[i + 1].type = "stats" /\ inbox[i + 1].placed = Total
    BY <1>1
  <2>2. inbox[i].type = "patch" /\ inbox[i].placed = Total
    BY <2>1 DEF SolvedMessages
  <2>3. CASE i = 1
    BY <1>1, <2>2, <2>3
  <2>4. CASE i # 1
    <3>1. i - 1 \in DOMAIN inbox' /\ (i - 1) + 1 = i
      BY <1>1, <2>4
    <3>2. QED
      BY <1>1, <2>2, <2>4, <3>1
  <2>5. QED
    BY <2>3, <2>4
<1>6. SolvedMessages'
  BY <1>3, <1>4, <1>5 DEF SolvedMessages
<1>7. ASSUME Head(inbox).placed = Total
      PROVE  room.placed = Total /\ \A i \in DOMAIN inbox' : inbox'[i].placed = Total
  <2>1. \A i \in DOMAIN inbox' : 1 < i + 1 /\ i + 1 \in DOMAIN inbox
    BY <1>1
  <2>2. QED
    BY <1>1, <1>7, <2>1 DEF SolvedMessages
<1>8. Head(inbox).type = "stats" /\ Head(inbox).placed = Total /\ ~undone =>
        canvas.placed = Total
  BY <1>1 DEF SolvedMessages
<1>9. QED
  BY <1>1, <1>2, <1>6, <1>7, <1>8

\* The frame of Receive.
LEMMA ReceiveKeeps ==
  ASSUME VisitIInv, socket = "open",
         UNCHANGED <<isDevelopment, bootAt, canvasReady, developmentFallback, left, saves,
                     ticking, socket, room, undone>>,
         drag' \in {"none", "held", "overtaken"},
         inbox' \in Seq(RoomMessage), SolvedMessages', asked' \in Nat,
         shown' \in View, authority' \in 0..Total \cup {NoStats},
         canvas' \in [status : {"none", "app", "live"}, placed : 0..Total],
         canvas'.status = canvas.status,
         stored' \in BOOLEAN, restoreFailed' \in BOOLEAN, ~restoreFailed' => stored',
         shown'.phase \in {"active", "degraded"},
         shown'.phase = "active" => ~restoreFailed',
         shown'.session = "saving" <=> shown.session = "saving",
         shown'.session = "saved" => stored',
         fetches' \in Nat, retryTimer' \in BOOLEAN, PollInv', AnnouncedIsSettled',
         CompletionAnnouncedOnce'
  PROVE  VisitIInv'
<1>1. canvasReady /\ bootAt = "done" /\ ~left
  BY DEF VisitIInv, PhaseInv, BootOrder, NothingLeftBehind
<1>2. VisitTypeOK'
  BY DEF VisitIInv, VisitTypeOK, View, RoomMessage
<1>3. PhaseInv'
  <2>1. BootOrder'
    BY <1>1 DEF VisitIInv, PhaseInv, BootOrder
  <2>2. (PhaseSources /\ ActiveIsHealthy /\ NothingLeftBehind)'
    BY <1>1 DEF PhaseSources, ActiveIsHealthy, NothingLeftBehind
  <2>3. QED
    BY <2>1, <2>2 DEF PhaseInv
<1>4. SaveInv'
  BY <1>1 DEF VisitIInv, SaveInv, SavingIsShown, SavedMeansStored, SavesWait
<1>5. QED
  BY <1>2, <1>3, <1>4 DEF VisitIInv, AnnounceInv

\* The room's statistics announce a completion that the room and the canvas have.
LEMMA StatsAnnounce ==
  ASSUME VisitTypeOK, AnnounceInv, canvasReady, NEW placed \in 0..Total,
         UNCHANGED <<isDevelopment, canvasReady, developmentFallback, room, undone>>,
         authority' = placed, placed = Total /\ ~undone => canvas'.placed = Total,
         placed = Total => room.placed = Total /\ \A i \in DOMAIN inbox' : inbox'[i].placed = Total,
         (\A i \in DOMAIN inbox : inbox[i].placed = Total) => placed = Total,
         shown'.placed = placed, shown'.source = "reconciled",
         shown'.solved = (placed = Total),
         shown'.revision = IF placed = Total /\ (~shown.solved \/ shown.source = "optimistic")
                           THEN shown.revision + 1 ELSE shown.revision
  PROVE  (AnnouncedIsSettled /\ CompletionAnnouncedOnce)'
<1>1. shown.revision \in Nat
  BY DEF VisitTypeOK
<1>2. ASSUME ~isDevelopment
      PROVE  /\ shown'.revision > 0 => room.placed = Total
             /\ ~undone => /\ shown'.revision <= 1
                           /\ shown'.revision > 0 => placed = Total
  <2>1. CASE shown.revision = 0
    BY <1>1, <2>1
  <2>2. CASE shown.revision > 0
    <3>1. /\ room.placed = Total
          /\ ~undone => /\ shown.solved /\ shown.source = "reconciled"
                        /\ shown.revision <= 1 /\ placed = Total
      BY <1>1, <1>2, <2>2 DEF AnnounceInv, AnnouncedIsSettled, CompletionAnnouncedOnce
    <3>2. QED
      BY <3>1
  <2>3. QED
    BY <1>1, <2>1, <2>2
<1>3. CompletionAnnouncedOnce'
  BY <1>1, <1>2 DEF CompletionAnnouncedOnce
<1>4. AnnouncedIsSettled'
  BY <1>2 DEF AnnounceInv, AnnouncedIsSettled
<1>5. QED
  BY <1>3, <1>4

LEMMA RoomStateView ==
  ASSUME VisitTypeOK, NEW placed \in 0..Total, NEW paused \in BOOLEAN
  PROVE  LET v == WithStats(shown, placed, "reconciled", TRUE)
             w == [v EXCEPT !.paused = paused]
         IN  \A view \in {v, w} :
               /\ view \in View
               /\ view.phase = shown.phase /\ view.session = shown.session
               /\ view.connection = shown.connection /\ view.result = shown.result
               /\ view.placed = placed /\ view.source = "reconciled"
               /\ view.solved = (placed = Total)
               /\ view.revision = IF placed = Total
                                     /\ (~shown.solved \/ shown.source = "optimistic")
                                  THEN shown.revision + 1 ELSE shown.revision
<1> DEFINE v == WithStats(shown, placed, "reconciled", TRUE)
           w == [v EXCEPT !.paused = paused]
<1>1. \A told \in {"optimistic", "reconciled"}, yes \in BOOLEAN :
        LET u == WithStats(shown, placed, told, yes)
        IN  /\ u \in View
            /\ u.phase = shown.phase /\ u.session = shown.session
            /\ u.connection = shown.connection /\ u.result = shown.result
            /\ u.placed = placed /\ u.source = told /\ u.solved = (placed = Total)
            /\ yes => u.revision = IF placed = Total
                                      /\ (~shown.solved \/ shown.source = "optimistic")
                                   THEN shown.revision + 1 ELSE shown.revision
  BY ShownView, StatsView
<1>2. "reconciled" \in {"optimistic", "reconciled"} /\ TRUE \in BOOLEAN
  OBVIOUS
<1>3. /\ v \in View
      /\ v.phase = shown.phase /\ v.session = shown.session
      /\ v.connection = shown.connection /\ v.result = shown.result
      /\ v.placed = placed /\ v.source = "reconciled" /\ v.solved = (placed = Total)
      /\ v.revision = IF placed = Total /\ (~shown.solved \/ shown.source = "optimistic")
                      THEN shown.revision + 1 ELSE shown.revision
  BY <1>1, <1>2
<1> HIDE DEF v
<1>4. w \in View
  BY <1>3, ViewFields
<1>5. /\ w.phase = v.phase /\ w.session = v.session
      /\ w.connection = v.connection /\ w.result = v.result
      /\ w.placed = v.placed /\ w.source = v.source /\ w.solved = v.solved
      /\ w.revision = v.revision
  BY <1>3 DEF View
<1> HIDE DEF w
<1>6. QED
  BY <1>3, <1>4, <1>5 DEF v, w

LEMMA ReceiveKeepsVisit == ASSUME VisitIInv, Receive PROVE VisitIInv'
<1> DEFINE m == Head(inbox)
           seen == /\ shown' \in View /\ authority' \in 0..Total \cup {NoStats}
                   /\ canvas' \in [status : {"none", "app", "live"}, placed : 0..Total]
                   /\ canvas'.status = canvas.status
                   /\ m.type = "patch" /\ ~undone => canvas'.placed = m.placed
                   /\ asked' \in Nat
                   /\ stored' \in BOOLEAN /\ restoreFailed' \in BOOLEAN
                   /\ ~restoreFailed' => stored'
                   /\ shown'.phase \in {"active", "degraded"}
                   /\ shown'.phase = "active" => ~restoreFailed'
                   /\ shown'.session = "saving" <=> shown.session = "saving"
                   /\ shown'.session = "saved" => stored'
                   /\ fetches' \in Nat /\ retryTimer' \in BOOLEAN /\ PollInv'
                   /\ AnnouncedIsSettled' /\ CompletionAnnouncedOnce'
<1>1. /\ UNCHANGED <<isDevelopment, bootAt, canvasReady, developmentFallback, left, saves,
                     ticking, socket, room, undone>>
      /\ socket = "open" /\ inbox # <<>> /\ inbox' = Tail(inbox) /\ Apply(m)
      /\ drag' \in {"none", "held", "overtaken"}
      /\ VisitTypeOK /\ SolvedMessages /\ PollInv /\ AnnounceInv
  <2>1. drag' \in {"none", "held", "overtaken"}
    BY DEF Receive, DragAfter, VisitIInv, VisitTypeOK
  <2>2. QED
    BY <2>1 DEF Receive, bootVars, VisitIInv, AnnounceInv
<1>2. /\ canvasReady /\ bootAt = "done" /\ ~left
      /\ shown.phase \in {"active", "degraded"}
      /\ shown.phase = "active" => ~restoreFailed
  BY <1>1 DEF VisitIInv, PhaseInv, BootOrder, NothingLeftBehind, ActiveIsHealthy
<1>3. /\ ~restoreFailed => stored
      /\ shown.session = "saved" => stored
      /\ shown.session = "saving" <=> saves > 0
  BY <1>1, <1>2 DEF VisitIInv, VisitTypeOK, PhaseInv, PhaseSources, SaveInv, SavedMeansStored,
                    SavingIsShown
<1>4. /\ shown \in View /\ authority \in 0..Total \cup {NoStats} /\ asked \in Nat
      /\ canvas \in [status : {"none", "app", "live"}, placed : 0..Total]
      /\ stored \in BOOLEAN /\ restoreFailed \in BOOLEAN /\ fetches \in Nat
      /\ retryTimer \in BOOLEAN /\ saves \in Nat
  BY <1>1, ShownView DEF VisitTypeOK
<1>5. m \in RoomMessage
  BY <1>1, InboxMessages
<1>6. (m.type = "patch" /\ ~undone => canvas'.placed = m.placed) =>
        /\ inbox' \in Seq(RoomMessage) /\ SolvedMessages'
        /\ m.placed = Total =>
             room.placed = Total /\ \A i \in DOMAIN inbox' : inbox'[i].placed = Total
        /\ m.type = "stats" /\ m.placed = Total /\ ~undone => canvas.placed = Total
        /\ (\A i \in DOMAIN inbox : inbox[i].placed = Total) =>
             /\ m.placed = Total
             /\ \A i \in DOMAIN inbox' : inbox'[i].placed = Total
  BY <1>1, InboxShrinks
<1> HIDE DEF m
<1>7. CASE m.type \in {"state", "stats"}
  <2> DEFINE v == WithStats(shown, m.placed, "reconciled", TRUE)
             w == [v EXCEPT !.paused = m.paused]
  <2>1. PICK view \in {v, w} :
          /\ PublishAndPoll(view, view.solved /\ canvasReady)
          /\ authority' = m.placed
          /\ \/ m.type = "state" /\ canvas' = [canvas EXCEPT !.placed = m.placed]
             \/ m.type = "stats" /\ canvas' = canvas
          /\ UNCHANGED <<asked, restoreFailed, stored>>
    <3>1. CASE m.type = "state"
      BY <1>1, <3>1 DEF Apply
    <3>2. CASE m.type = "stats"
      <4>1. /\ PublishAndPoll(v, v.solved) /\ authority' = m.placed /\ canvas' = canvas
            /\ UNCHANGED <<asked, restoreFailed, stored>>
        BY <1>1, <3>2 DEF Apply
      <4>2. PublishAndPoll(v, v.solved /\ canvasReady)
        BY <1>2, <4>1 DEF PublishAndPoll, PollingStarts
      <4>3. QED
        BY <3>2, <4>1, <4>2
    <3>3. QED
      BY <1>7, <3>1, <3>2
  <2>2. m.placed \in 0..Total /\ m.paused \in BOOLEAN
    BY <1>5 DEF RoomMessage
  <2>3. /\ view \in View
        /\ view.phase = shown.phase /\ view.session = shown.session
        /\ view.connection = shown.connection /\ view.result = shown.result
        /\ view.placed = m.placed /\ view.source = "reconciled"
        /\ view.solved = (m.placed = Total)
        /\ view.revision = IF m.placed = Total
                              /\ (~shown.solved \/ shown.source = "optimistic")
                           THEN shown.revision + 1 ELSE shown.revision
    <3>1. \A u \in {v, w} :
            /\ u \in View
            /\ u.phase = shown.phase /\ u.session = shown.session
            /\ u.connection = shown.connection /\ u.result = shown.result
            /\ u.placed = m.placed /\ u.source = "reconciled"
            /\ u.solved = (m.placed = Total)
            /\ u.revision = IF m.placed = Total
                               /\ (~shown.solved \/ shown.source = "optimistic")
                            THEN shown.revision + 1 ELSE shown.revision
      <4>1. \A p \in 0..Total, q \in BOOLEAN :
              LET a == WithStats(shown, p, "reconciled", TRUE)
                  b == [a EXCEPT !.paused = q]
              IN  \A u \in {a, b} :
                    /\ u \in View
                    /\ u.phase = shown.phase /\ u.session = shown.session
                    /\ u.connection = shown.connection /\ u.result = shown.result
                    /\ u.placed = p /\ u.source = "reconciled"
                    /\ u.solved = (p = Total)
                    /\ u.revision = IF p = Total
                                       /\ (~shown.solved \/ shown.source = "optimistic")
                                    THEN shown.revision + 1 ELSE shown.revision
        BY <1>1, RoomStateView
      <4>2. QED
        BY ZenonT(40), <2>2, <4>1
    <3> HIDE DEF v, w
    <3>2. QED
      BY <3>1
  <2> DEFINE due == view.solved /\ canvasReady
  <2>4. PublishAndPoll(view, due)
    BY <2>1
  <2> HIDE DEF v, w, due
  <2>5. /\ shown' \in View
        /\ shown'.phase = shown.phase /\ shown'.session = shown.session
        /\ shown'.placed = m.placed /\ shown'.source = "reconciled"
        /\ shown'.solved = (m.placed = Total)
        /\ shown'.revision = IF m.placed = Total
                                /\ (~shown.solved \/ shown.source = "optimistic")
                             THEN shown.revision + 1 ELSE shown.revision
        /\ fetches' \in Nat /\ retryTimer' \in BOOLEAN /\ PollInv'
    BY <1>1, <2>3, <2>4, PublishKeepsPolling
  <2>6. /\ canvas' \in [status : {"none", "app", "live"}, placed : 0..Total]
        /\ canvas'.status = canvas.status
        /\ m.type = "state" => canvas'.placed = m.placed
        /\ m.type = "stats" => canvas'.placed = canvas.placed
        /\ m.type # "patch"
    BY <1>4, <1>7, <2>1, <2>2
  <2>7. (AnnouncedIsSettled /\ CompletionAnnouncedOnce)'
    BY <1>1, <1>2, <1>6, <1>7, <2>1, <2>2, <2>5, <2>6, StatsAnnounce
  <2>8. seen
    BY <1>2, <1>3, <1>4, <2>1, <2>2, <2>5, <2>6, <2>7
  <2> HIDE DEF seen
  <2>9. QED
    BY <1>1, <1>6, <2>6, <2>8, ReceiveKeeps DEF seen
<1>8. CASE m.type \notin {"state", "stats"}
  <2> DEFINE patched == \E placed \in 0..Total :
                          /\ canvas' = [canvas EXCEPT !.placed = placed]
                          /\ ~undone => placed = m.placed
  <2>1. /\ authority' = authority
        /\ UNCHANGED <<fetches, retryTimer>>
        /\ IF m.type = "patch" THEN patched ELSE canvas' = canvas
        /\ asked' = IF m.type \in {"paused", "error"} THEN asked + 1 ELSE asked
        /\ m.type # "player" => UNCHANGED <<restoreFailed, stored>>
    <3>1. CASE m.type = "patch"
      <4>1. m.placed \in 0..Total /\ Total \in Nat
        BY <1>5, TotalAssumption DEF RoomMessage
      <4>2. PICK placed \in PlacedByPatch(m.placed) :
              canvas' = [canvas EXCEPT !.placed = placed]
        BY <1>1, <3>1 DEF Apply
      <4>3. placed \in 0..Total /\ (~undone => placed = m.placed)
        BY <4>1, <4>2 DEF PlacedByPatch
      <4>4. patched
        BY <4>2, <4>3
      <4> HIDE DEF patched
      <4>5. QED
        BY <1>1, <3>1, <4>4 DEF Apply, resultVars
    <3>2. CASE m.type # "patch"
      BY <1>1, <1>5, <1>8, <3>2 DEF Apply, RoomMessage, resultVars
    <3>3. QED
      BY <3>1, <3>2
  <2> DEFINE told == /\ shown' \in View
                     /\ stored' \in BOOLEAN /\ restoreFailed' \in BOOLEAN
                     /\ ~restoreFailed' => stored'
                     /\ shown'.phase \in {"active", "degraded"}
                     /\ shown'.phase = "active" => ~restoreFailed'
                     /\ shown'.session = "saving" <=> shown.session = "saving"
                     /\ shown'.session = "saved" => stored'
                     /\ shown'.placed = shown.placed /\ shown'.source = shown.source
                     /\ shown'.solved = shown.solved /\ shown'.revision = shown.revision
                     /\ shown'.result = shown.result
  <2>2. told
    <3>1. CASE m.type \in {"patch", "error"}
      <4>1. shown' = shown
        BY <1>1, <3>1 DEF Apply
      <4>2. stored' = stored /\ restoreFailed' = restoreFailed
        BY <2>1, <3>1
      <4>3. QED
        BY <1>2, <1>3, <1>4, <4>1, <4>2
    <3>2. CASE m.type \in {"paused", "resumed"}
      <4>1. PICK x \in BOOLEAN : shown' = [shown EXCEPT !.paused = x]
        BY <1>1, <3>2 DEF Apply
      <4>2. shown' \in View
        BY <1>4, <4>1, ViewFields
      <4>3. /\ shown'.phase = shown.phase /\ shown'.session = shown.session
            /\ shown'.placed = shown.placed /\ shown'.source = shown.source
            /\ shown'.solved = shown.solved /\ shown'.revision = shown.revision
            /\ shown'.result = shown.result
        BY <1>4, <4>1 DEF View
      <4>4. QED
        BY <1>2, <1>3, <1>4, <2>1, <3>2, <4>2, <4>3
    <3>3. CASE m.type = "fatal"
      <4>1. shown' = [shown EXCEPT !.connection = "unavailable", !.phase = "degraded"]
        BY <1>1, <1>2, <3>3 DEF Apply
      <4>2. shown' \in View
        BY <1>4, <4>1 DEF View
      <4>3. /\ shown'.phase = "degraded" /\ shown'.session = shown.session
            /\ shown'.placed = shown.placed /\ shown'.source = shown.source
            /\ shown'.solved = shown.solved /\ shown'.revision = shown.revision
            /\ shown'.result = shown.result
        BY <1>4, <4>1 DEF View
      <4>4. QED
        BY <1>3, <1>4, <2>1, <3>3, <4>2, <4>3
    <3>4. CASE m.type = "player"
      <4>1. PICK persisted \in BOOLEAN :
              /\ stored' = persisted /\ restoreFailed' = ~persisted
              /\ shown' = WithPhaseIfReady(
                   [shown EXCEPT !.session = IF saves > 0 THEN "saving"
                                             ELSE SavedOrOffline(persisted)], ~persisted)
        BY <1>1, <3>4 DEF Apply
      <4> DEFINE x == IF saves > 0 THEN "saving" ELSE SavedOrOffline(persisted)
                 failed == ~persisted
      <4>2. /\ x \in {"local", "restoring", "saved", "saving", "offline", "error"}
            /\ x = "saving" <=> saves > 0
            /\ x = "saved" => persisted
        BY <4>1 DEF SavedOrOffline
      <4>3. /\ failed \in BOOLEAN /\ (failed <=> ~persisted)
            /\ shown' = WithPhaseIfReady([shown EXCEPT !.session = x], failed)
            /\ stored' \in BOOLEAN /\ restoreFailed' \in BOOLEAN
            /\ (stored' <=> persisted) /\ (restoreFailed' <=> ~persisted)
        BY <4>1
      <4> HIDE DEF x, failed
      <4>4. /\ shown' \in View /\ shown'.session = x
            /\ shown'.phase \in {"active", "degraded"}
            /\ shown'.phase = "active" => ~failed
            /\ shown'.placed = shown.placed /\ shown'.source = shown.source
            /\ shown'.solved = shown.solved /\ shown'.revision = shown.revision
            /\ shown'.result = shown.result
        BY <1>1, <1>2, <4>2, <4>3, PlayerView
      <4>5. QED
        BY <1>3, <4>2, <4>3, <4>4
    <3> HIDE DEF told
    <3>5. QED
      BY <1>5, <1>8, <3>1, <3>2, <3>3, <3>4 DEF RoomMessage
  <2>3. PollInv'
    BY <1>1, <2>1, <2>2 DEF PollInv, OneSeries, OnePollLives
  <2>4. m.placed \in 0..Total
    BY <1>5 DEF RoomMessage
  <2>5. /\ canvas' \in [status : {"none", "app", "live"}, placed : 0..Total]
        /\ canvas'.status = canvas.status
        /\ m.type # "patch" => canvas'.placed = canvas.placed
        /\ m.type = "patch" /\ ~undone => canvas'.placed = m.placed
        /\ asked' \in Nat
    BY <1>4, <2>1, <2>4
  <2>6. (AnnouncedIsSettled /\ CompletionAnnouncedOnce)'
    BY <1>1, <1>6, <2>1, <2>2, <2>5 DEF AnnounceInv, AnnouncedIsSettled, CompletionAnnouncedOnce
  <2>7. seen
    BY <1>4, <2>1, <2>2, <2>3, <2>5, <2>6
  <2> HIDE DEF seen
  <2>8. QED
    BY <1>1, <1>6, <2>5, <2>7, ReceiveKeeps DEF seen
<1>9. QED
  BY <1>7, <1>8

-----------------------------------------------------------------------------
(* The theorems *)

LEMMA VisitInitHolds == ASSUME VisitInit PROVE VisitIInv
<1>1. VisitTypeOK
  <2>1. /\ 0 \in 0..Total
        /\ \A x \in {"offline", "local"} :
             [phase |-> "starting", connection |-> "connecting", session |-> x,
              paused |-> FALSE, placed |-> 0, source |-> "optimistic",
              solved |-> FALSE, revision |-> 0, result |-> "idle"] \in View
    BY TotalAssumption DEF View
  <2>2. shown \in View
    BY <2>1 DEF VisitInit
  <2>3. /\ room \in [placed : 0..Total, paused : BOOLEAN, joined : BOOLEAN, result : BOOLEAN]
        /\ canvas \in [status : {"none", "app", "live"}, placed : 0..Total]
        /\ stored \in BOOLEAN /\ restoreFailed \in BOOLEAN
    BY <2>1 DEF VisitInit
  <2>4. /\ inbox \in Seq(RoomMessage) /\ authority \in 0..Total \cup {NoStats}
        /\ saves \in Nat /\ fetches \in Nat /\ asked \in Nat
        /\ bootAt = "queued" /\ socket = "none"
    BY DEF VisitInit
  <2>5. /\ isDevelopment \in BOOLEAN /\ left \in BOOLEAN /\ canvasReady \in BOOLEAN
        /\ developmentFallback \in BOOLEAN /\ retryTimer \in BOOLEAN /\ ticking \in BOOLEAN
        /\ drag = "none" /\ undone = FALSE
    BY DEF VisitInit
  <2>6. QED
    BY <2>2, <2>3, <2>4, <2>5 DEF VisitTypeOK, View, RoomMessage
<1>2. PhaseInv
  BY DEF VisitInit, PhaseInv, BootOrder, PhaseSources, ActiveIsHealthy, NothingLeftBehind
<1>3. SaveInv
  BY DEF VisitInit, SaveInv, SavingIsShown, SavedMeansStored, SavesWait
<1>4. PollInv
  BY DEF VisitInit, PollInv, OneSeries, OnePollLives
<1>5. AnnounceInv
  BY DEF VisitInit, AnnounceInv, SolvedMessages, AnnouncedIsSettled, CompletionAnnouncedOnce
<1>6. QED
  BY <1>1, <1>2, <1>3, <1>4, <1>5 DEF VisitIInv

LEMMA VisitStutters == ASSUME VisitIInv, UNCHANGED visitVars PROVE VisitIInv'
<1>1. VisitTypeOK'
  BY DEF VisitIInv, VisitTypeOK, visitVars
<1>2. PhaseInv'
  BY DEF VisitIInv, PhaseInv, BootOrder, PhaseSources, ActiveIsHealthy, NothingLeftBehind,
         ConnectionFailed, visitVars
<1>3. (SaveInv /\ PollInv)'
  BY DEF VisitIInv, SaveInv, SavingIsShown, SavedMeansStored, SavesWait, PollInv, OneSeries,
         OnePollLives, visitVars
<1>4. AnnounceInv'
  BY DEF VisitIInv, AnnounceInv, SolvedMessages, AnnouncedIsSettled, CompletionAnnouncedOnce,
         visitVars
<1>5. QED
  BY <1>1, <1>2, <1>3, <1>4 DEF VisitIInv

LEMMA VisitSteps == ASSUME VisitIInv, [VisitNext]_visitVars PROVE VisitIInv'
BY BootKeeps, RestorePlayerKeeps, LoadSnapshotKeeps, StartCanvasKeeps, BuildCanvasKeeps,
   EnterRoomKeeps, OpensKeeps, ClosesKeeps, ReceiveKeepsVisit, DragKeeps, SnapAloneKeeps,
   EmitTickKeeps,
   SaveProfileKeeps, ProfileSavedKeeps, FetchesKeep, LeaveKeeps, RoomSendsKeep,
   RoomFinalizesKeeps, RoomAnswersKeeps, VisitStutters
   DEF VisitNext

(***************************************************************************)
(* A visit shows what it has: it is active only with a stored player and a *)
(* live socket, saves and polls one at a time, announces a completion only *)
(* of a solved room, and once unless the room overtakes a drag of the      *)
(* player, and leaves nothing behind, for every puzzle, every order of     *)
(* snapshot, state, patches, statistics, drags and local snaps, and every  *)
(* await at which the page is left (room-visit.ts).                        *)
(***************************************************************************)
THEOREM VisitInvariant == VisitSpec => []VisitInv
<1>1. VisitIInv => VisitInv
  BY DEF VisitIInv, VisitInv, PhaseInv, SaveInv, PollInv, AnnounceInv
<1>2. QED
  BY <1>1, VisitInitHolds, VisitSteps, PTL DEF VisitSpec

\* After the visit has been left, each action finds its guard closed or keeps
\* what is shown.
LEMMA NothingShownAfterLeave ==
  ASSUME VisitIInv, VisitNext, left
  PROVE  shown' = shown
<1>1. socket \notin {"connecting", "open"}
  BY DEF VisitIInv, PhaseInv, NothingLeftBehind
<1>2. CASE Boot \/ RestorePlayer \/ LoadSnapshot
  BY <1>2 DEF Boot, RestorePlayer, LoadSnapshot
<1>3. CASE StartCanvas \/ BuildCanvas
  BY <1>3 DEF StartCanvas, BuildCanvas, CanvasFails
<1>4. CASE EnterRoom
  BY <1>4 DEF EnterRoom
<1>5. CASE Opens \/ Closes \/ Receive
  BY <1>1, <1>5 DEF Opens, Closes, Receive
<1>6. CASE PickUp \/ DragOn \/ PutDown \/ SnapAlone \/ QuickSolve \/ EmitTick
  BY <1>6 DEF PickUp, DragOn, PutDown, SnapAlone, QuickSolve, EmitTick
<1>7. CASE SaveProfile \/ ProfileSaved
  BY <1>7 DEF SaveProfile, CanSaveProfile, ProfileSaved
<1>8. CASE ResultReady \/ ResultPending \/ RetryResult \/ Leave
  BY <1>8 DEF ResultReady, ResultPending, RetryResult, Leave
<1>9. CASE RoomSnaps \/ RoomPauses \/ RoomUpdatesPlayer \/ RoomErrs
  BY <1>9 DEF RoomSnaps, RoomPauses, RoomUpdatesPlayer, RoomErrs, RoomActs
<1>10. CASE RoomFinalizes \/ RoomAnswers
  BY <1>10 DEF RoomFinalizes, RoomAnswers
<1>11. QED
  BY <1>2, <1>3, <1>4, <1>5, <1>6, <1>7, <1>8, <1>9, <1>10 DEF VisitNext

\* A failed visit has no canvas, so nothing computes a phase again.
LEMMA FailedStaysFailed ==
  ASSUME VisitIInv, VisitNext, shown.phase = "failed"
  PROVE  shown'.phase = "failed"
<1>1. /\ VisitTypeOK /\ bootAt = "done" /\ ~canvasReady /\ socket = "none"
      /\ canvas.status = "none"
  BY DEF VisitIInv, PhaseInv, BootOrder, VisitTypeOK
<1>2. ~(Boot \/ RestorePlayer \/ LoadSnapshot \/ StartCanvas \/ BuildCanvas \/ EnterRoom)
  BY <1>1 DEF Boot, RestorePlayer, LoadSnapshot, StartCanvas, BuildCanvas, EnterRoom
<1>3. ~(Opens \/ Closes \/ Receive \/ QuickSolve \/ EmitTick)
  BY <1>1 DEF Opens, Closes, Receive, QuickSolve, EmitTick
<1>4. CASE SaveProfile
  BY <1>1, <1>4, SessionView DEF SaveProfile
<1>5. CASE ProfileSaved
  <2>1. CASE shown' = shown
    BY <2>1
  <2>2. CASE shown' = [shown EXCEPT !.session = "error"]
    BY <1>1, <2>2, SessionView
  <2>3. ASSUME NEW persisted \in BOOLEAN,
               shown' = WithPhaseIfReady([shown EXCEPT !.session = SavedOrOffline(persisted)],
                                         ~persisted)
        PROVE  shown'.phase = "failed"
    <3>1. shown' = [shown EXCEPT !.session = SavedOrOffline(persisted)]
      BY <1>1, <2>3 DEF WithPhaseIfReady
    <3>2. SavedOrOffline(persisted) \in {"local", "restoring", "saved", "saving", "offline",
                                         "error"}
      BY DEF SavedOrOffline
    <3>3. QED
      BY <1>1, <3>1, <3>2, SessionView
  <2>4. QED
    BY <1>5, <2>1, <2>2, <2>3 DEF ProfileSaved
<1>6. CASE ResultReady
  BY <1>1, <1>6, ShownView DEF ResultReady, View
<1>7. CASE ResultPending \/ RetryResult \/ Leave
  BY <1>7 DEF ResultPending, RetryResult, Leave
<1>8. CASE RoomSnaps \/ RoomPauses \/ RoomUpdatesPlayer \/ RoomErrs
  BY <1>8 DEF RoomSnaps, RoomPauses, RoomUpdatesPlayer, RoomErrs, RoomActs
<1>9. CASE RoomFinalizes \/ RoomAnswers
  BY <1>9 DEF RoomFinalizes, RoomAnswers
<1>10. CASE PickUp \/ DragOn
  BY <1>10 DEF PickUp, DragOn
<1>11. CASE PutDown \/ SnapAlone
  <2>1. CASE UNCHANGED shown
    BY <2>1
  <2>2. ASSUME NEW placed \in 0..Total, EmitStats(placed) PROVE shown'.phase = "failed"
    <3>1. PollInv /\ UNCHANGED left
      BY <1>11 DEF VisitIInv, PutDown, SnapAlone, onlyCanvas
    <3>2. QED
      BY <1>1, <2>2, <3>1, EmitKeeps
  <2>3. canvas.placed \in 0..Total
    BY <1>1 DEF VisitTypeOK
  <2>4. QED
    BY <1>11, <2>1, <2>2, <2>3 DEF PutDown, SnapAlone
<1>12. QED
  BY <1>2, <1>3, <1>4, <1>5, <1>6, <1>7, <1>8, <1>9, <1>10, <1>11 DEF VisitNext

(***************************************************************************)
(* A visit that is over stays over: nothing is published once it has been  *)
(* left, after whichever await of the boot, of a save or of a fetch, and   *)
(* one that has failed stays failed, whatever arrives later (publish,      *)
(* fatalFailure).                                                          *)
(***************************************************************************)
THEOREM VisitOverIsOver == VisitSpec => OverIsOver
<1>1. VisitIInv /\ [VisitNext]_visitVars =>
        [/\ left => shown' = shown
         /\ shown.phase = "failed" => shown'.phase = "failed"]_visitVars
  BY NothingShownAfterLeave, FailedStaysFailed
<1>2. QED
  BY <1>1, VisitInitHolds, VisitSteps, PTL DEF VisitSpec, OverIsOver
=============================================================================
