----------------------------- MODULE UploadPanel -----------------------------
(***************************************************************************)
(* The status panel of an upload in one chat of the bot, and the prompt    *)
(* that asks a group to answer with photos. Both are messages that are     *)
(* deleted and sent anew below the photos. Updates of the chat are handled *)
(* one after the other, each with the session it has read and will write;  *)
(* the refresh that photos schedule runs from a timer, with the session of *)
(* the photo, while updates go on. The map statusPanels of the process     *)
(* holds the ids both agree on. A call of the Telegram API is one step: it *)
(* takes effect, or not, when it is answered or fails. An update that      *)
(* throws, or whose last write fails, leaves the session as it was.        *)
(***************************************************************************)
EXTENDS Naturals, FiniteSets

CONSTANTS
  Refresh,     \* places for refreshes from the timer that run at the same time
  MaxSent,     \* bound: messages that are sent
  MaxUpdates   \* bound: updates that are handled

Update == "update"

ASSUME PanelAssumption == Update \notin Refresh

Task == Refresh \cup {Update}
None == 0

VARIABLES
  chat,        \* the messages of the bot: [id, kind, upload]
  sent,        \* the last message id
  botSession,  \* bot_sessions: the session as it was last written
  panelState,  \* the chat's entry of statusPanels, or NoState
  states,      \* entries of statusPanels made so far: they are told apart
  tasks,       \* tasks[t]: the handler of an update, or a refresh, at an await
  updates,
  excused,     \* history: messages that nobody could know or delete
  crossed,     \* history: two refreshes of the panel overlapped
  lost         \* history: the process was restarted, a panel could not be
               \* sent, or the session of an update was not written

panelVars == <<chat, sent, botSession, panelState, states, tasks, updates,
               excused, crossed, lost>>

NoState == [entry |-> 0]
NoUpload == [upload |-> 0, panel |-> None, prompt |-> None, stale |-> {}]
Asleep == [pc |-> "asleep"]
At(t, pc) == tasks[t].pc = pc

PanelInit ==
  /\ chat = {} /\ sent = 0
  /\ botSession = NoUpload
  /\ panelState = NoState /\ states = 0
  /\ tasks = [t \in Task |-> Asleep]
  /\ updates = 0 /\ excused = {} /\ crossed = FALSE /\ lost = FALSE

-----------------------------------------------------------------------------
(* Helpers: the map of panels, deleting and sending.                       *)

\* getStatusPanel: the entry of the chat, which is made if there is none.
StateOfChat ==
  IF panelState # NoState THEN panelState
  ELSE [entry |-> states + 1, panel |-> None, prompt |-> None, turn |-> Update, timer |-> NoUpload]
Entries == IF panelState # NoState THEN states ELSE states + 1

Known(state, session, field) ==
  IF state # NoState /\ state[field] # None THEN state[field] ELSE session[field]

\* The check of a refresh after an await. Mutant: a refresh goes on anyway.
StillExpectedAlways(t) == TRUE
StillExpected(t) == tasks[t].expected => panelState.entry = tasks[t].state

\* deleteMessageSafe. The message is gone or stays; an error is remembered in
\* the session, unless it says that the message cannot be deleted, and what a
\* refresh remembers is written by nobody.
Outcome == [stays : BOOLEAN, remembered : BOOLEAN]
Fits(outcome, id) == id = None => ~outcome.stays /\ ~outcome.remembered

Delete(session, id, outcome) ==
  IF outcome.remembered THEN [session EXCEPT !.stale = @ \cup {id}] ELSE session
WithoutMessage(id, outcome) == IF outcome.stays THEN chat ELSE {m \in chat : m.id # id}
ExcusedBy(t, id, outcome) ==
  IF outcome.stays /\ (t # Update \/ ~outcome.remembered) THEN excused \cup {id} ELSE excused

\* A message that was sent is deleted again at once.
WithMessage(message, outcome) == IF outcome.stays THEN chat \cup {message} ELSE chat

\* A message whose sending has failed may have arrived all the same.
ArrivedOrNot(message) ==
  \/ UNCHANGED <<chat, excused>>
  \/ chat' = chat \cup {message} /\ excused' = excused \cup {message.id}

Message(kind, upload) == [id |-> sent + 1, kind |-> kind, upload |-> upload]

-----------------------------------------------------------------------------
(* refreshBottomStatus and refreshPhotoReplyPrompt.                        *)

Refreshing(t) == tasks[t].pc \in {"drop panel", "send panel"}

\* The panel's id is taken out of the entry before the message is deleted.
RefreshPanel(t, session, expected) ==
  /\ panelState' = [StateOfChat EXCEPT !.panel = None,
                      !.timer = IF expected THEN NoUpload ELSE StateOfChat.timer]
  /\ states' = Entries
  /\ tasks' = [tasks EXCEPT ![t] =
       [pc |-> "drop panel", session |-> [session EXCEPT !.panel = None], expected |-> expected,
        state |-> StateOfChat.entry, message |-> Known(StateOfChat, session, "panel")]]
  /\ crossed' = (crossed \/ \E u \in Task \ {t} : Refreshing(u))

DropPanel(t) ==
  /\ At(t, "drop panel")
  /\ \E outcome \in Outcome :
       LET id == tasks[t].message IN
       /\ Fits(outcome, id)
       /\ chat' = WithoutMessage(id, outcome)
       /\ excused' = ExcusedBy(t, id, outcome)
       /\ tasks' = [tasks EXCEPT ![t] =
            IF StillExpected(t)
            THEN [tasks[t] EXCEPT !.pc = "send panel", !.session = Delete(@, id, outcome)]
            ELSE Asleep]
  /\ UNCHANGED <<sent, botSession, panelState, states, updates, crossed, lost>>

\* What a refresh does once the panel is there: the prompt gets a turn of its
\* own, and its id is taken out of the entry as well.
TurnsToPrompt(t, state, session) ==
  /\ panelState' = [state EXCEPT !.turn = t, !.prompt = None]
  /\ tasks' = [tasks EXCEPT ![t] =
       [@ EXCEPT !.pc = "drop prompt", !.session = [session EXCEPT !.prompt = None],
                 !.message = Known(state, session, "prompt"), !.state = state.entry]]

\* The entry gets the panel's id.
Remembered(state, id) == [state EXCEPT !.panel = id]

\* The panel arrives: it is remembered, or deleted again if the upload was
\* cleared meanwhile.
SendPanel(t) ==
  /\ At(t, "send panel") /\ sent < MaxSent
  /\ sent' = sent + 1
  /\ LET session == tasks[t].session
         message == Message("panel", session.upload) IN
       IF StillExpected(t)
       THEN /\ chat' = chat \cup {message}
            /\ TurnsToPrompt(t, Remembered(StateOfChat, message.id),
                             [session EXCEPT !.panel = message.id])
            /\ states' = Entries
            /\ UNCHANGED excused
       ELSE /\ tasks' = [tasks EXCEPT ![t] = Asleep]
            /\ \E outcome \in Outcome :
                 /\ chat' = WithMessage(message, outcome)
                 /\ excused' = ExcusedBy(t, message.id, outcome)
            /\ UNCHANGED <<panelState, states>>
  /\ UNCHANGED <<botSession, updates, crossed, lost>>

\* The call fails, and the message may have arrived all the same; the refresh
\* goes on with the prompt, without asking whether it is still expected.
SendPanelFails(t) ==
  /\ At(t, "send panel") /\ sent < MaxSent
  /\ sent' = sent + 1
  /\ ArrivedOrNot(Message("panel", tasks[t].session.upload))
  /\ TurnsToPrompt(t, StateOfChat, tasks[t].session)
  /\ states' = Entries
  /\ lost' = TRUE
  /\ UNCHANGED <<botSession, updates, crossed>>

\* isCurrent of the prompt.
HasTurn(t) == panelState.entry = tasks[t].state /\ panelState.turn = t

\* An update has thrown, or its session could not be written: what it has
\* remembered and the upload it has begun are known to nobody.
Unwritten(session, known) ==
  /\ UNCHANGED botSession
  /\ excused' = known \cup (session.stale \ botSession.stale)
                  \cup {m.id : m \in {n \in chat' : n.upload = session.upload
                                                  /\ n.upload # botSession.upload}}
  /\ lost' = TRUE

\* The handler is done, and "known" is excused: an update writes its session.
Finished(t, session, known) ==
  /\ tasks' = [tasks EXCEPT ![t] = Asleep]
  /\ \/ /\ botSession' = IF t = Update THEN session ELSE botSession
        /\ excused' = known
        /\ UNCHANGED lost
     \/ t = Update /\ Unwritten(session, known)

DropPrompt(t) ==
  /\ At(t, "drop prompt")
  /\ \E outcome \in Outcome :
       LET id == tasks[t].message
           session == Delete(tasks[t].session, id, outcome) IN
       /\ Fits(outcome, id)
       /\ chat' = WithoutMessage(id, outcome)
       /\ IF HasTurn(t)
          THEN /\ tasks' = [tasks EXCEPT ![t].pc = "send prompt", ![t].session = session]
               /\ excused' = ExcusedBy(t, id, outcome)
               /\ UNCHANGED <<botSession, lost>>
          ELSE Finished(t, session, ExcusedBy(t, id, outcome))
  /\ UNCHANGED <<sent, panelState, states, updates, crossed>>

\* The prompt arrives: it is remembered, or deleted if another turn has begun.
SendPrompt(t) ==
  /\ At(t, "send prompt") /\ sent < MaxSent
  /\ sent' = sent + 1
  /\ LET message == Message("prompt", tasks[t].session.upload) IN
       IF HasTurn(t)
       THEN /\ chat' = chat \cup {message}
            /\ panelState' = [panelState EXCEPT !.prompt = message.id]
            /\ Finished(t, [tasks[t].session EXCEPT !.prompt = message.id], excused)
       ELSE \E outcome \in Outcome :
              /\ chat' = WithMessage(message, outcome)
              /\ Finished(t, Delete(tasks[t].session, message.id, outcome),
                          ExcusedBy(t, message.id, outcome))
              /\ UNCHANGED panelState
  /\ UNCHANGED <<states, updates, crossed>>

\* The call fails: there is no prompt, and the handler goes on to its end.
SendPromptFails(t) ==
  /\ At(t, "send prompt") /\ sent < MaxSent
  /\ sent' = sent + 1
  /\ LET message == Message("prompt", tasks[t].session.upload) IN
       \/ chat' = chat /\ Finished(t, tasks[t].session, excused)
       \/ /\ chat' = chat \cup {message}
          /\ Finished(t, tasks[t].session, excused \cup {message.id})
  /\ UNCHANGED <<panelState, states, updates, crossed>>

-----------------------------------------------------------------------------
(* Updates. The session is read when the handler starts.                   *)

StartsUpdate == At(Update, "asleep") /\ updates < MaxUpdates
NextUpdate == updates' = updates + 1
Stale(m) == m.id \in botSession.stale

\* /status, /new during an upload, "remove latest" and the buttons of the
\* viewer refresh the panel without an expected entry.
RefreshByUser ==
  /\ StartsUpdate /\ NextUpdate
  /\ botSession.upload # 0
  /\ RefreshPanel(Update, botSession, FALSE)
  /\ UNCHANGED <<chat, sent, botSession, excused, lost>>

\* A photo: stale messages are deleted, and a refresh is scheduled with this
\* session, in place of the one that was scheduled.
HandlePhoto ==
  /\ StartsUpdate /\ NextUpdate
  /\ botSession.upload # 0
  /\ \E kept \in SUBSET botSession.stale, staying \in SUBSET {m \in chat : Stale(m)} :
       /\ chat' = {m \in chat : ~Stale(m)} \cup staying
       /\ panelState' = [StateOfChat EXCEPT !.timer = [botSession EXCEPT !.stale = kept]]
       /\ Finished(Update, [botSession EXCEPT !.stale = kept],
                   excused \cup ({m.id : m \in staying} \ kept))
  /\ states' = Entries
  /\ UNCHANGED <<sent, crossed>>

\* clearStatusPanel: the ids are read and the entry with its timer is given up
\* first. /new clears what the last upload has left; building, canceling and
\* /reset end the upload.
ClearedSession(session) == [session EXCEPT !.panel = None, !.prompt = None]

ClearPanel(ends) ==
  /\ StartsUpdate /\ NextUpdate
  /\ IF ends THEN botSession.upload # 0 ELSE botSession.upload = 0 /\ states < MaxUpdates
  /\ LET prompt == Known(panelState, botSession, "prompt") IN
       tasks' = [tasks EXCEPT ![Update] =
         [pc |-> "clear panel", session |-> botSession, expected |-> FALSE, state |-> 0,
          message |-> Known(panelState, botSession, "panel"), prompt |-> prompt, ends |-> ends]]
  /\ panelState' = NoState
  /\ UNCHANGED <<chat, sent, botSession, states, excused, crossed, lost>>

DropClearedPanel ==
  /\ At(Update, "clear panel")
  /\ \E outcome \in Outcome :
       LET t == tasks[Update] IN
       /\ Fits(outcome, t.message)
       /\ chat' = WithoutMessage(t.message, outcome)
       /\ excused' = ExcusedBy(Update, t.message, outcome)
       /\ tasks' = [tasks EXCEPT ![Update] =
            [t EXCEPT !.pc = "clear prompt", !.message = t.prompt,
                      !.session = ClearedSession(Delete(@, t.message, outcome))]]
  /\ UNCHANGED <<sent, botSession, panelState, states, updates, crossed, lost>>

\* The upload ends with its session; /new goes on with the first panel. Either
\* asks the database first, and may throw: the upload that was to end runs on
\* without its panel.
DropClearedPrompt ==
  /\ At(Update, "clear prompt")
  /\ \E outcome \in Outcome :
       LET t == tasks[Update]
           session == Delete(t.session, t.message, outcome)
           known == ExcusedBy(Update, t.message, outcome) IN
       /\ Fits(outcome, t.message)
       /\ chat' = WithoutMessage(t.message, outcome)
       /\ \/ t.ends /\ Finished(Update, [session EXCEPT !.upload = 0], known)
          \/ /\ ~t.ends
             /\ tasks' = [tasks EXCEPT ![Update].pc = "send first",
                            ![Update].session = [session EXCEPT !.upload = updates]]
             /\ excused' = known
             /\ UNCHANGED <<botSession, lost>>
          \/ /\ ~t.ends
             /\ tasks' = [tasks EXCEPT ![Update] = Asleep]
             /\ Unwritten(session, known)
  /\ UNCHANGED <<sent, panelState, states, updates, crossed>>

SendFirstPanel ==
  /\ At(Update, "send first") /\ sent < MaxSent
  /\ sent' = sent + 1
  /\ LET session == tasks[Update].session
         message == Message("panel", session.upload) IN
       /\ chat' = chat \cup {message}
       /\ TurnsToPrompt(Update, Remembered(StateOfChat, message.id),
                        [session EXCEPT !.panel = message.id])
  /\ states' = Entries
  /\ UNCHANGED <<botSession, updates, excused, crossed, lost>>

\* The call fails: the user gets a text without buttons instead, and the prompt.
\* If this fails, too, the update has thrown.
SendFirstPanelFails ==
  /\ At(Update, "send first") /\ sent < MaxSent
  /\ sent' = sent + 1
  /\ LET session == tasks[Update].session
         message == Message("panel", session.upload) IN
       \/ /\ ArrivedOrNot(message)
          /\ TurnsToPrompt(Update, StateOfChat, session)
          /\ states' = Entries /\ lost' = TRUE
          /\ UNCHANGED botSession
       \/ /\ chat' \in {chat, chat \cup {message}}
          /\ tasks' = [tasks EXCEPT ![Update] = Asleep]
          /\ Unwritten(session, excused)
          /\ UNCHANGED <<panelState, states>>
  /\ UNCHANGED <<updates, crossed>>

-----------------------------------------------------------------------------
\* The timer fires, with the session of the photo that has set it.
TimerFires(t) ==
  /\ At(t, "asleep")
  /\ panelState # NoState /\ panelState.timer # NoUpload
  /\ RefreshPanel(t, panelState.timer, TRUE)
  /\ UNCHANGED <<chat, sent, botSession, updates, excused, lost>>

\* The process is lost: the map, the timers and the handlers are gone, the
\* sessions that were not written as well.
BotRestarts ==
  /\ panelState # NoState
  /\ panelState' = NoState
  /\ tasks' = [t \in Task |-> Asleep]
  /\ excused' = excused \cup {m.id : m \in chat}
  /\ lost' = TRUE
  /\ UNCHANGED <<chat, sent, botSession, states, updates, crossed>>

PanelNext ==
  \/ RefreshByUser \/ HandlePhoto
  \/ \E ends \in BOOLEAN : ClearPanel(ends)
  \/ DropClearedPanel \/ DropClearedPrompt
  \/ SendFirstPanel \/ SendFirstPanelFails
  \/ \E t \in Task : \/ DropPanel(t) \/ SendPanel(t) \/ SendPanelFails(t)
                     \/ DropPrompt(t) \/ SendPrompt(t) \/ SendPromptFails(t)
  \/ \E t \in Refresh : TimerFires(t)
  \/ BotRestarts

PanelSpec == PanelInit /\ [][PanelNext]_panelVars

-----------------------------------------------------------------------------
(* Correctness.                                                            *)

PanelTypeOK ==
  /\ \A m \in chat : m.id \in 1..sent /\ m.kind \in {"panel", "prompt"}
  /\ \A m, n \in chat : m.id = n.id => m = n
  /\ panelState # NoState => /\ panelState.entry \in 1..states
                             /\ panelState.panel \in 0..sent /\ panelState.prompt \in 0..sent
  /\ botSession.stale \subseteq 1..sent
  /\ botSession.upload = 0 => botSession.panel = None /\ botSession.prompt = None

Quiet == \A t \in Task : At(t, "asleep")
Shown(kind) == {m \in chat : m.kind = kind /\ m.id \notin botSession.stale \cup excused}

\* When nothing is under way, the panel whose buttons work is the only one, and
\* it belongs to the upload of the session: refreshes of an upload that was
\* cleared take their panel back (status.ts, refreshBottomStatus). Two
\* refreshes of the same upload that overlap may leave a second one, and there
\* may be messages that nobody knows of or can delete ("excused"): Telegram
\* refuses for good, an answer is lost, or the session that knew is not written.
OnePanel ==
  Quiet /\ ~crossed =>
    \A m \in Shown("panel") : /\ m.upload = botSession.upload
                              /\ m.id = Known(panelState, botSession, "panel")

\* The prompt needs no exception for overlapping refreshes: one whose turn is
\* over deletes the prompt it has sent (status.ts, refreshPhotoReplyPrompt).
OnePrompt ==
  Quiet =>
    \A m \in Shown("prompt") : /\ m.id = Known(panelState, botSession, "prompt")
                               /\ lost \/ m.upload = botSession.upload

\* A running upload has its panel, however refreshes and updates overlap and
\* deletions fail: the id that the buttons are compared with is the id of a
\* message that is there. This ends with a restart, with a panel that could not
\* be sent, and with an update that throws: /reset deletes the panel first, and
\* if its work on the database fails the upload runs on without one
\* (reset.ts:24, 43).
UploadHasPanel ==
  Quiet /\ ~lost /\ botSession.upload # 0 =>
    \E m \in chat : /\ m.kind = "panel" /\ m.upload = botSession.upload
                    /\ m.id = Known(panelState, botSession, "panel")

\* A chat at rest shows one panel and one prompt, those of the running upload,
\* however updates and refreshes overlap; what failures may leave is named above.
PanelInv ==
  /\ PanelTypeOK
  /\ OnePanel
  /\ OnePrompt
  /\ UploadHasPanel
=============================================================================
