----------------------------- MODULE BotProofs -----------------------------
(***************************************************************************)
(* Proofs about what the bot keeps: the stored composition agrees with its *)
(* pictures and its render, and is not listed again once it was deleted;   *)
(* the chat shows one panel and one prompt, those of the running upload.   *)
(* Both hold for any number of requests, refreshes and messages.           *)
(***************************************************************************)
EXTENDS CompositionStore, UploadPanel, FiniteSetTheorems, TLAPS

-----------------------------------------------------------------------------
(***************************************************************************)
(* A composition. Without overlapping writers one request at a time may    *)
(* touch the row and the objects; how far it has come says how they        *)
(* differ.                                                                 *)
(***************************************************************************)
RenderKind == {"save", "commit", "render", "room"}
WriterKind == RenderKind \cup {"delete", "reset"}
CallStep == {"mark", "render", "store image", "store preview", "update", "failing", "look up",
             "send", "drop sources", "drop preview", "drop image", "cancel"}
CallRecord == [kind : WriterKind \cup {"show"}, step : CallStep,
               layout : Layout \cup {NoLayout}, format : Format \cup {"none"}, seen : Nat]

StepFits(kind, step) ==
  \/ kind \in {"save", "commit"} /\ step \in {"render", "store preview", "update"}
  \/ kind = "render" /\ step \in {"mark", "render", "store image", "store preview",
                                  "update", "failing"}
  \/ kind = "room" /\ step \in {"render", "store image", "update"}
  \/ kind = "show" /\ step \in {"look up", "send"}
  \/ kind = "delete" /\ step \in {"drop sources", "drop preview", "drop image", "cancel"}
  \/ kind = "reset" /\ step \in {"drop sources", "cancel"}

\* What a request in its place carries.
CallFits(k) ==
  k.kind # "free" =>
    /\ StepFits(k.kind, k.step)
    /\ k.seen <= row.updatedAt
    /\ k.kind \in RenderKind \/ k.step = "send" => k.layout \in Layout
    /\ k.kind \in {"delete", "reset"} => k.layout = NoLayout
    /\ k.kind \in {"render", "room"} => k.format \in Format
    /\ k.kind \in {"save", "render", "room"} => row.layout # NoLayout

CallsFit == \A c \in Call : CallFits(calls[c])

\* The queue has each request that waits for its render once.
WaitsForRender(places, c) == places[c].kind # "free" /\ places[c].step = "render"
QueueFits ==
  /\ queue \in Seq(Call)
  /\ \A i, j \in 1 .. Len(queue) : queue[i] = queue[j] => i = j
  /\ \A i \in 1 .. Len(queue) : WaitsForRender(calls, queue[i])
  /\ \A c \in Call : WaitsForRender(calls, c) => \E i \in 1 .. Len(queue) : queue[i] = c

StoreTypes ==
  /\ row \in [status : Status, layout : Layout \cup {NoLayout},
              format : Format \cup {"none"}, updatedAt : Nat]
  /\ row.status \in Listed \cup {"processing"} => row.layout # NoLayout
  /\ images \in [Format -> Layout \cup {NoLayout}]
  /\ preview \in Layout \cup {NoLayout}
  /\ sources \in BOOLEAN /\ together \in BOOLEAN /\ stuck \in BOOLEAN
  /\ deleted \in BOOLEAN /\ outrun \in BOOLEAN
  /\ \A t \in DOMAIN fileIds : t \in Nat /\ t <= row.updatedAt /\ fileIds[t] \in Layout
  /\ calls \in [Call -> CallRecord \cup {Free}]

Is(c, kinds, steps) == calls[c].kind \in kinds /\ calls[c].step \in steps

\* A composition is being rendered, or a render did not say how it ended.
RenderIsUnderWay ==
  row.status = "processing" =>
    stuck \/ \E c \in Call : calls[c].kind = "render" /\ calls[c].step # "mark"

\* One writer at a time.
Writing(c) == calls[c].kind \in WriterKind
OneWriter == ~together => \A c, d \in Call : Writing(c) /\ Writing(d) => c = d

\* What a writer that is alone has left of the row it began with.
AloneAt(c) ==
  /\ Is(c, {"render"}, {"render", "store image", "store preview", "update", "failing"})
       => row.status = "processing"
  /\ Is(c, {"render"}, {"render", "store image", "store preview", "update"})
       => row.layout = calls[c].layout
  /\ Is(c, {"render"}, {"store preview", "update"}) => images[calls[c].format] = row.layout
  /\ Is(c, {"room"}, {"render", "store image", "update"}) => row.layout = calls[c].layout
  /\ Is(c, {"room"}, {"update"}) => images[calls[c].format] = row.layout
  /\ Is(c, {"delete"}, {"drop sources", "drop preview", "drop image"})
       => calls[c].format = row.format
  /\ Is(c, {"save", "commit", "render"}, {"update"}) => preview = calls[c].layout
  /\ Is(c, {"render"}, {"failing"}) => preview \in leftover

AloneFits == ~together => \A c \in Call : AloneAt(c)

CompletedFits ==
  ~together /\ row.status = "completed" =>
    /\ row.format \in Format
    /\ \/ images[row.format] = row.layout
       \/ /\ images[row.format] = NoLayout
          /\ NoLayout \in leftover \/ \E c \in Call : Is(c, {"delete"}, {"cancel"})

\* A picture that a request has put in the bucket and not yet in the row.
UnderWay(picture) ==
  \E c \in Call : Is(c, {"save", "commit"}, {"update"}) /\ calls[c].layout = picture
Replacing ==
  \E c \in Call : Is(c, {"render"}, {"render", "store image", "store preview"})

PreviewFits ==
  ~together => preview \in {row.layout, NoLayout} \cup leftover \/ UnderWay(preview) \/ Replacing

\* What Telegram has, or will have, of the row as it is.
Current(picture) == picture \in {row.layout} \cup leftover \/ UnderWay(picture)
CardsFit ==
  /\ row.status \notin Listed =>
       /\ row.updatedAt \notin DOMAIN fileIds
       /\ \A c \in Call : calls[c].kind = "show" => calls[c].seen # row.updatedAt
  /\ ~together =>
       /\ row.updatedAt \in DOMAIN fileIds => Current(fileIds[row.updatedAt])
       /\ \A c \in Call : Is(c, {"show"}, {"send"}) /\ calls[c].seen = row.updatedAt
            => Current(calls[c].layout)

\* Without the sources no request gets beyond its render, and none lists what
\* was deleted.
NothingRendered ==
  /\ DeletedStaysHidden
  /\ deleted => ~sources
  /\ ~sources /\ ~outrun =>
       \A c \in Call : ~Is(c, RenderKind, {"store image", "store preview", "update"})

StoreIInv ==
  /\ StoreTypes /\ CallsFit /\ QueueFits /\ RenderIsUnderWay
  /\ OneWriter /\ AloneFits /\ CompletedFits /\ PreviewFits /\ CardsFit /\ NothingRendered

-----------------------------------------------------------------------------
(***************************************************************************)
(* The panel and the prompt. Every message of the chat that is not stale   *)
(* is the one the entry knows, or about to be deleted by a handler.        *)
(***************************************************************************)
RefreshPc == {"drop panel", "send panel"}
PromptPc == {"drop prompt", "send prompt"}
ClearPc == {"clear panel", "clear prompt", "send first"}

SessionRecord == [upload : Nat, panel : 0 .. sent, prompt : 0 .. sent, stale : SUBSET (1 .. sent)]
EntryRecord == [entry : 1 .. states, panel : 0 .. sent, prompt : 0 .. sent, turn : Task,
                timer : SessionRecord]
RefreshTask == [pc : RefreshPc \cup PromptPc, session : SessionRecord, expected : BOOLEAN,
                state : 1 .. states, message : 0 .. sent]
ClearTask == [pc : ClearPc \cup PromptPc, session : SessionRecord, expected : {FALSE},
              state : 0 .. states, message : 0 .. sent, prompt : 0 .. sent, ends : BOOLEAN]
ChatMessage == [id : 1 .. sent, kind : {"panel", "prompt"}, upload : Nat]

Awake(t) == tasks[t].pc # "asleep"
HasEntry == panelState.entry # 0

PanelTypes ==
  /\ sent \in Nat /\ states \in Nat /\ updates \in Nat
  /\ chat \subseteq ChatMessage
  /\ \A m, n \in chat : m.id = n.id => m = n
  /\ botSession \in SessionRecord
  /\ panelState \in EntryRecord \cup {NoState}
  /\ tasks \in [Task -> RefreshTask \cup ClearTask \cup {Asleep}]
  /\ \A t \in Refresh : Awake(t) => tasks[t] \in RefreshTask /\ tasks[t].expected
  /\ Refreshing(Update) => tasks[Update] \in RefreshTask /\ ~tasks[Update].expected
  /\ tasks[Update].pc \in ClearPc => tasks[Update] \in ClearTask
  /\ tasks[Update].pc \in PromptPc => tasks[Update].state # 0
  /\ excused \subseteq 1 .. sent
  /\ crossed \in BOOLEAN /\ lost \in BOOLEAN

\* The session that is written in the end.
SessionNow == IF Awake(Update) THEN tasks[Update].session ELSE botSession
Clearing == tasks[Update].pc \in ClearPc

SessionsFit ==
  /\ botSession.upload = 0 => botSession.panel = None /\ botSession.prompt = None
  /\ Awake(Update) /\ tasks[Update].pc \notin {"clear panel", "clear prompt"}
       => tasks[Update].session.upload # 0
  /\ tasks[Update].pc \in {"clear prompt", "send first"}
       => tasks[Update].session.panel = None /\ tasks[Update].session.prompt = None
  /\ Awake(Update) => updates # 0

\* The entry and the handlers that belong to it.
BelongsToEntry(t) == tasks[t].state = panelState.entry
EntryFits ==
  /\ Clearing /\ HasEntry => lost /\ panelState.panel = None /\ panelState.timer = NoUpload
  /\ Clearing => \A t \in Refresh : Refreshing(t) => ~BelongsToEntry(t)
  /\ HasEntry /\ panelState.timer # NoUpload => panelState.timer.upload = SessionNow.upload
  /\ \A t \in Refresh : Awake(t) /\ BelongsToEntry(t) =>
       tasks[t].session.upload = SessionNow.upload \/ (lost /\ ~Refreshing(t))
  /\ \A t \in Task : tasks[t].pc \in PromptPc /\ BelongsToEntry(t) /\ panelState.turn = t =>
       panelState.prompt = None

\* Nobody is about to delete the panel that the entry knows.
PanelIsSafe ==
  HasEntry /\ panelState.panel # None =>
    /\ panelState.panel \notin botSession.stale \cup SessionNow.stale
    /\ panelState.panel \notin {panelState.prompt, panelState.timer.prompt, botSession.prompt}
    /\ \A t \in Task : Awake(t) =>
         panelState.panel \notin {tasks[t].message, tasks[t].session.prompt}
    /\ tasks[Update].pc = "clear panel" => panelState.panel # tasks[Update].prompt

Live(m) == m.id \notin SessionNow.stale \cup excused

PanelsKnown ==
  ~crossed =>
    \A m \in chat : m.kind = "panel" /\ Live(m) =>
      \/ HasEntry /\ panelState.panel = m.id /\ m.upload = SessionNow.upload
      \/ \E t \in Task : tasks[t].pc = "drop panel" /\ tasks[t].message = m.id
      \/ tasks[Update].pc = "clear panel" /\ tasks[Update].message = m.id

\* A refresh that will set the panel of the entry.
WillSend(t) == Refreshing(t) /\ (t = Update \/ BelongsToEntry(t))
OneRefresh ==
  ~crossed =>
    /\ \A t, u \in Task : Refreshing(t) /\ Refreshing(u) => t = u
    /\ HasEntry => \A t \in Task : WillSend(t) => panelState.panel = None

PromptsKnown ==
  \A m \in chat : m.kind = "prompt" /\ Live(m) =>
    \/ HasEntry /\ panelState.prompt = m.id /\ (lost \/ m.upload = SessionNow.upload)
    \/ \E t \in Task : tasks[t].pc = "drop prompt" /\ tasks[t].message = m.id
    \/ tasks[Update].pc = "clear panel" /\ tasks[Update].prompt = m.id
    \/ tasks[Update].pc = "clear prompt" /\ tasks[Update].message = m.id

UploadShown ==
  ~lost /\ SessionNow.upload # 0 /\ ~Clearing /\ (\A t \in Task : ~WillSend(t)) =>
    /\ HasEntry
    /\ \E m \in chat : /\ m.kind = "panel" /\ m.id = panelState.panel
                       /\ m.upload = SessionNow.upload

\* An upload begins when there is none, and what may be left of the last one
\* does not touch its entry; so nothing refers to it if its session is lost.
ClearsTheLast ==
  /\ tasks[Update].pc \in {"clear panel", "clear prompt"} =>
       /\ tasks[Update].session.upload = botSession.upload
       /\ tasks[Update].ends \/ botSession.upload = 0
  /\ tasks[Update].pc = "send first" => botSession.upload = 0
UploadBegins ==
  /\ ClearsTheLast
  /\ SessionNow.upload # botSession.upload =>
       /\ HasEntry => panelState.timer = NoUpload
       /\ \A t \in Refresh : Refreshing(t) => ~BelongsToEntry(t)

PanelIInv ==
  /\ PanelTypes /\ SessionsFit /\ EntryFits /\ PanelIsSafe
  /\ PanelsKnown /\ OneRefresh /\ PromptsKnown /\ UploadShown /\ UploadBegins

\* A place is free, or its request is none of the kind "free".
LEMMA CallKinds ==
  ASSUME NEW k \in CallRecord \cup {Free}
  PROVE  /\ k = Free <=> k.kind = "free"
         /\ k.kind # "free" <=> k \in CallRecord
         /\ k.kind \in WriterKind \cup {"show", "free"}
BY DEF CallRecord, Free, WriterKind, RenderKind

\* What becomes of the calls when the one of c goes on, or is over.
Others(c) == \A d \in Call \ {c} : calls'[d] = calls[d]
GoesTo(c, step) ==
  /\ Others(c)
  /\ calls'[c].kind = calls[c].kind /\ calls'[c].step = step
  /\ calls'[c].layout = calls[c].layout /\ calls'[c].format = calls[c].format
  /\ calls'[c].seen = calls[c].seen
  /\ calls' \in [Call -> CallRecord \cup {Free}]
Over(c) ==
  Others(c) /\ calls'[c].kind = "free" /\ calls' \in [Call -> CallRecord \cup {Free}]

LEMMA GoesOnFacts ==
  ASSUME StoreTypes, NEW c \in Call, calls[c].kind # "free", NEW step \in CallStep,
         GoesOn(c, step)
  PROVE  GoesTo(c, step)
<1>1. calls[c] \in CallRecord
  BY CallKinds DEF StoreTypes
<1>2. [calls[c] EXCEPT !.step = step] \in CallRecord
  BY <1>1 DEF CallRecord
<1>3. calls' = [calls EXCEPT ![c] = [calls[c] EXCEPT !.step = step]]
  BY DEF GoesOn
<1> QED
  BY <1>1, <1>2, <1>3 DEF StoreTypes, GoesTo, Others, CallRecord

LEMMA FinishesFacts ==
  ASSUME StoreTypes, NEW c \in Call, Finishes(c)
  PROVE  Over(c)
BY DEF StoreTypes, Over, Others, Finishes, Free

\* A call that is at a step, with what it carries.
LEMMA CallAt ==
  ASSUME StoreTypes, CallsFit, NEW c \in Call, Step(c) # "free"
  PROVE  /\ calls[c] \in CallRecord /\ calls[c].kind \in WriterKind \cup {"show"}
         /\ calls[c].step = Step(c) /\ CallFits(calls[c]) /\ StepFits(calls[c].kind, calls[c].step)
<1>1. calls[c] # Free
  BY DEF Step
<1>2. calls[c] \in CallRecord
  BY <1>1 DEF StoreTypes
<1> QED
  BY <1>1, <1>2, CallKinds DEF CallsFit, CallFits, Step, CallRecord

\* The row is updated, or stays; it does not lose its layout.
RowGoesOn ==
  /\ row'.updatedAt \in Nat /\ row.updatedAt <= row'.updatedAt
  /\ row.layout # NoLayout => row'.layout # NoLayout

LEMMA CallsFitStep ==
  ASSUME StoreTypes, CallsFit, NEW c \in Call, RowGoesOn,
         Over(c) \/ \E step \in CallStep : GoesTo(c, step) /\ StepFits(calls[c].kind, step)
           /\ step # "send"
  PROVE  CallsFit'
<1> SUFFICES ASSUME NEW d \in Call
             PROVE  CallFits(calls[d])'
  BY DEF CallsFit
<1>1. CallFits(calls[d]) /\ calls[d] \in CallRecord \cup {Free} /\ row.updatedAt \in Nat
  BY DEF CallsFit, StoreTypes
<1>2. calls[d].kind # "free" => calls[d].seen \in Nat
  BY <1>1, CallKinds DEF CallRecord
<1>3. CASE d # c
  <2>1. calls'[d] = calls[d]
    BY <1>3 DEF Over, GoesTo, Others
  <2> QED
    BY <1>1, <1>2, <2>1 DEF CallFits, RowGoesOn
<1>4. CASE d = c /\ Over(c)
  BY <1>4 DEF Over, CallFits
<1>5. ASSUME d = c, NEW step \in CallStep, GoesTo(c, step), StepFits(calls[c].kind, step),
               step # "send"
      PROVE  CallFits(calls[d])'
  BY <1>1, <1>2, <1>5 DEF CallFits, RowGoesOn, GoesTo
<1> QED
  BY <1>3, <1>4, <1>5

LEMMA OneWriterStep ==
  ASSUME OneWriter, NEW c \in Call, together' = together,
         Over(c) \/ \E step \in CallStep : GoesTo(c, step)
  PROVE  OneWriter'
BY DEF OneWriter, Writing, Over, GoesTo, Others, WriterKind, RenderKind

\* The writer that is alone is the only call whose place matters.
LEMMA OnlyWriter ==
  ASSUME OneWriter, NEW c \in Call, Writing(c), Others(c), ~together
  PROVE  \A d \in Call \ {c} : calls'[d] = calls[d] /\ calls[d].kind \notin WriterKind
BY DEF OneWriter, Writing, Others

LEMMA AloneStep ==
  ASSUME OneWriter, NEW c \in Call, Writing(c), Others(c), together' = together, AloneAt(c)'
  PROVE  AloneFits'
<1> SUFFICES ASSUME ~together, NEW d \in Call \ {c}
             PROVE  AloneAt(d)'
  BY DEF AloneFits
<1>1. calls'[d] = calls[d] /\ calls[d].kind \notin WriterKind
  BY OnlyWriter
<1>2. calls'[d].kind \notin {"render", "room", "save", "commit", "delete", "reset"}
  BY <1>1 DEF WriterKind, RenderKind
<1> QED
  BY <1>2 DEF AloneAt, Is

\* After an update of the row nothing that Telegram has is of the row.
LEMMA RowUpdatedStep ==
  ASSUME StoreTypes, CallsFit, NEW c \in Call, UNCHANGED fileIds,
         Over(c) \/ \E step \in CallStep : GoesTo(c, step),
         row'.updatedAt = row.updatedAt + 1
  PROVE  CardsFit'
<1>1. row'.updatedAt \notin DOMAIN fileIds /\ row.updatedAt \in Nat
  BY DEF StoreTypes
<1>2. ASSUME NEW d \in Call, calls'[d].kind = "show"
      PROVE  calls'[d].seen # row'.updatedAt
  <2>1. calls[d].kind = "show" /\ calls'[d].seen = calls[d].seen
    BY <1>2 DEF Over, GoesTo, Others
  <2>2. calls[d].seen <= row.updatedAt /\ calls[d].seen \in Nat
    BY <2>1, CallKinds DEF CallsFit, CallFits, StoreTypes, CallRecord
  <2> QED
    BY <1>1, <2>1, <2>2
<1> QED
  BY <1>1, <1>2 DEF CardsFit, Is

\* A call that goes on where no request is rendered leaves the queue as it is.
LEMMA QueueStep ==
  ASSUME QueueFits, NEW c \in Call, UNCHANGED queue, Others(c),
         ~WaitsForRender(calls, c), ~WaitsForRender(calls', c)
  PROVE  QueueFits'
<1>1. \A d \in Call : WaitsForRender(calls', d) <=> WaitsForRender(calls, d)
  BY DEF WaitsForRender, Others
<1> QED
  BY <1>1 DEF QueueFits

\* A request that comes to its render is appended.
LEMMA QueueAppend ==
  ASSUME QueueFits, NEW c \in Call, ~WaitsForRender(calls, c), queue' = Append(queue, c),
         Others(c), WaitsForRender(calls', c)
  PROVE  QueueFits'
<1> DEFINE n == Len(queue)
           q == Append(queue, c)
<1>1. /\ n \in Nat /\ Len(q) = n + 1 /\ q[n + 1] = c /\ q \in Seq(Call)
      /\ \A i \in 1 .. n : q[i] = queue[i]
  BY DEF QueueFits
<1>2. queue' = q
  OBVIOUS
<1>3. \A d \in Call \ {c} : WaitsForRender(calls', d) <=> WaitsForRender(calls, d)
  BY DEF WaitsForRender, Others
<1>4. \A i \in 1 .. n : queue[i] \in Call \ {c}
  BY DEF QueueFits
<1>5. \A i \in 1 .. n + 1 : i \in 1 .. n \/ i = n + 1
  BY <1>1
<1> HIDE DEF n, q
<1>6. \A i, j \in 1 .. n + 1 : q[i] = q[j] => i = j
  BY <1>1, <1>4, <1>5 DEF QueueFits, n
<1>7. \A i \in 1 .. n + 1 : WaitsForRender(calls', q[i])
  BY <1>1, <1>3, <1>4, <1>5 DEF QueueFits, n
<1>8. \A d \in Call : WaitsForRender(calls', d) => \E i \in 1 .. n + 1 : q[i] = d
  BY <1>1, <1>3 DEF QueueFits, n
<1> QED
  BY <1>1, <1>2, <1>6, <1>7, <1>8 DEF QueueFits

\* The head of the queue leaves it.
LEMMA QueueTail ==
  ASSUME QueueFits, NEW c \in Call, queue # << >>, Head(queue) = c, queue' = Tail(queue),
         Others(c), ~WaitsForRender(calls', c)
  PROVE  QueueFits'
<1> DEFINE n == Len(queue)
           q == Tail(queue)
<1>1. /\ n \in Nat /\ n > 0 /\ Len(q) = n - 1 /\ queue[1] = c /\ q \in Seq(Call)
      /\ \A i \in 1 .. n - 1 : q[i] = queue[i + 1]
  BY DEF QueueFits
<1>2. queue' = q
  OBVIOUS
<1>3. \A d \in Call \ {c} : WaitsForRender(calls', d) <=> WaitsForRender(calls, d)
  BY DEF WaitsForRender, Others
<1> HIDE DEF n, q
<1>4. \A i \in 1 .. n - 1 : i + 1 \in 1 .. n /\ i + 1 # 1 /\ 1 \in 1 .. n
  BY <1>1
<1>4a. /\ \A i, j \in 1 .. n : queue[i] = queue[j] => i = j
       /\ \A i \in 1 .. n : queue[i] \in Call
  BY DEF QueueFits, n
<1>5. \A i \in 1 .. n - 1 : q[i] \in Call \ {c}
  BY <1>1, <1>4, <1>4a
<1>6. ASSUME NEW i \in 1 .. n - 1, NEW j \in 1 .. n - 1, q[i] = q[j]
      PROVE  i = j
  <2>1. queue[i + 1] = queue[j + 1] /\ i + 1 \in 1 .. n /\ j + 1 \in 1 .. n
    BY <1>1, <1>4, <1>6
  <2>2. i + 1 = j + 1
    BY <1>4a, <2>1
  <2> QED
    BY <2>2
<1>7. \A i \in 1 .. n - 1 : WaitsForRender(calls', q[i])
  BY <1>1, <1>3, <1>4, <1>5 DEF QueueFits, n
<1>8. ASSUME NEW d \in Call, WaitsForRender(calls', d)
      PROVE  \E i \in 1 .. n - 1 : q[i] = d
  <2>1. d # c /\ WaitsForRender(calls, d)
    BY <1>3, <1>8
  <2>2. PICK j \in 1 .. n : queue[j] = d
    BY <2>1 DEF QueueFits, n
  <2>3. j - 1 \in 1 .. n - 1 /\ (j - 1) + 1 = j
    BY <1>1, <2>1, <2>2
  <2> QED
    BY <1>1, <2>2, <2>3
<1> QED
  BY <1>1, <1>2, <1>6, <1>7, <1>8 DEF QueueFits

LEMMA MarkProcessingKeeps ==
  ASSUME StoreIInv, NEW c \in Call, MarkProcessing(c)
  PROVE  StoreIInv'
<1>1. calls[c].kind = "render" /\ calls[c].step = "mark" /\ calls[c] \in CallRecord
      /\ calls[c].layout \in Layout
  BY CallAt DEF StoreIInv, StepFits, CallFits, MarkProcessing, RenderKind
<1>2. GoesTo(c, "render")
  BY <1>1, GoesOnFacts DEF StoreIInv, MarkProcessing, CallStep
<1>3. /\ row' = [status |-> "processing", layout |-> calls[c].layout, format |-> row.format,
                 updatedAt |-> row.updatedAt + 1]
      /\ UNCHANGED <<sources, images, preview, fileIds, started, together, deleted, outrun, leftover, stuck>>
      /\ queue' = Append(queue, c)
  BY DEF MarkProcessing, Updated, objects, onlyCalls, faults
<1>4. RowGoesOn
  BY <1>1, <1>3, StoreAssumption DEF StoreIInv, StoreTypes, RowGoesOn
<1>5. StoreTypes'
  BY <1>1, <1>2, <1>3, StoreAssumption DEF StoreIInv, StoreTypes, GoesTo, Status, Listed
<1>6. CallsFit'
  BY <1>1, <1>2, <1>4, CallsFitStep DEF StoreIInv, CallStep, StepFits
<1>7. QueueFits'
  BY <1>1, <1>2, <1>3, QueueAppend DEF StoreIInv, WaitsForRender, GoesTo
<1>8. RenderIsUnderWay'
  BY <1>1, <1>2, <1>3 DEF RenderIsUnderWay, GoesTo
<1>9. OneWriter'
  BY <1>2, <1>3, OneWriterStep DEF StoreIInv, CallStep
<1>10. AloneFits'
  BY <1>1, <1>2, <1>3, AloneStep
     DEF StoreIInv, AloneAt, Is, GoesTo, Writing, WriterKind, RenderKind
<1>11. CompletedFits'
  BY <1>3 DEF CompletedFits
<1>12. PreviewFits'
  BY <1>1, <1>2 DEF PreviewFits, Replacing, Is, GoesTo
<1>13. CardsFit'
  BY <1>2, <1>3, RowUpdatedStep DEF StoreIInv, CallStep
<1>14. NothingRendered'
  BY <1>1, <1>2, <1>3 DEF StoreIInv, NothingRendered, DeletedStaysHidden, Listed, Is, GoesTo, Others
<1> QED
  BY <1>5, <1>6, <1>7, <1>8, <1>9, <1>10, <1>11, <1>12, <1>13, <1>14 DEF StoreIInv

LEMMA RenderLayoutKeeps ==
  ASSUME StoreIInv, NEW c \in Call, RenderLayout(c)
  PROVE  StoreIInv'
<1> DEFINE step == IF calls[c].kind \in {"render", "room"} THEN "store image" ELSE "store preview"
<1>1. calls[c].kind \in RenderKind /\ calls[c].step = "render" /\ calls[c] \in CallRecord
      /\ StepFits(calls[c].kind, step)
  BY CallAt DEF StoreIInv, StepFits, CallFits, RenderLayout, RenderKind
<1>2. GoesTo(c, step) /\ step \in CallStep /\ step \notin {"render", "send"}
  BY <1>1, GoesOnFacts DEF StoreIInv, RenderLayout, CallStep, RenderKind
<1>3. /\ UNCHANGED <<row, sources, images, preview, fileIds, started, together, deleted, outrun, leftover, stuck>>
      /\ sources /\ queue # << >> /\ Head(queue) = c /\ queue' = Tail(queue)
  BY DEF RenderLayout, Rendered, objects, onlyCalls, faults
<1>4. RowGoesOn
  BY <1>3 DEF StoreIInv, StoreTypes, RowGoesOn
<1>5. StoreTypes'
  BY <1>2, <1>3 DEF StoreIInv, StoreTypes, GoesTo
<1>6. CallsFit'
  BY <1>1, <1>2, <1>4, CallsFitStep DEF StoreIInv
<1>7. QueueFits'
  BY <1>1, <1>2, <1>3, QueueTail DEF StoreIInv, WaitsForRender, GoesTo
<1>8. RenderIsUnderWay'
  BY <1>1, <1>2, <1>3 DEF StoreIInv, RenderIsUnderWay, GoesTo, Others
<1>9. OneWriter'
  BY <1>2, <1>3, OneWriterStep DEF StoreIInv
<1>10. AloneAt(c) \/ together
  BY DEF StoreIInv, AloneFits
<1>11. AloneFits'
  <2>1. CASE together
    BY <2>1, <1>3 DEF AloneFits
  <2>2. CASE ~together
    <3>1. AloneAt(c)'
      BY <1>1, <1>2, <1>3, <1>10, <2>2 DEF AloneAt, Is, GoesTo, RenderKind
    <3> QED
      BY <1>1, <1>2, <1>3, <3>1, AloneStep DEF StoreIInv, GoesTo, Writing, WriterKind
  <2> QED
    BY <2>1, <2>2 DEF StoreIInv, StoreTypes
<1>12. CompletedFits'
  BY <1>1, <1>2, <1>3 DEF StoreIInv, CompletedFits, Is, GoesTo, Others, RenderKind
<1>13. /\ \A picture : UnderWay(picture) => UnderWay(picture)'
       /\ Replacing => Replacing'
  BY <1>1, <1>2 DEF UnderWay, Replacing, Is, GoesTo, Others
<1>14. PreviewFits'
  BY <1>3, <1>13 DEF StoreIInv, PreviewFits
<1>15. CardsFit'
  <2>1. \A d \in Call : calls'[d].kind = "show" => calls'[d] = calls[d]
    BY <1>1, <1>2 DEF GoesTo, Others, RenderKind
  <2> QED
    BY <1>3, <1>13, <2>1 DEF StoreIInv, CardsFit, Is, Current
<1>16. NothingRendered'
  BY <1>3 DEF StoreIInv, NothingRendered, DeletedStaysHidden
<1> QED
  BY <1>5, <1>6, <1>7, <1>8, <1>9, <1>11, <1>12, <1>14, <1>15, <1>16 DEF StoreIInv

LEMMA StoreImageKeeps ==
  ASSUME StoreIInv, NEW c \in Call, StoreImage(c)
  PROVE  StoreIInv'
<1> DEFINE step == IF calls[c].kind = "render" THEN "store preview" ELSE "update"
<1>1. calls[c].kind \in {"render", "room"} /\ calls[c].step = "store image"
      /\ calls[c] \in CallRecord /\ calls[c].layout \in Layout /\ calls[c].format \in Format
      /\ StepFits(calls[c].kind, step)
  BY CallAt DEF StoreIInv, StepFits, CallFits, StoreImage, RenderKind
<1>2. GoesTo(c, step) /\ step \in CallStep /\ step \notin {"render", "send"}
  BY <1>1, GoesOnFacts DEF StoreIInv, StoreImage, CallStep
<1>3. /\ UNCHANGED <<row, sources, preview, fileIds, queue, started, together, deleted, outrun, leftover, stuck>>
      /\ images' = [images EXCEPT ![calls[c].format] = calls[c].layout]
  BY DEF StoreImage, onlyCalls, faults
<1>4. RowGoesOn
  BY <1>3 DEF StoreIInv, StoreTypes, RowGoesOn
<1>5. StoreTypes'
  BY <1>1, <1>2, <1>3 DEF StoreIInv, StoreTypes, GoesTo
<1>6. CallsFit'
  BY <1>1, <1>2, <1>4, CallsFitStep DEF StoreIInv
<1>7. QueueFits'
  BY <1>1, <1>2, <1>3, QueueStep DEF StoreIInv, WaitsForRender, GoesTo, Over
<1>8. RenderIsUnderWay'
  BY <1>1, <1>2, <1>3 DEF StoreIInv, RenderIsUnderWay, GoesTo, Others
<1>9. OneWriter'
  BY <1>2, <1>3, OneWriterStep DEF StoreIInv
<1>10. AloneAt(c) \/ together
  BY DEF StoreIInv, AloneFits
<1>11. images \in [Format -> Layout \cup {NoLayout}] /\ images'[calls[c].format] = calls[c].layout
  BY <1>1, <1>3 DEF StoreIInv, StoreTypes
<1>12. AloneFits'
  <2>1. CASE together
    BY <2>1, <1>3 DEF AloneFits
  <2>2. CASE ~together
    <3>1. AloneAt(c)'
      BY <1>1, <1>2, <1>3, <1>10, <1>11, <2>2 DEF AloneAt, Is, GoesTo
    <3> QED
      BY <1>1, <1>2, <1>3, <3>1, AloneStep DEF StoreIInv, GoesTo, Writing, WriterKind, RenderKind
  <2> QED
    BY <2>1, <2>2 DEF StoreIInv, StoreTypes
<1>13. CompletedFits'
  <2>1. ASSUME ~together, row.status = "completed"
        PROVE  images'[row.format] = images[row.format]
               \/ (row.format = calls[c].format /\ images'[row.format] = row.layout)
    BY <1>1, <1>3, <1>10, <1>11, <2>1 DEF StoreIInv, CompletedFits, AloneAt, Is
  <2>2. \A d \in Call : Is(d, {"delete"}, {"cancel"}) => Is(d, {"delete"}, {"cancel"})'
    BY <1>1, <1>2 DEF Is, GoesTo, Others
  <2> QED
    BY <1>3, <2>1, <2>2 DEF StoreIInv, CompletedFits
<1>14. /\ \A picture : UnderWay(picture) => UnderWay(picture)'
       /\ Replacing => Replacing'
  BY <1>1, <1>2 DEF UnderWay, Replacing, Is, GoesTo, Others
<1>15. PreviewFits'
  BY <1>3, <1>14 DEF StoreIInv, PreviewFits
<1>16. CardsFit'
  <2>1. \A d \in Call : calls'[d].kind = "show" => calls'[d] = calls[d]
    BY <1>1, <1>2 DEF GoesTo, Others
  <2> QED
    BY <1>3, <1>14, <2>1 DEF StoreIInv, CardsFit, Is, Current
<1>17. NothingRendered'
  BY <1>1, <1>2, <1>3 DEF StoreIInv, NothingRendered, DeletedStaysHidden, Listed, Is, GoesTo, Others, RenderKind
<1> QED
  BY <1>5, <1>6, <1>7, <1>8, <1>9, <1>12, <1>13, <1>15, <1>16, <1>17 DEF StoreIInv

LEMMA StorePreviewKeeps ==
  ASSUME StoreIInv, NEW c \in Call, StorePreview(c)
  PROVE  StoreIInv'
<1>1. calls[c].kind \in {"save", "commit", "render"} /\ calls[c].step = "store preview"
      /\ calls[c] \in CallRecord /\ calls[c].layout \in Layout
      /\ StepFits(calls[c].kind, "update")
  BY CallAt DEF StoreIInv, StepFits, CallFits, StorePreview, RenderKind
<1>2. GoesTo(c, "update") /\ "update" \in CallStep
  BY <1>1, GoesOnFacts DEF StoreIInv, StorePreview, CallStep
<1>3. /\ UNCHANGED <<row, sources, images, fileIds, queue, started, together, deleted, outrun, leftover, stuck>>
      /\ preview' = calls[c].layout
  BY DEF StorePreview, onlyCalls, faults
<1>4. RowGoesOn
  BY <1>3 DEF StoreIInv, StoreTypes, RowGoesOn
<1>5. StoreTypes'
  BY <1>1, <1>2, <1>3 DEF StoreIInv, StoreTypes, GoesTo
<1>6. CallsFit'
  BY <1>1, <1>2, <1>4, CallsFitStep DEF StoreIInv
<1>7. QueueFits'
  BY <1>1, <1>2, <1>3, QueueStep DEF StoreIInv, WaitsForRender, GoesTo, Over
<1>8. RenderIsUnderWay'
  BY <1>1, <1>2, <1>3 DEF StoreIInv, RenderIsUnderWay, GoesTo, Others
<1>9. OneWriter'
  BY <1>2, <1>3, OneWriterStep DEF StoreIInv
<1>10. AloneAt(c) \/ together
  BY DEF StoreIInv, AloneFits
<1>11. AloneFits'
  <2>1. CASE together
    BY <2>1, <1>3 DEF AloneFits
  <2>2. CASE ~together
    <3>1. AloneAt(c)'
      BY <1>1, <1>2, <1>3, <1>10, <2>2 DEF AloneAt, Is, GoesTo
    <3> QED
      BY <1>1, <1>2, <1>3, <3>1, AloneStep DEF StoreIInv, GoesTo, Writing, WriterKind, RenderKind
  <2> QED
    BY <2>1, <2>2 DEF StoreIInv, StoreTypes
<1>12. CompletedFits'
  BY <1>1, <1>2, <1>3 DEF StoreIInv, CompletedFits, Is, GoesTo, Others
<1>13. \A picture : UnderWay(picture) => UnderWay(picture)'
  BY <1>1, <1>2 DEF UnderWay, Is, GoesTo, Others
<1>14. PreviewFits'
  <2>1. CASE calls[c].kind \in {"save", "commit"}
    BY <1>2, <1>3, <2>1 DEF PreviewFits, UnderWay, Is, GoesTo
  <2>2. CASE calls[c].kind = "render"
    BY <1>1, <1>3, <1>10, <2>2 DEF PreviewFits, AloneAt, Is
  <2> QED
    BY <1>1, <2>1, <2>2
<1>15. CardsFit'
  <2>1. \A d \in Call : calls'[d].kind = "show" => calls'[d] = calls[d]
    BY <1>1, <1>2 DEF GoesTo, Others
  <2> QED
    BY <1>3, <1>13, <2>1 DEF StoreIInv, CardsFit, Is, Current
<1>16. NothingRendered'
  BY <1>1, <1>2, <1>3 DEF StoreIInv, NothingRendered, DeletedStaysHidden, Listed, Is, GoesTo, Others, RenderKind
<1> QED
  BY <1>5, <1>6, <1>7, <1>8, <1>9, <1>11, <1>12, <1>14, <1>15, <1>16 DEF StoreIInv

LEMMA UpdateRowKeeps ==
  ASSUME StoreIInv, NEW c \in Call, UpdateRow(c)
  PROVE  StoreIInv'
<1>1. calls[c].kind \in RenderKind /\ calls[c].step = "update"
      /\ calls[c] \in CallRecord /\ calls[c].layout \in Layout
      /\ (calls[c].kind \in {"render", "room"} => calls[c].format \in Format)
      /\ (calls[c].kind = "room" => row.layout # NoLayout)
  BY CallAt DEF StoreIInv, StepFits, CallFits, UpdateRow, RenderKind
<1>2. Over(c)
  BY <1>1, FinishesFacts DEF StoreIInv, UpdateRow
<1>3. UNCHANGED <<sources, images, preview, fileIds, queue, started, together, deleted, outrun, leftover, stuck>>
  BY DEF UpdateRow, objects, onlyCalls, faults
<1>4. \/ /\ calls[c].kind \in {"save", "commit"}
         /\ row' = [status |-> "ready", layout |-> calls[c].layout, format |-> row.format,
                    updatedAt |-> row.updatedAt + 1]
      \/ /\ calls[c].kind = "render"
         /\ row' = [status |-> "completed", layout |-> calls[c].layout,
                    format |-> calls[c].format, updatedAt |-> row.updatedAt + 1]
      \/ /\ calls[c].kind = "room"
         /\ row' = [status |-> "completed", layout |-> row.layout,
                    format |-> calls[c].format, updatedAt |-> row.updatedAt + 1]
  BY <1>1 DEF UpdateRow, UpdatedRow, Updated, RenderKind
<1>5. row' \in [status : Status, layout : Layout \cup {NoLayout},
                format : Format \cup {"none"}, updatedAt : Nat]
      /\ row'.updatedAt = row.updatedAt + 1
      /\ row'.layout # NoLayout /\ row'.status \in {"ready", "completed"}
      /\ (row'.status = "completed" => row'.format \in Format)
  <2>1. row.updatedAt + 1 \in Nat /\ row.format \in Format \cup {"none"}
        /\ row.layout \in Layout \cup {NoLayout} /\ calls[c].layout # NoLayout
    BY <1>1, StoreAssumption DEF StoreIInv, StoreTypes
  <2> QED
    BY <1>1, <1>4, <2>1 DEF Status
<1>6. RowGoesOn
  BY <1>5 DEF StoreIInv, StoreTypes, RowGoesOn
<1>7. StoreTypes'
  <2>1. row.updatedAt \in Nat
    BY DEF StoreIInv, StoreTypes
  <2> QED
    BY <1>2, <1>3, <1>5, <2>1 DEF StoreIInv, StoreTypes, Over
<1>8. CallsFit'
  BY <1>2, <1>6, CallsFitStep DEF StoreIInv
<1>9. QueueFits'
  BY <1>1, <1>2, <1>3, QueueStep DEF StoreIInv, WaitsForRender, GoesTo, Over
<1>10. RenderIsUnderWay'
  BY <1>5 DEF RenderIsUnderWay
<1>11. OneWriter'
  BY <1>2, <1>3, OneWriterStep DEF StoreIInv
<1>12. AloneAt(c) \/ together
  BY DEF StoreIInv, AloneFits
<1>13. AloneFits'
  <2>1. AloneAt(c)'
    BY <1>2 DEF AloneAt, Is, Over
  <2> QED
    BY <1>1, <1>2, <1>3, <2>1, AloneStep DEF StoreIInv, Over, Writing, WriterKind
<1>14. CompletedFits'
  BY <1>1, <1>3, <1>4, <1>5, <1>12 DEF CompletedFits, AloneAt, Is, RenderKind
<1>15. PreviewFits'
  <2>1. CASE together
    BY <1>3, <2>1 DEF PreviewFits
  <2>2. CASE ~together /\ calls[c].kind # "room"
    BY <1>1, <1>3, <1>4, <1>12, <2>2 DEF PreviewFits, AloneAt, Is, RenderKind
  <2>3. CASE ~together /\ calls[c].kind = "room"
    <3>1. \A d \in Call \ {c} : calls[d].kind \notin WriterKind
      BY <1>1, <1>2, <2>3, OnlyWriter DEF StoreIInv, Over, Writing, WriterKind
    <3>2. ~Replacing /\ ~UnderWay(preview)
      BY <2>3, <3>1 DEF Replacing, UnderWay, Is, WriterKind, RenderKind
    <3> QED
      BY <1>3, <1>4, <2>3, <3>2 DEF StoreIInv, PreviewFits
  <2> QED
    BY <2>1, <2>2, <2>3 DEF StoreIInv, StoreTypes
<1>16. CardsFit'
  BY <1>2, <1>3, <1>5, RowUpdatedStep DEF StoreIInv
<1>17. NothingRendered'
  <2>1. sources \/ outrun
    BY <1>1 DEF StoreIInv, NothingRendered, Is
  <2> QED
    BY <1>3, <2>1 DEF StoreIInv, NothingRendered, DeletedStaysHidden
<1> QED
  BY <1>7, <1>8, <1>9, <1>10, <1>11, <1>13, <1>14, <1>15, <1>16, <1>17 DEF StoreIInv

LEMMA LookUpPreviewKeeps ==
  ASSUME StoreIInv, NEW c \in Call, LookUpPreview(c)
  PROVE  StoreIInv'
<1>1. calls[c].kind = "show" /\ calls[c].step = "look up" /\ calls[c] \in CallRecord
      /\ CallFits(calls[c])
  BY CallAt DEF StoreIInv, StepFits, LookUpPreview
<1>2. UNCHANGED <<row, sources, images, preview, fileIds, queue, started, together, deleted,
        outrun, leftover, stuck>>
  BY DEF LookUpPreview, onlyCalls, faults, objects
<1>3. \/ Over(c)
      \/ /\ Others(c) /\ calls' \in [Call -> CallRecord \cup {Free}]
         /\ calls'[c].kind = "show" /\ calls'[c].step = "send" /\ calls'[c].layout = preview
         /\ calls'[c].seen = calls[c].seen /\ preview \in Layout
  <2>1. CASE Finishes(c)
    BY <2>1, FinishesFacts DEF StoreIInv
  <2>2. CASE /\ preview # NoLayout
             /\ calls' = [calls EXCEPT ![c].step = "send", ![c].layout = preview]
    <3>1. [calls[c] EXCEPT !.step = "send", !.layout = preview] \in CallRecord
      BY <1>1 DEF CallRecord, CallStep, StoreIInv, StoreTypes
    <3>2. calls' = [calls EXCEPT ![c] = [calls[c] EXCEPT !.step = "send", !.layout = preview]]
      BY <2>2
    <3>3. calls'[c] = [calls[c] EXCEPT !.step = "send", !.layout = preview]
      BY <3>2 DEF StoreIInv, StoreTypes
    <3>4. calls'[c].kind = "show" /\ calls'[c].step = "send" /\ calls'[c].layout = preview
          /\ calls'[c].seen = calls[c].seen
      BY <1>1, <3>3 DEF CallRecord
    <3>5. Others(c) /\ calls' \in [Call -> CallRecord \cup {Free}]
      BY <3>1, <3>2 DEF StoreIInv, StoreTypes, Others
    <3>6. preview \in Layout
      BY <2>2 DEF StoreIInv, StoreTypes
    <3> QED
      BY <3>4, <3>5, <3>6
  <2> QED
    BY <2>1, <2>2 DEF LookUpPreview
<1>4. Others(c) /\ calls' \in [Call -> CallRecord \cup {Free}]
  BY <1>3 DEF Over
<1>5. \A d \in Call : d # c => calls'[d] = calls[d]
  BY <1>4 DEF Others
<1>6. calls'[c].kind \in {"show", "free"} /\ (calls'[c].kind = "show" => calls'[c].step = "send")
  BY <1>3 DEF Over
<1>7. StoreTypes'
  BY <1>2, <1>4 DEF StoreIInv, StoreTypes
<1>8. CallsFit'
  <2>1. CallFits(calls[c])'
    BY <1>1, <1>2, <1>3 DEF CallFits, Over, StepFits, RenderKind
  <2> QED
    BY <1>2, <1>5, <2>1 DEF StoreIInv, CallsFit, CallFits
<1>9. QueueFits'
  BY <1>1, <1>2, <1>4, <1>6, QueueStep DEF StoreIInv, WaitsForRender
<1>10. RenderIsUnderWay'
  BY <1>1, <1>2, <1>5 DEF StoreIInv, RenderIsUnderWay
<1>11. OneWriter'
  BY <1>2, <1>5, <1>6 DEF StoreIInv, OneWriter, Writing, WriterKind, RenderKind
<1>12. AloneFits'
  BY <1>2, <1>5, <1>6 DEF StoreIInv, AloneFits, AloneAt, Is
<1>13. CompletedFits'
  BY <1>1, <1>2, <1>5 DEF StoreIInv, CompletedFits, Is
<1>14. /\ \A picture : UnderWay(picture) => UnderWay(picture)'
       /\ Replacing => Replacing'
  BY <1>1, <1>5 DEF UnderWay, Replacing, Is
<1>15. PreviewFits'
  BY <1>2, <1>14 DEF StoreIInv, PreviewFits
<1>16. CardsFit'
  <2>1. \A d \in Call : calls'[d].kind = "show" => calls[d].kind = "show"
          /\ calls'[d].seen = calls[d].seen
    BY <1>1, <1>3, <1>5 DEF Over
  <2>2. \A picture : Current(picture) => Current(picture)'
    BY <1>2, <1>14 DEF Current
  <2>3. ASSUME ~together, calls'[c].kind = "show", calls[c].seen = row.updatedAt
        PROVE  Current(preview)
    <3>1. row.status \in Listed
      BY <1>1, <2>3 DEF StoreIInv, CardsFit
    <3>2. ~Replacing
      BY <2>3, <3>1 DEF StoreIInv, AloneFits, AloneAt, Replacing, Is, Listed
    <3>3. preview # NoLayout
      BY <1>3, <2>3, StoreAssumption DEF Over
    <3> QED
      BY <2>3, <3>2, <3>3 DEF StoreIInv, PreviewFits, Current
  <2>4. ASSUME ~together, NEW d \in Call, Is(d, {"show"}, {"send"})', calls'[d].seen = row.updatedAt
        PROVE  Current(calls[d].layout)'
    <3>1. CASE d = c
      BY <1>1, <1>3, <2>2, <2>3, <2>4, <3>1 DEF Is, Over
    <3>2. CASE d # c
      BY <1>5, <2>2, <2>4, <3>2 DEF StoreIInv, CardsFit, Is
    <3> QED
      BY <3>1, <3>2
  <2> QED
    BY <1>2, <2>1, <2>2, <2>4 DEF StoreIInv, CardsFit
<1>17. NothingRendered'
  BY <1>2, <1>5, <1>6 DEF StoreIInv, NothingRendered, DeletedStaysHidden, Is, RenderKind
<1> QED
  BY <1>7, <1>8, <1>9, <1>10, <1>11, <1>12, <1>13, <1>15, <1>16, <1>17 DEF StoreIInv

LEMMA SendPreviewKeeps ==
  ASSUME StoreIInv, NEW c \in Call, SendPreview(c)
  PROVE  StoreIInv'
<1>1. calls[c].kind = "show" /\ calls[c].step = "send" /\ calls[c] \in CallRecord
      /\ calls[c].seen <= row.updatedAt /\ calls[c].layout \in Layout /\ calls[c].seen \in Nat
  BY CallAt DEF StoreIInv, StepFits, CallFits, SendPreview, CallRecord
<1>2. UNCHANGED <<row, sources, images, preview, queue, started, together, deleted, outrun, leftover, stuck>>
  BY DEF SendPreview, onlyCalls, faults, objects
<1>3. Over(c)
  BY FinishesFacts DEF StoreIInv, SendPreview
<1>4. /\ DOMAIN fileIds' = DOMAIN fileIds \cup {calls[c].seen}
      /\ fileIds'[calls[c].seen] = calls[c].layout
      /\ \A t \in DOMAIN fileIds \ {calls[c].seen} : fileIds'[t] = fileIds[t]
  BY DEF SendPreview, SentUnder
<1>5. RowGoesOn
  BY <1>2 DEF StoreIInv, StoreTypes, RowGoesOn
<1>6. StoreTypes'
  BY <1>1, <1>2, <1>3, <1>4 DEF StoreIInv, StoreTypes, Over
<1>7. CallsFit'
  BY <1>3, <1>5, CallsFitStep DEF StoreIInv
<1>8. QueueFits'
  BY <1>1, <1>2, <1>3, QueueStep DEF StoreIInv, WaitsForRender, Over
<1>9. RenderIsUnderWay'
  BY <1>1, <1>2, <1>3 DEF StoreIInv, RenderIsUnderWay, Over, Others
<1>10. OneWriter'
  BY <1>2, <1>3, OneWriterStep DEF StoreIInv
<1>11. \A d \in Call : calls'[d].kind # "free" => calls'[d] = calls[d] /\ d # c
  BY <1>3 DEF Over, Others
<1>12. AloneFits'
  <2> SUFFICES ASSUME ~together, NEW d \in Call
               PROVE  AloneAt(d)'
    BY <1>2 DEF AloneFits
  <2>1. AloneAt(d)
    BY DEF StoreIInv, AloneFits
  <2>2. CASE calls'[d].kind = "free"
    BY <2>2 DEF AloneAt, Is
  <2>3. CASE calls'[d].kind # "free"
    <3>1. calls'[d] = calls[d]
      BY <1>11, <2>3
    <3> QED
      BY <1>2, <2>1, <3>1 DEF AloneAt, Is
  <2> QED
    BY <2>2, <2>3
<1>13. CompletedFits'
  BY <1>1, <1>2, <1>3 DEF StoreIInv, CompletedFits, Is, Over, Others
<1>14. /\ \A picture : UnderWay(picture) => UnderWay(picture)'
       /\ Replacing => Replacing'
  BY <1>1, <1>3 DEF UnderWay, Replacing, Is, Over, Others
<1>15. PreviewFits'
  BY <1>2, <1>14 DEF StoreIInv, PreviewFits
<1>16. CardsFit'
  <2>1. \A picture : Current(picture) => Current(picture)'
    BY <1>2, <1>14 DEF Current
  <2>2. row.status \notin Listed => calls[c].seen # row.updatedAt
    BY <1>1 DEF StoreIInv, CardsFit
  <2>3. ASSUME ~together, row.updatedAt \in DOMAIN fileIds'
        PROVE  Current(fileIds'[row.updatedAt])
    <3>1. CASE calls[c].seen = row.updatedAt
      BY <1>1, <1>4, <2>3, <3>1 DEF StoreIInv, CardsFit, Is
    <3>2. CASE calls[c].seen # row.updatedAt
      BY <1>4, <2>3, <3>2 DEF StoreIInv, CardsFit
    <3> QED
      BY <3>1, <3>2
  <2>4. \A d \in Call : calls'[d].kind = "show" => calls'[d] = calls[d]
    BY <1>11
  <2> QED
    BY <1>2, <1>4, <2>1, <2>2, <2>3, <2>4 DEF StoreIInv, CardsFit, Is
<1>17. NothingRendered'
  BY <1>2, <1>11 DEF StoreIInv, NothingRendered, DeletedStaysHidden, Listed, Is, RenderKind
<1> QED
  BY <1>6, <1>7, <1>8, <1>9, <1>10, <1>12, <1>13, <1>15, <1>16, <1>17 DEF StoreIInv

LEMMA FileIdExpiresKeeps ==
  ASSUME StoreIInv, FileIdExpires
  PROVE  StoreIInv'
<1>1. PICK t \in DOMAIN fileIds : fileIds' = [u \in DOMAIN fileIds \ {t} |-> fileIds[u]]
  BY DEF FileIdExpires
<1>2. UNCHANGED <<row, sources, images, preview, calls, queue, started, together, deleted, outrun, leftover, stuck>>
  BY DEF FileIdExpires, onlyCalls, faults, objects
<1>3. StoreTypes'
  BY <1>1, <1>2 DEF StoreIInv, StoreTypes
<1>4. CardsFit'
  BY <1>1, <1>2 DEF StoreIInv, CardsFit, Is, Current, UnderWay
<1>5. CallsFit' /\ QueueFits' /\ RenderIsUnderWay' /\ OneWriter'
  BY <1>2 DEF StoreIInv, CallsFit, CallFits, QueueFits, WaitsForRender, RenderIsUnderWay,
              OneWriter, Writing
<1>6. AloneFits' /\ CompletedFits' /\ PreviewFits' /\ NothingRendered'
  BY <1>2 DEF StoreIInv, AloneFits, AloneAt, CompletedFits, PreviewFits, UnderWay, Replacing,
              NothingRendered, DeletedStaysHidden, Listed, Is
<1> QED
  BY <1>3, <1>4, <1>5, <1>6 DEF StoreIInv

LEMMA DropSourcesKeeps ==
  ASSUME StoreIInv, NEW c \in Call, DropSources(c)
  PROVE  StoreIInv'
<1> DEFINE step == IF calls[c].kind = "delete" THEN "drop preview" ELSE "cancel"
<1>1. calls[c].kind \in {"delete", "reset"} /\ calls[c].step = "drop sources"
      /\ calls[c] \in CallRecord /\ StepFits(calls[c].kind, step)
  BY CallAt DEF StoreIInv, StepFits, DropSources
<1>2. GoesTo(c, step) /\ step \in CallStep /\ step \notin {"render", "send"}
  BY <1>1, GoesOnFacts DEF StoreIInv, DropSources, CallStep
<1>3. /\ UNCHANGED <<row, images, preview, fileIds, queue, started, together, deleted, leftover, stuck>>
      /\ outrun' \in BOOLEAN
      /\ sources' \in BOOLEAN
  BY DEF DropSources, onlyCalls, faults, StoreIInv, StoreTypes
<1>4. RowGoesOn
  BY <1>3 DEF StoreIInv, StoreTypes, RowGoesOn
<1>5. StoreTypes'
  BY <1>2, <1>3 DEF StoreIInv, StoreTypes, GoesTo
<1>6. CallsFit'
  BY <1>1, <1>2, <1>4, CallsFitStep DEF StoreIInv
<1>7. QueueFits'
  BY <1>1, <1>2, <1>3, QueueStep DEF StoreIInv, WaitsForRender, GoesTo
<1>8. RenderIsUnderWay'
  BY <1>1, <1>2, <1>3 DEF StoreIInv, RenderIsUnderWay, GoesTo, Others
<1>9. OneWriter'
  BY <1>2, <1>3, OneWriterStep DEF StoreIInv
<1>10. Others(c) /\ Writing(c)
  BY <1>1, <1>2 DEF GoesTo, Writing, WriterKind
<1>11. AloneFits'
  <2>1. CASE together
    BY <2>1, <1>3 DEF AloneFits
  <2>2. CASE ~together
    <3>1. AloneAt(c)
      BY <2>2 DEF StoreIInv, AloneFits
    <3>2. AloneAt(c)'
      BY <1>1, <1>2, <1>3, <3>1 DEF AloneAt, Is, GoesTo
    <3> QED
      BY <1>3, <1>10, <3>2, AloneStep DEF StoreIInv
  <2> QED
    BY <2>1, <2>2 DEF StoreIInv, StoreTypes
<1>12. CompletedFits'
  BY <1>1, <1>2, <1>3 DEF StoreIInv, CompletedFits, Is, GoesTo, Others
<1>13. /\ \A picture : UnderWay(picture) => UnderWay(picture)'
       /\ Replacing => Replacing'
  BY <1>1, <1>2 DEF UnderWay, Replacing, Is, GoesTo, Others
<1>14. PreviewFits'
  BY <1>3, <1>13 DEF StoreIInv, PreviewFits
<1>15. CardsFit'
  <2>1. \A d \in Call : calls'[d].kind = "show" => calls'[d] = calls[d]
    BY <1>1, <1>2 DEF GoesTo, Others
  <2> QED
    BY <1>3, <1>13, <2>1 DEF StoreIInv, CardsFit, Is, Current
<1>16. NothingRendered'
  <2>1. /\ deleted => ~sources
        /\ deleted /\ ~outrun => row.status \notin Listed
    BY DEF StoreIInv, NothingRendered, DeletedStaysHidden
  <2>3. /\ sources' \in {sources, FALSE}
        /\ outrun' = (outrun \/ (~sources' /\ \E d \in Call : HasLoaded(d)))
        /\ UNCHANGED deleted
    BY DEF DropSources
  <2>2. ASSUME NEW d \in Call, Is(d, RenderKind, {"store image", "store preview", "update"})'
        PROVE  HasLoaded(d)
    <3>1. d # c
      BY <1>1, <1>2, <2>2 DEF GoesTo, Is, RenderKind
    <3>2. calls[d].kind \in RenderKind /\ calls[d].step \in {"store image", "store preview", "update"}
      BY <1>10, <2>2, <3>1 DEF Others, Is
    <3>3. Step(d) = calls[d].step
      <4>1. calls[d].kind # "free"
        BY <3>2 DEF RenderKind
      <4>2. calls[d] # Free
        BY <4>1, CallKinds DEF StoreIInv, StoreTypes
      <4> QED
        BY <4>2 DEF Step
    <3> QED
      BY <3>2, <3>3 DEF HasLoaded
  <2> QED
    <3>1. DeletedStaysHidden' /\ (deleted' => ~sources')
      <4>1. row' = row /\ deleted' = deleted /\ (outrun => outrun') /\ (~sources => ~sources')
        BY <1>3, <2>3 DEF StoreIInv, StoreTypes
      <4> QED
        BY <2>1, <4>1 DEF DeletedStaysHidden
    <3>2. ASSUME ~sources', ~outrun', NEW d \in Call,
                 Is(d, RenderKind, {"store image", "store preview", "update"})'
          PROVE  FALSE
      BY <2>2, <2>3, <3>2
    <3> QED
      BY <3>1, <3>2 DEF NothingRendered
<1> QED
  BY <1>5, <1>6, <1>7, <1>8, <1>9, <1>11, <1>12, <1>14, <1>15, <1>16 DEF StoreIInv

LEMMA DropPreviewKeeps ==
  ASSUME StoreIInv, NEW c \in Call, DropPreview(c)
  PROVE  StoreIInv'
<1>1. calls[c].kind = "delete" /\ calls[c].step = "drop preview"
      /\ calls[c] \in CallRecord /\ StepFits(calls[c].kind, "drop image")
  BY CallAt DEF StoreIInv, StepFits, DropPreview
<1>2. GoesTo(c, "drop image") /\ "drop image" \in CallStep
  BY <1>1, GoesOnFacts DEF StoreIInv, DropPreview, CallStep
<1>3. /\ UNCHANGED <<row, sources, images, queue, started, together, deleted, outrun, leftover, stuck>>
      /\ preview' \in {preview, NoLayout}
      /\ fileIds' = [t \in DOMAIN fileIds \ {calls[c].seen} |-> fileIds[t]]
  BY DEF DropPreview, onlyCalls, faults
<1>4. RowGoesOn
  BY <1>3 DEF StoreIInv, StoreTypes, RowGoesOn
<1>5. StoreTypes'
  BY <1>2, <1>3 DEF StoreIInv, StoreTypes, GoesTo
<1>6. CallsFit'
  BY <1>1, <1>2, <1>4, CallsFitStep DEF StoreIInv
<1>7. QueueFits'
  BY <1>1, <1>2, <1>3, QueueStep DEF StoreIInv, WaitsForRender, GoesTo
<1>8. RenderIsUnderWay'
  BY <1>1, <1>2, <1>3 DEF StoreIInv, RenderIsUnderWay, GoesTo, Others
<1>9. OneWriter'
  BY <1>2, <1>3, OneWriterStep DEF StoreIInv
<1>10. Others(c) /\ Writing(c)
  BY <1>1, <1>2 DEF GoesTo, Writing, WriterKind
<1>11. AloneFits'
  <2>1. CASE together
    BY <2>1, <1>3 DEF AloneFits
  <2>2. CASE ~together
    <3>1. AloneAt(c)
      BY <2>2 DEF StoreIInv, AloneFits
    <3>2. AloneAt(c)'
      BY <1>1, <1>2, <1>3, <3>1 DEF AloneAt, Is, GoesTo
    <3> QED
      BY <1>3, <1>10, <3>2, AloneStep DEF StoreIInv
  <2> QED
    BY <2>1, <2>2 DEF StoreIInv, StoreTypes
<1>12. CompletedFits'
  BY <1>1, <1>2, <1>3 DEF StoreIInv, CompletedFits, Is, GoesTo, Others
<1>13. /\ \A picture : UnderWay(picture) => UnderWay(picture)'
       /\ Replacing => Replacing'
  BY <1>1, <1>2 DEF UnderWay, Replacing, Is, GoesTo, Others
<1>14. PreviewFits'
  BY <1>3, <1>13 DEF StoreIInv, PreviewFits
<1>15. CardsFit'
  <2>1. \A d \in Call : calls'[d].kind = "show" => calls'[d] = calls[d]
    BY <1>1, <1>2 DEF GoesTo, Others
  <2>2. \A picture : Current(picture) => Current(picture)'
    BY <1>3, <1>13 DEF Current
  <2>3. row.updatedAt \in DOMAIN fileIds'
          => row.updatedAt \in DOMAIN fileIds /\ fileIds'[row.updatedAt] = fileIds[row.updatedAt]
    BY <1>3
  <2> QED
    BY <1>3, <2>1, <2>2, <2>3 DEF StoreIInv, CardsFit, Is
<1>16. NothingRendered'
  BY <1>1, <1>2, <1>3 DEF StoreIInv, NothingRendered, DeletedStaysHidden, Listed, Is, GoesTo, Others, RenderKind
<1> QED
  BY <1>5, <1>6, <1>7, <1>8, <1>9, <1>11, <1>12, <1>14, <1>15, <1>16 DEF StoreIInv

LEMMA DropImageKeeps ==
  ASSUME StoreIInv, NEW c \in Call, DropImage(c)
  PROVE  StoreIInv'
<1>1. calls[c].kind = "delete" /\ calls[c].step = "drop image"
      /\ calls[c] \in CallRecord /\ StepFits(calls[c].kind, "cancel")
  BY CallAt DEF StoreIInv, StepFits, DropImage
<1>2. GoesTo(c, "cancel") /\ "cancel" \in CallStep
  BY <1>1, GoesOnFacts DEF StoreIInv, DropImage, CallStep
<1>3. UNCHANGED <<row, sources, preview, fileIds, queue, started, together, deleted, outrun, leftover, stuck>>
  BY DEF DropImage, onlyCalls, faults
<1>4. /\ images' \in [Format -> Layout \cup {NoLayout}]
      /\ \A f \in Format : images'[f] = images[f] \/ (images'[f] = NoLayout /\ f = calls[c].format)
  BY DEF DropImage, StoreIInv, StoreTypes
<1>5. RowGoesOn
  BY <1>3 DEF StoreIInv, StoreTypes, RowGoesOn
<1>6. StoreTypes'
  BY <1>2, <1>3, <1>4 DEF StoreIInv, StoreTypes, GoesTo
<1>7. CallsFit'
  BY <1>1, <1>2, <1>5, CallsFitStep DEF StoreIInv
<1>8. QueueFits'
  BY <1>1, <1>2, <1>3, QueueStep DEF StoreIInv, WaitsForRender, GoesTo
<1>9. RenderIsUnderWay'
  BY <1>1, <1>2, <1>3 DEF StoreIInv, RenderIsUnderWay, GoesTo, Others
<1>10. OneWriter'
  BY <1>2, <1>3, OneWriterStep DEF StoreIInv
<1>11. Others(c) /\ Writing(c)
  BY <1>1, <1>2 DEF GoesTo, Writing, WriterKind
<1>12. AloneFits'
  <2>1. AloneAt(c)'
    BY <1>1, <1>2 DEF AloneAt, Is, GoesTo
  <2> QED
    BY <1>3, <1>11, <2>1, AloneStep DEF StoreIInv
<1>13. CompletedFits'
  <2>1. Is(c, {"delete"}, {"cancel"})'
    BY <1>1, <1>2 DEF Is, GoesTo
  <2> QED
    BY <1>3, <1>4, <2>1 DEF StoreIInv, CompletedFits
<1>14. /\ \A picture : UnderWay(picture) => UnderWay(picture)'
       /\ Replacing => Replacing'
  BY <1>1, <1>2 DEF UnderWay, Replacing, Is, GoesTo, Others
<1>15. PreviewFits'
  BY <1>3, <1>14 DEF StoreIInv, PreviewFits
<1>16. CardsFit'
  <2>1. \A d \in Call : calls'[d].kind = "show" => calls'[d] = calls[d]
    BY <1>1, <1>2 DEF GoesTo, Others
  <2> QED
    BY <1>3, <1>14, <2>1 DEF StoreIInv, CardsFit, Is, Current
<1>17. NothingRendered'
  BY <1>1, <1>2, <1>3 DEF StoreIInv, NothingRendered, DeletedStaysHidden, Listed, Is, GoesTo, Others, RenderKind
<1> QED
  BY <1>6, <1>7, <1>8, <1>9, <1>10, <1>12, <1>13, <1>15, <1>16, <1>17 DEF StoreIInv

LEMMA MarkCanceledKeeps ==
  ASSUME StoreIInv, NEW c \in Call, MarkCanceled(c)
  PROVE  StoreIInv'
<1>1. calls[c].kind \in {"delete", "reset"} /\ calls[c].step = "cancel" /\ calls[c] \in CallRecord
  BY CallAt DEF StoreIInv, StepFits, MarkCanceled
<1>2. Over(c)
  BY FinishesFacts DEF StoreIInv, MarkCanceled
<1>3. /\ UNCHANGED <<sources, images, preview, fileIds, queue, started, together, outrun, leftover,
                stuck>>
      /\ deleted' = (deleted \/ ~sources)
      /\ row' = [status |-> "canceled", layout |-> row.layout, format |-> row.format,
                 updatedAt |-> row.updatedAt + 1]
  BY DEF MarkCanceled, Updated, objects, onlyCalls, faults
<1>4. RowGoesOn
  BY <1>3 DEF StoreIInv, StoreTypes, RowGoesOn
<1>5. StoreTypes'
  BY <1>2, <1>3 DEF StoreIInv, StoreTypes, Over, Status, Listed
<1>6. CallsFit'
  BY <1>2, <1>4, CallsFitStep DEF StoreIInv
<1>7. QueueFits'
  BY <1>1, <1>2, <1>3, QueueStep DEF StoreIInv, WaitsForRender, Over
<1>8. RenderIsUnderWay'
  BY <1>3 DEF RenderIsUnderWay
<1>9. OneWriter'
  BY <1>2, <1>3, OneWriterStep DEF StoreIInv
<1>10. AloneFits'
  <2>1. AloneAt(c)'
    BY <1>2 DEF AloneAt, Is, Over
  <2> QED
    BY <1>1, <1>2, <1>3, <2>1, AloneStep DEF StoreIInv, Over, Writing, WriterKind
<1>11. CompletedFits'
  BY <1>3 DEF CompletedFits
<1>12. /\ \A picture : UnderWay(picture) => UnderWay(picture)'
       /\ Replacing => Replacing'
  BY <1>1, <1>2 DEF UnderWay, Replacing, Is, Over, Others
<1>13. PreviewFits'
  BY <1>3, <1>12 DEF StoreIInv, PreviewFits
<1>14. CardsFit'
  BY <1>2, <1>3, RowUpdatedStep DEF StoreIInv
<1>15. NothingRendered'
  BY <1>2, <1>3 DEF StoreIInv, NothingRendered, DeletedStaysHidden, Listed, Is, Over, Others, RenderKind
<1> QED
  BY <1>5, <1>6, <1>7, <1>8, <1>9, <1>10, <1>11, <1>13, <1>14, <1>15 DEF StoreIInv

\* A request that is given up, with what it leaves behind.
LEMMA CallFailsKeeps ==
  ASSUME StoreIInv, NEW c \in Call, CallFails(c)
  PROVE  StoreIInv'
<1> DEFINE fails == calls[c].kind = "render"
                    /\ calls[c].step \in {"render", "store image", "store preview"}
<1>1. calls[c].step # "failing" /\ calls[c] \in CallRecord /\ CallFits(calls[c])
      /\ Step(c) = calls[c].step /\ calls[c].kind \in WriterKind \cup {"show"}
      /\ StepFits(calls[c].kind, calls[c].step) /\ calls[c] # Free
  BY CallAt, CallKinds DEF StoreIInv, CallFails, WriterKind, RenderKind
<1>2. \/ fails /\ GoesTo(c, "failing") /\ StepFits(calls[c].kind, "failing")
      \/ ~fails /\ Over(c)
  <2>1. CASE fails
    <3>1. GoesOn(c, "failing")
      BY <2>1 DEF CallFails, FailureIsRecorded
    <3> QED
      BY <1>1, <2>1, <3>1, GoesOnFacts DEF StoreIInv, CallStep, StepFits
  <2>2. CASE ~fails
    BY <2>2, FinishesFacts DEF StoreIInv, CallFails, FailureIsRecorded
  <2> QED
    BY <2>1, <2>2
<1>3. /\ UNCHANGED <<row, sources, images, preview, fileIds, started, together, deleted, outrun>>
      /\ stuck' = (stuck \/ (calls[c].kind = "render" /\ calls[c].step = "update"))
      /\ leftover' = leftover \cup LeftBy(c)
  BY <1>1 DEF CallFails, objects
<1>4. /\ calls[c].step \in {"store preview", "update", "drop image", "cancel"}
           => calls[c].layout \in leftover'
      /\ calls[c].kind = "render" => preview \in leftover'
      /\ leftover \subseteq leftover'
  BY <1>1, <1>3 DEF LeftBy
<1>5. Others(c) /\ "failing" \in CallStep /\ (Over(c) \/ GoesTo(c, "failing"))
  BY <1>2 DEF GoesTo, Over, CallStep
<1>6. RowGoesOn
  BY <1>3 DEF StoreIInv, StoreTypes, RowGoesOn
<1>7. StoreTypes'
  BY <1>3, <1>5 DEF StoreIInv, StoreTypes, GoesTo, Over
<1>8. CallsFit'
  BY <1>2, <1>5, <1>6, CallsFitStep DEF StoreIInv
<1>9. ~WaitsForRender(calls', c)
  BY <1>5 DEF WaitsForRender, GoesTo, Over
<1>10. QueueFits'
  <2>1. CASE calls[c].step = "render"
    BY <1>1, <1>5, <1>9, <2>1, QueueTail DEF StoreIInv, CallFails, Dequeued
  <2>2. CASE calls[c].step # "render"
    BY <1>1, <1>5, <1>9, <2>2, QueueStep DEF StoreIInv, CallFails, Dequeued, WaitsForRender
  <2> QED
    BY <2>1, <2>2
<1>11. RenderIsUnderWay'
  <2>1. ASSUME row.status = "processing", ~stuck'
        PROVE  \E d \in Call : calls'[d].kind = "render" /\ calls'[d].step # "mark"
    <3>1. PICK d \in Call : calls[d].kind = "render" /\ calls[d].step # "mark"
      BY <1>3, <2>1 DEF StoreIInv, RenderIsUnderWay
    <3>2. CASE d = c
      BY <1>1, <1>2, <1>3, <2>1, <3>1, <3>2 DEF GoesTo, StepFits
    <3>3. CASE d # c
      BY <1>5, <3>1, <3>3 DEF Others
    <3> QED
      BY <3>2, <3>3
  <2> QED
    BY <1>3, <2>1 DEF RenderIsUnderWay
<1>12. OneWriter'
  BY <1>3, <1>5, OneWriterStep DEF StoreIInv
<1>13. AloneFits'
  <2>1. CASE together
    BY <1>3, <2>1 DEF AloneFits
  <2>2. CASE ~together /\ calls[c].kind \in WriterKind
    <3>1. AloneAt(c)
      BY <2>2 DEF StoreIInv, AloneFits
    <3>2. AloneAt(c)'
      BY <1>2, <1>3, <1>4, <3>1 DEF AloneAt, Is, GoesTo, Over
    <3> QED
      BY <1>3, <1>5, <2>2, <3>2, AloneStep DEF StoreIInv, Writing
  <2>3. CASE ~together /\ calls[c].kind = "show"
    <3>1. \A d \in Call \ {c} : calls'[d] = calls[d]
      BY <1>5 DEF Others
    <3>2. calls'[c].kind = "free"
      BY <1>2, <2>3 DEF Over
    <3>3. \A d \in Call : AloneAt(d)
      BY <2>3 DEF StoreIInv, AloneFits
    <3>4. ASSUME NEW d \in Call
          PROVE  AloneAt(d)'
      <4>1. CASE d = c
        BY <3>2, <4>1 DEF AloneAt, Is
      <4>2. CASE d # c
        BY <1>3, <1>4, <3>1, <3>3, <4>2 DEF AloneAt, Is
      <4> QED
        BY <4>1, <4>2
    <3> QED
      BY <3>4 DEF AloneFits
  <2> QED
    BY <1>1, <2>1, <2>2, <2>3 DEF StoreIInv, StoreTypes
<1>14. CompletedFits'
  <2>1. ASSUME ~together, row.status = "completed", images[row.format] # row.layout
        PROVE  NoLayout \in leftover' \/ \E d \in Call : Is(d, {"delete"}, {"cancel"})'
    <3>1. CASE NoLayout \in leftover
      BY <1>4, <3>1
    <3>2. ASSUME NEW d \in Call, Is(d, {"delete"}, {"cancel"})
          PROVE  NoLayout \in leftover' \/ \E e \in Call : Is(e, {"delete"}, {"cancel"})'
      <4>1. CASE d = c
        BY <1>1, <1>4, <3>2, <4>1 DEF Is, CallFits
      <4>2. CASE d # c
        BY <1>5, <3>2, <4>2 DEF Is, Others
      <4> QED
        BY <4>1, <4>2
    <3> QED
      BY <2>1, <3>1, <3>2 DEF StoreIInv, CompletedFits
  <2> QED
    BY <1>3, <2>1 DEF StoreIInv, CompletedFits
<1>15. ASSUME NEW picture, UnderWay(picture)
       PROVE  UnderWay(picture)' \/ picture \in leftover'
  <2>1. PICK d \in Call : Is(d, {"save", "commit"}, {"update"}) /\ calls[d].layout = picture
    BY <1>15 DEF UnderWay
  <2>2. CASE d = c
    BY <1>4, <2>1, <2>2 DEF Is
  <2>3. CASE d # c
    BY <1>5, <2>1, <2>3 DEF UnderWay, Is, Others
  <2> QED
    BY <2>2, <2>3
<1>16. PreviewFits'
  <2>1. Replacing => Replacing' \/ preview \in leftover'
    BY <1>4, <1>5 DEF Replacing, Is, Others
  <2>2. PreviewFits
    BY DEF StoreIInv
  <2> QED
    BY <1>3, <1>4, <1>15, <2>1, <2>2 DEF PreviewFits
<1>17. CardsFit'
  <2>1. \A d \in Call : calls'[d].kind = "show" => calls'[d] = calls[d]
    BY <1>2 DEF GoesTo, Over, Others
  <2>2. \A picture : Current(picture) => Current(picture)'
    BY <1>3, <1>4, <1>15 DEF Current
  <2> QED
    BY <1>3, <2>1, <2>2 DEF StoreIInv, CardsFit, Is
<1>18. NothingRendered'
  BY <1>3, <1>5 DEF StoreIInv, NothingRendered, DeletedStaysHidden, Listed, Is, GoesTo, Over, Others, RenderKind
<1> QED
  BY <1>7, <1>8, <1>10, <1>11, <1>12, <1>13, <1>14, <1>16, <1>17, <1>18 DEF StoreIInv

LEMMA MarkFailedKeeps ==
  ASSUME StoreIInv, NEW c \in Call, MarkFailed(c)
  PROVE  StoreIInv'
<1>1. calls[c].kind = "render" /\ calls[c].step = "failing" /\ calls[c] \in CallRecord
  BY CallAt DEF StoreIInv, StepFits, MarkFailed
<1>2. Over(c)
  BY FinishesFacts DEF StoreIInv, MarkFailed
<1>3. /\ UNCHANGED <<sources, images, preview, fileIds, queue, started, together, deleted, outrun,
                leftover>>
      /\ stuck' \in BOOLEAN
      /\ \/ /\ row' = [status |-> "failed", layout |-> row.layout, format |-> row.format,
                       updatedAt |-> row.updatedAt + 1]
         \/ row' = row /\ stuck'
  BY DEF MarkFailed, Updated, objects, StoreIInv, StoreTypes
<1>4. RowGoesOn /\ row'.layout = row.layout
  BY <1>3 DEF StoreIInv, StoreTypes, RowGoesOn
<1>5. StoreTypes'
  <2>1. row' \in [status : Status, layout : Layout \cup {NoLayout},
                  format : Format \cup {"none"}, updatedAt : Nat]
        /\ row.updatedAt <= row'.updatedAt /\ row.updatedAt \in Nat
        /\ (row'.status \in Listed \cup {"processing"} => row'.layout # NoLayout)
    BY <1>3 DEF StoreIInv, StoreTypes, Status, Listed
  <2> QED
    BY <1>2, <1>3, <2>1 DEF StoreIInv, StoreTypes, Over
<1>6. CallsFit'
  BY <1>2, <1>4, CallsFitStep DEF StoreIInv
<1>7. QueueFits'
  BY <1>1, <1>2, <1>3, QueueStep DEF StoreIInv, WaitsForRender, Over
<1>8. RenderIsUnderWay'
  BY <1>3 DEF RenderIsUnderWay
<1>9. OneWriter'
  BY <1>2, <1>3, OneWriterStep DEF StoreIInv
<1>10. AloneAt(c) \/ together
  BY DEF StoreIInv, AloneFits
<1>11. AloneFits'
  <2>1. AloneAt(c)'
    BY <1>2 DEF AloneAt, Is, Over
  <2> QED
    BY <1>1, <1>2, <1>3, <2>1, AloneStep DEF StoreIInv, Over, Writing, WriterKind, RenderKind
<1>12. CompletedFits'
  BY <1>1, <1>3, <1>10 DEF CompletedFits, AloneAt, Is
<1>13. /\ \A picture : UnderWay(picture) => UnderWay(picture)'
       /\ Replacing => Replacing'
  BY <1>1, <1>2 DEF UnderWay, Replacing, Is, Over, Others
<1>14. PreviewFits'
  BY <1>3, <1>4, <1>13 DEF StoreIInv, PreviewFits
<1>15. CardsFit'
  <2>1. CASE row' = row
    <3>1. \A d \in Call : calls'[d].kind = "show" => calls'[d] = calls[d]
      BY <1>2 DEF Over, Others
    <3> QED
      BY <1>3, <1>13, <2>1, <3>1 DEF StoreIInv, CardsFit, Is, Current
  <2>2. CASE row' # row
    BY <1>2, <1>3, <2>2, RowUpdatedStep DEF StoreIInv
  <2> QED
    BY <2>1, <2>2
<1>16. NothingRendered'
  <2>1. row'.status \in Listed => row.status \in Listed
    BY <1>3 DEF Listed
  <2> QED
    BY <1>2, <1>3, <2>1
       DEF StoreIInv, NothingRendered, DeletedStaysHidden, Is, Over, Others, RenderKind
<1> QED
  BY <1>5, <1>6, <1>7, <1>8, <1>9, <1>11, <1>12, <1>14, <1>15, <1>16 DEF StoreIInv

LEMMA ServerRestartsKeeps ==
  ASSUME StoreIInv, ServerRestarts
  PROVE  StoreIInv'
<1>1. /\ UNCHANGED <<row, sources, images, preview, fileIds, started, together, deleted, outrun>>
      /\ calls' = [c \in Call |-> Free] /\ queue' = << >>
      /\ stuck' = (stuck \/ row.status = "processing")
      /\ leftover' = leftover \cup UNION {LeftBy(c) : c \in Call}
  BY DEF ServerRestarts, objects
<1>2. \A c \in Call : calls'[c].kind = "free"
  BY <1>1 DEF Free
<1>3. leftover \subseteq leftover' /\ \A c \in Call : LeftBy(c) \subseteq leftover'
  BY <1>1
<1>4. StoreTypes'
  BY <1>1 DEF StoreIInv, StoreTypes
<1>5. CallsFit' /\ OneWriter'
  BY <1>2 DEF CallsFit, CallFits, OneWriter, Writing, WriterKind, RenderKind
<1>6. QueueFits'
  BY <1>1, <1>2 DEF QueueFits, WaitsForRender
<1>7. RenderIsUnderWay'
  BY <1>1 DEF RenderIsUnderWay
<1>8. AloneFits' /\ NothingRendered'
  BY <1>1, <1>2 DEF StoreIInv, AloneFits, AloneAt, NothingRendered, DeletedStaysHidden, Is, RenderKind
<1>9. ASSUME NEW c \in Call, calls[c].kind # "free"
      PROVE  /\ calls[c].step \in {"store preview", "update", "drop image", "cancel"}
                  => calls[c].layout \in LeftBy(c)
             /\ calls[c].kind = "render" => preview \in LeftBy(c)
  <2>1. calls[c] # Free
    BY <1>9 DEF Free
  <2> QED
    BY <2>1 DEF LeftBy, Step
<1>10. CompletedFits'
  <2>1. ASSUME NEW c \in Call, Is(c, {"delete"}, {"cancel"})
        PROVE  NoLayout \in leftover'
    <3>1. calls[c].layout = NoLayout
      BY <2>1 DEF Is, StoreIInv, CallsFit, CallFits
    <3> QED
      BY <1>3, <1>9, <2>1, <3>1 DEF Is
  <2> QED
    BY <1>1, <1>3, <2>1 DEF StoreIInv, CompletedFits
<1>11. \A picture : UnderWay(picture) => picture \in leftover'
  BY <1>3, <1>9 DEF UnderWay, Is
<1>12. PreviewFits'
  <2>1. Replacing => preview \in leftover'
    BY <1>3, <1>9 DEF Replacing, Is
  <2> QED
    BY <1>1, <1>3, <1>11, <2>1 DEF StoreIInv, PreviewFits
<1>13. CardsFit'
  <2>1. \A picture : Current(picture) => Current(picture)'
    BY <1>1, <1>3, <1>11 DEF Current
  <2> QED
    BY <1>1, <1>2, <2>1 DEF StoreIInv, CardsFit, Is
<1> QED
  BY <1>4, <1>5, <1>6, <1>7, <1>8, <1>10, <1>12, <1>13 DEF StoreIInv

\* What a request is started with.
StartFits(kind, step, layout, format) ==
  /\ kind \in WriterKind \cup {"show"} /\ step \in CallStep
  /\ layout \in Layout \cup {NoLayout} /\ format \in Format \cup {"none"}
  /\ StepFits(kind, step) /\ step \in {"mark", "render", "look up", "drop sources"}
  /\ kind \in RenderKind => layout \in Layout
  /\ kind \in {"delete", "reset"} => layout = NoLayout
  /\ kind \in {"render", "room"} => format \in Format
  /\ kind \in {"save", "render", "room"} => row.layout # NoLayout
  /\ kind = "show" => row.status \in Listed
  /\ kind = "room" => layout = row.layout
  /\ kind = "delete" => format = row.format
  /\ kind = "render" => step = "mark"

LEMMA StartKeeps ==
  ASSUME StoreIInv, NEW c \in Call, NEW kind, NEW step, NEW layout, NEW format,
         StartFits(kind, step, layout, format), Start(c, kind, step, layout, format)
  PROVE  StoreIInv'
<1>1. /\ calls[c].kind = "free"
           /\ UNCHANGED <<row, sources, images, preview, fileIds, leftover, stuck, deleted, outrun>>
      /\ queue' = IF step = "render" THEN Append(queue, c) ELSE queue
      /\ together' = (together \/ (kind # "show" /\ \E d \in Call : Writes(d)))
  <2>1. calls[c].kind = "free"
    BY DEF Start, Free
  <2> QED
    BY <2>1 DEF Start, objects
<1>2. /\ [kind |-> kind, step |-> step, layout |-> layout, format |-> format,
          seen |-> row.updatedAt] \in CallRecord
      /\ calls' = [calls EXCEPT ![c] = [kind |-> kind, step |-> step, layout |-> layout,
                                        format |-> format, seen |-> row.updatedAt]]
  BY DEF Start, StartFits, CallRecord, StoreIInv, StoreTypes
<1>3. /\ calls' \in [Call -> CallRecord \cup {Free}] /\ Others(c)
      /\ calls'[c].kind = kind /\ calls'[c].step = step /\ calls'[c].layout = layout
      /\ calls'[c].format = format /\ calls'[c].seen = row.updatedAt
  BY <1>2 DEF StoreIInv, StoreTypes, Others
<1>4. \A d \in Call \ {c} : calls'[d] = calls[d]
  BY <1>3 DEF Others
<1>5. kind \in WriterKind /\ ~together' => \A d \in Call : calls[d].kind \notin WriterKind
  <2>1. \A d \in Call : calls[d].kind \in WriterKind => Writes(d)
    BY CallKinds DEF StoreIInv, StoreTypes, Writes, Free, WriterKind, RenderKind
  <2> QED
    BY <1>1, <2>1 DEF WriterKind, RenderKind
<1>6. ~together' => ~together
  BY <1>1
<1>7. row.updatedAt \in Nat
  BY DEF StoreIInv, StoreTypes
<1>8. StoreTypes'
  BY <1>1, <1>3 DEF StoreIInv, StoreTypes
<1>9. CallsFit'
  <2>1. /\ StepFits(calls'[c].kind, calls'[c].step) /\ calls'[c].seen <= row'.updatedAt
        /\ calls'[c].step # "send"
    <3>1. StepFits(calls'[c].kind, calls'[c].step)
      BY <1>3 DEF StartFits, StepFits
    <3>2. calls'[c].seen <= row'.updatedAt
      BY <1>1, <1>3, <1>7
    <3>3. calls'[c].step # "send"
      BY <1>3 DEF StartFits
    <3> QED
      BY <3>1, <3>2, <3>3
  <2>2. /\ calls'[c].kind \in RenderKind => calls'[c].layout \in Layout
        /\ calls'[c].kind \in {"delete", "reset"} => calls'[c].layout = NoLayout
        /\ calls'[c].kind \in {"render", "room"} => calls'[c].format \in Format
        /\ calls'[c].kind \in {"save", "render", "room"} => row'.layout # NoLayout
    BY <1>1, <1>3 DEF StartFits
  <2>3. CallFits(calls[c])'
    BY <2>1, <2>2 DEF CallFits
  <2> QED
    BY <1>1, <1>4, <2>3 DEF StoreIInv, CallsFit, CallFits
<1>10. QueueFits'
  <2>1. ~WaitsForRender(calls, c)
    BY <1>1 DEF WaitsForRender
  <2>2. CASE step = "render"
    <3>1. calls'[c].kind # "free"
      BY <1>3 DEF StartFits, WriterKind, RenderKind
    <3> QED
      BY <1>1, <1>3, <2>1, <2>2, <3>1, QueueAppend DEF StoreIInv, WaitsForRender
  <2>3. CASE step # "render"
    BY <1>1, <1>3, <2>1, <2>3, QueueStep DEF StoreIInv, WaitsForRender
  <2> QED
    BY <2>2, <2>3
<1>11. RenderIsUnderWay'
  BY <1>1, <1>4 DEF StoreIInv, RenderIsUnderWay
<1>12. OneWriter'
  BY <1>3, <1>4, <1>5, <1>6 DEF StoreIInv, OneWriter, Writing, WriterKind, RenderKind
<1>13. AloneFits'
  <2>1. ~together' => AloneAt(c)'
    BY <1>1, <1>3 DEF AloneAt, Is, StartFits
  <2>2. ASSUME ~together', NEW d \in Call \ {c}
        PROVE  AloneAt(d)'
    <3>1. AloneAt(d)
      BY <1>6, <2>2 DEF StoreIInv, AloneFits
    <3> QED
      BY <1>1, <1>4, <3>1 DEF AloneAt, Is
  <2> QED
    BY <2>1, <2>2 DEF AloneFits
<1>14. CompletedFits'
  BY <1>1, <1>4, <1>6 DEF StoreIInv, CompletedFits, Is
<1>15. /\ \A picture : UnderWay(picture) => UnderWay(picture)'
       /\ Replacing => Replacing'
  BY <1>1, <1>4 DEF UnderWay, Replacing, Is
<1>16. PreviewFits'
  BY <1>1, <1>6, <1>15 DEF StoreIInv, PreviewFits
<1>17. CardsFit'
  <2>1. \A picture : Current(picture) => Current(picture)'
    BY <1>1, <1>15 DEF Current
  <2>2. calls'[c].kind = "show" => row.status \in Listed /\ calls'[c].step = "look up"
    BY <1>3 DEF StepFits, StartFits
  <2> QED
    BY <1>1, <1>4, <1>6, <2>1, <2>2 DEF StoreIInv, CardsFit, Is
<1>18. NothingRendered'
  BY <1>1, <1>3, <1>4, <1>6 DEF StoreIInv, NothingRendered, DeletedStaysHidden, Listed, Is, RenderKind, StartFits
<1> QED
  BY <1>8, <1>9, <1>10, <1>11, <1>12, <1>13, <1>14, <1>16, <1>17, <1>18 DEF StoreIInv

LEMMA CallStartsKeeps ==
  ASSUME StoreIInv, NEW c \in Call, CallStarts(c)
  PROVE  StoreIInv'
<1>1. row.layout \in Layout \cup {NoLayout} /\ row.format \in Format \cup {"none"}
  BY DEF StoreIInv, StoreTypes
<1>2. ASSUME NEW layout \in Layout, SaveLayout(c, layout)
      PROVE  StoreIInv'
  <2>1. StartFits("save", "render", layout, "none")
    BY <1>2 DEF SaveLayout, StartFits, StepFits, CallStep, WriterKind, RenderKind
  <2> QED
    BY <1>2, <2>1, StartKeeps DEF SaveLayout
<1>3. ASSUME NEW layout \in Layout, CommitComposition(c, layout)
      PROVE  StoreIInv'
  <2>1. StartFits("commit", "render", layout, "none")
    BY <1>3 DEF CommitComposition, StartFits, StepFits, CallStep, WriterKind, RenderKind
  <2> QED
    BY <1>3, <2>1, StartKeeps DEF CommitComposition
<1>4. ASSUME NEW layout \in Layout, NEW format \in Format, PostRender(c, layout, format)
      PROVE  StoreIInv'
  <2>1. StartFits("render", "mark", layout, format)
    BY <1>4 DEF PostRender, StartFits, StepFits, CallStep, WriterKind, RenderKind
  <2> QED
    BY <1>4, <2>1, StartKeeps DEF PostRender
<1>5. ASSUME CreateRoom(c)
      PROVE  StoreIInv'
  <2>1. StartFits("room", "render", row.layout, "png")
    BY <1>1, <1>5, StoreAssumption
       DEF CreateRoom, StartFits, StepFits, CallStep, WriterKind, RenderKind
  <2> QED
    BY <1>5, <2>1, StartKeeps DEF CreateRoom
<1>6. ASSUME ShowCard(c)
      PROVE  StoreIInv'
  <2>1. StartFits("show", "look up", NoLayout, "none")
    BY <1>6 DEF ShowCard, StartFits, StepFits, CallStep, WriterKind, RenderKind
  <2> QED
    BY <1>6, <2>1, StartKeeps DEF ShowCard
<1>7. ASSUME DeleteComposition(c)
      PROVE  StoreIInv'
  <2>1. StartFits("delete", "drop sources", NoLayout, row.format)
    BY <1>1, <1>7 DEF DeleteComposition, StartFits, StepFits, CallStep, WriterKind, RenderKind
  <2> QED
    BY <1>7, <2>1, StartKeeps DEF DeleteComposition
<1>8. ASSUME ResetComposition(c)
      PROVE  StoreIInv'
  <2>1. StartFits("reset", "drop sources", NoLayout, "none")
    BY <1>8 DEF ResetComposition, StartFits, StepFits, CallStep, WriterKind, RenderKind
  <2> QED
    BY <1>8, <2>1, StartKeeps DEF ResetComposition
<1> QED
  BY <1>2, <1>3, <1>4, <1>5, <1>6, <1>7, <1>8 DEF CallStarts

LEMMA StoreStep ==
  ASSUME StoreIInv, [StoreNext]_storeVars
  PROVE  StoreIInv'
<1>1. CASE UNCHANGED storeVars
  <2>1. UNCHANGED <<row, sources, images, preview, fileIds, calls, queue, together, deleted, outrun,
          leftover, stuck>>
    BY <1>1 DEF storeVars
  <2>2. StoreTypes' /\ CallsFit' /\ QueueFits' /\ RenderIsUnderWay' /\ OneWriter'
    BY <2>1 DEF StoreIInv, StoreTypes, CallsFit, CallFits, QueueFits, WaitsForRender,
                RenderIsUnderWay, OneWriter, Writing
  <2>3. AloneFits' /\ CompletedFits' /\ NothingRendered'
    BY <2>1 DEF StoreIInv, AloneFits, AloneAt, CompletedFits, NothingRendered, DeletedStaysHidden, Listed, Is
  <2>4. /\ \A picture : UnderWay(picture) => UnderWay(picture)'
        /\ Replacing => Replacing'
    BY <2>1 DEF UnderWay, Replacing, Is
  <2>5. PreviewFits'
    BY <2>1, <2>4 DEF StoreIInv, PreviewFits
  <2>6. CardsFit'
    BY <2>1, <2>4 DEF StoreIInv, CardsFit, Current, Is
  <2> QED
    BY <2>2, <2>3, <2>5, <2>6 DEF StoreIInv
<1>2. ASSUME NEW c \in Call, CallGoesOn(c)
      PROVE  StoreIInv'
  BY <1>2, MarkProcessingKeeps, RenderLayoutKeeps, StoreImageKeeps, StorePreviewKeeps,
     UpdateRowKeeps, LookUpPreviewKeeps, SendPreviewKeeps, DropSourcesKeeps, DropPreviewKeeps,
     DropImageKeeps, MarkCanceledKeeps, CallFailsKeeps, MarkFailedKeeps DEF CallGoesOn
<1> QED
  BY <1>1, <1>2, CallStartsKeeps, FileIdExpiresKeeps, ServerRestartsKeeps DEF StoreNext

LEMMA StoreStart ==
  ASSUME StoreInit
  PROVE  StoreIInv
<1>1. row = [status |-> "collecting", layout |-> NoLayout, format |-> "none", updatedAt |-> 0]
      /\ (\A c \in Call : calls[c] = Free) /\ calls = [c \in Call |-> Free] /\ sources
      /\ images = [f \in Format |-> NoLayout] /\ preview = NoLayout /\ fileIds = << >>
      /\ queue = << >> /\ ~together /\ leftover = {} /\ ~stuck /\ ~deleted /\ ~outrun
      /\ sources \in BOOLEAN /\ together \in BOOLEAN /\ stuck \in BOOLEAN
      /\ deleted \in BOOLEAN /\ outrun \in BOOLEAN
  BY DEF StoreInit
<1>2. \A c \in Call : calls[c].kind = "free"
  BY <1>1 DEF Free
<1>3. DOMAIN fileIds = {}
  BY <1>1
<1>4. StoreTypes
  BY <1>1, <1>3 DEF StoreTypes, Status, Listed
<1>5. CallsFit /\ OneWriter /\ RenderIsUnderWay
  BY <1>1, <1>2 DEF CallsFit, CallFits, OneWriter, Writing, WriterKind, RenderKind, RenderIsUnderWay
<1>6. QueueFits
  BY <1>1, <1>2 DEF QueueFits, WaitsForRender
<1>7. AloneFits /\ CompletedFits /\ PreviewFits /\ NothingRendered
  BY <1>1, <1>2 DEF AloneFits, AloneAt, CompletedFits, PreviewFits, NothingRendered, DeletedStaysHidden, Listed, Is, RenderKind
<1>8. CardsFit
  BY <1>1, <1>2, <1>3 DEF CardsFit, Is
<1> QED
  BY <1>4, <1>5, <1>6, <1>7, <1>8 DEF StoreIInv

\* The invariant says what StoreInv says.
LEMMA StoreImplies ==
  ASSUME StoreIInv
  PROVE  StoreInv
<1>1. \A c \in Call : /\ calls[c] = Free <=> calls[c].kind = "free"
                      /\ Step(c) = IF calls[c].kind = "free" THEN "free" ELSE calls[c].step
                      /\ calls[c].kind \in WriterKind \cup {"show", "free"}
  BY CallKinds DEF StoreIInv, StoreTypes, Step
<1>2. StoreTypeOK
  <2> DEFINE n == Len(queue)
             waiting == {queue[i] : i \in DOMAIN queue}
  <2>1. queue \in Seq(Call) /\ n \in Nat /\ DOMAIN queue = 1 .. n
    BY DEF StoreIInv, QueueFits
  <2>2. waiting = {c \in Call : Step(c) = "render"}
    <3>1. \A c \in Call : Step(c) = "render" <=> WaitsForRender(calls, c)
      BY <1>1 DEF WaitsForRender
    <3>2. waiting \subseteq {c \in Call : Step(c) = "render"}
      BY <2>1, <3>1 DEF StoreIInv, QueueFits
    <3>3. {c \in Call : Step(c) = "render"} \subseteq waiting
      BY <2>1, <3>1 DEF StoreIInv, QueueFits
    <3> QED
      BY <3>2, <3>3
  <2>3. Cardinality(waiting) = n
    <3>1. queue \in Bijection(1 .. n, waiting)
      <4>1. queue \in [1 .. n -> waiting]
        BY <2>1
      <4>2. \A i, j \in 1 .. n : queue[i] = queue[j] => i = j
        BY DEF StoreIInv, QueueFits
      <4>3. \A w \in waiting : \E i \in 1 .. n : queue[i] = w
        BY <2>1
      <4> QED
        BY <4>1, <4>2, <4>3 DEF Bijection, Injection, Surjection, IsInjective
    <3>2. IsFiniteSet(1 .. n) /\ Cardinality(1 .. n) = n
      BY <2>1, FS_Interval
    <3>3. IsFiniteSet(waiting) /\ Cardinality(waiting) = Cardinality(1 .. n)
      BY <3>1, <3>2, FS_Bijection DEF ExistsBijection
    <3> QED
      BY <3>2, <3>3
  <2> HIDE DEF waiting, n
  <2>4. /\ row \in [status : Status, layout : Layout \cup {NoLayout},
                    format : Format \cup {"none"}, updatedAt : Nat]
        /\ row.status \in Listed \cup {"processing"} => row.layout # NoLayout
        /\ images \in [Format -> Layout \cup {NoLayout}]
        /\ preview \in Layout \cup {NoLayout}
        /\ \A t \in DOMAIN fileIds : t <= row.updatedAt /\ fileIds[t] \in Layout
    BY DEF StoreIInv, StoreTypes
  <2> QED
    BY <2>2, <2>3, <2>4 DEF StoreTypeOK, waiting, n
<1>3. CompletedShowsLayout
  <2>1. \A c \in Call : Is(c, {"delete"}, {"cancel"}) => Deleting(c)
    BY <1>1 DEF Is, Deleting
  <2> QED
    BY <2>1 DEF StoreIInv, CompletedFits, CompletedShowsLayout
<1>4. CardShowsLayout
  <2>1. ASSUME \A c \in Call : ~Writes(c)
        PROVE  ~Replacing /\ \A picture : ~UnderWay(picture)
    BY <1>1, <2>1 DEF Replacing, UnderWay, Is, Writes
  <2> QED
    BY <2>1 DEF StoreIInv, PreviewFits, CardsFit, Current, CardShowsLayout
<1>5. ProcessingIsTemporary
  BY <1>1 DEF StoreIInv, RenderIsUnderWay, ProcessingIsTemporary
<1> QED
  BY <1>2, <1>3, <1>4, <1>5 DEF StoreInv

\* The row, the pictures and the cards of a composition agree, although saves,
\* renders, rooms and deletions wait for each other, fail half way and are cut
\* off by a restart, for any number of requests, layouts and formats
\* (routes.ts, list.ts, commit.ts).
THEOREM StoreIsConsistent == StoreSpec => []StoreInv
<1>1. StoreInit => StoreIInv
  BY StoreStart
<1>2. StoreIInv /\ [StoreNext]_storeVars => StoreIInv'
  BY StoreStep
<1>3. StoreIInv => StoreInv
  BY StoreImplies
<1> QED
  BY <1>1, <1>2, <1>3, PTL DEF StoreSpec

\* A composition that was deleted with its source images is never listed
\* again, over any number of later requests, unless one had loaded the images
\* before they went: the only step that lists one is the last update of a
\* request, and none gets there without the sources (list.ts,
\* deleteComposition; routes.ts, POST render).
THEOREM DeletedCompositionStaysHidden == StoreSpec => []DeletedStaysHidden
<1>1. StoreInit => StoreIInv
  BY StoreStart
<1>2. StoreIInv /\ [StoreNext]_storeVars => StoreIInv'
  BY StoreStep
<1>3. StoreIInv => DeletedStaysHidden
  BY DEF StoreIInv, NothingRendered
<1> QED
  BY <1>1, <1>2, <1>3, PTL DEF StoreSpec

\* What is known of ids and entries stays so as more are made.
Grows == sent' \in {sent, sent + 1} /\ states' \in {states, states + 1}

LEMMA GrowingTypes ==
  ASSUME sent \in Nat, states \in Nat, Grows
  PROVE  /\ SessionRecord \subseteq SessionRecord' /\ EntryRecord \subseteq EntryRecord'
         /\ RefreshTask \subseteq RefreshTask' /\ ClearTask \subseteq ClearTask'
         /\ ChatMessage \subseteq ChatMessage' /\ 1 .. sent \subseteq 1 .. sent'
         /\ 0 .. sent \subseteq 0 .. sent'
<1>1. /\ 0 .. sent \subseteq 0 .. sent' /\ 1 .. sent \subseteq 1 .. sent'
      /\ 1 .. states \subseteq 1 .. states' /\ 0 .. states \subseteq 0 .. states'
  BY DEF Grows
<1>2. SessionRecord \subseteq SessionRecord'
  BY <1>1 DEF SessionRecord
<1>3. EntryRecord \subseteq EntryRecord'
  BY <1>1, <1>2 DEF EntryRecord
<1>4. RefreshTask \subseteq RefreshTask'
  BY <1>1, <1>2 DEF RefreshTask
<1>5. ClearTask \subseteq ClearTask'
  BY <1>1, <1>2 DEF ClearTask
<1>6. ChatMessage \subseteq ChatMessage'
  BY <1>1 DEF ChatMessage
<1> QED
  BY <1>1, <1>2, <1>3, <1>4, <1>5, <1>6

LEMMA EntryKinds ==
  ASSUME PanelTypes
  PROVE  /\ panelState # NoState <=> HasEntry
         /\ HasEntry <=> panelState \in EntryRecord
         /\ HasEntry => panelState.entry \in 1 .. states
         /\ ~HasEntry => panelState.entry = 0
<1>1. ASSUME panelState \in EntryRecord
      PROVE  panelState.entry \in 1 .. states /\ panelState.entry # 0
  BY <1>1 DEF EntryRecord
<1>2. NoState.entry = 0
  BY DEF NoState
<1> QED
  BY <1>1, <1>2 DEF PanelTypes, HasEntry

LEMMA TaskKinds ==
  ASSUME PanelTypes, NEW t \in Task, Awake(t)
  PROVE  /\ tasks[t] \in RefreshTask \cup ClearTask
         /\ tasks[t].pc \in RefreshPc \cup PromptPc \cup ClearPc
         /\ tasks[t].session \in SessionRecord /\ tasks[t].message \in 0 .. sent
         /\ tasks[t].state \in 0 .. states /\ tasks[t].expected \in BOOLEAN
<1>1. tasks[t] \in RefreshTask \cup ClearTask \cup {Asleep}
  BY DEF PanelTypes
<1>2. tasks[t] # Asleep
  BY DEF Awake, Asleep
<1>3. CASE tasks[t] \in RefreshTask
  BY <1>3 DEF RefreshTask, PanelTypes
<1>4. CASE tasks[t] \in ClearTask
  BY <1>4 DEF ClearTask, PanelTypes
<1> QED
  BY <1>1, <1>2, <1>3, <1>4

LEMMA KnownPanel ==
  ASSUME NEW state, NEW session
  PROVE  /\ Known(state, session, "panel") =
              IF state # NoState /\ state.panel # None THEN state.panel ELSE session.panel
         /\ Known(state, session, "prompt") =
              IF state # NoState /\ state.prompt # None THEN state.prompt ELSE session.prompt
BY DEF Known

LEMMA NewSession ==
  ASSUME sent \in Nat, states \in Nat
  PROVE  NoUpload \in SessionRecord /\ NoUpload.upload = 0
BY DEF NoUpload, SessionRecord, None

\* The entry of the chat, there or made.
LEMMA ChatEntry ==
  ASSUME PanelTypes, states' = Entries, sent' \in {sent, sent + 1}
  PROVE  /\ Grows /\ states' \in Nat
         /\ StateOfChat \in EntryRecord' /\ StateOfChat # NoState
         /\ HasEntry => StateOfChat = panelState /\ states' = states
         /\ ~HasEntry => /\ StateOfChat.entry = states + 1 /\ StateOfChat.panel = None
                         /\ StateOfChat.prompt = None /\ StateOfChat.timer = NoUpload
                         /\ StateOfChat.turn = Update
<1>1. Grows /\ states' \in Nat
  BY DEF Grows, Entries, PanelTypes
<1>2. sent \in Nat /\ states \in Nat
  BY DEF PanelTypes
<1>3. CASE HasEntry
  <2>1. StateOfChat = panelState /\ panelState \in EntryRecord /\ panelState # NoState
          /\ states' = states
    BY <1>3, EntryKinds DEF StateOfChat, Entries
  <2> QED
    BY <1>1, <1>2, <1>3, <2>1, GrowingTypes
<1>4. CASE ~HasEntry
  <2>1. panelState = NoState
    BY <1>4, EntryKinds
  <2>2. StateOfChat = [entry |-> states + 1, panel |-> None, prompt |-> None, turn |-> Update,
                       timer |-> NoUpload]
    BY <2>1 DEF StateOfChat
  <2>3. NoUpload \in SessionRecord'
    BY <1>1, <1>2, NewSession, GrowingTypes
  <2>4. /\ states + 1 \in 1 .. states' /\ None \in 0 .. sent' /\ Update \in Task
        /\ StateOfChat.entry # 0 /\ NoState.entry = 0
    BY <1>2, <2>1, <2>2 DEF Entries, None, Task, NoState
  <2> QED
    BY <1>1, <1>4, <2>2, <2>3, <2>4 DEF EntryRecord
<1> QED
  BY <1>3, <1>4

\* The other handlers stay where they are.
OthersWait(t) == \A u \in Task \ {t} : tasks'[u] = tasks[u]

\* The parts of the invariant that follow when nothing but these changes.
LEMMA UpdateIsTask ==
  ASSUME PanelTypes
  PROVE  /\ Update \in Task /\ Refresh \subseteq Task /\ Update \notin Refresh
         /\ Task = Refresh \cup {Update} /\ SessionNow \in SessionRecord
BY PanelAssumption, TaskKinds DEF Task, SessionNow, PanelTypes

\* A refresh begins, by an update or by the timer.
RefreshFrom(t, session, expected) ==
  \/ /\ t = Update /\ session = botSession /\ session.upload # 0 /\ expected = FALSE
  \/ /\ t \in Refresh /\ session = panelState.timer /\ session # NoUpload /\ expected = TRUE
     /\ HasEntry

LEMMA RefreshPanelKeeps ==
  ASSUME PanelIInv, NEW t \in Task, NEW session, NEW expected,
         ~Awake(t), RefreshFrom(t, session, expected), RefreshPanel(t, session, expected),
         UNCHANGED <<chat, sent, botSession, excused, lost>>,
         updates' \in Nat, t = Update \/ updates # 0 => updates' # 0
  PROVE  PanelIInv'
<1> DEFINE s == StateOfChat
           known == Known(s, session, "panel")
<1>1. /\ PanelTypes /\ Update \in Task /\ Update \notin Refresh /\ Task = Refresh \cup {Update}
      /\ sent \in Nat /\ states \in Nat
  BY UpdateIsTask DEF PanelIInv, PanelTypes
<1>2. /\ Grows /\ states' \in Nat /\ s \in EntryRecord' /\ s # NoState
      /\ HasEntry => s = panelState /\ states' = states
      /\ ~HasEntry => /\ s.entry = states + 1 /\ s.panel = None
                      /\ s.prompt = None /\ s.timer = NoUpload
  BY <1>1, ChatEntry DEF RefreshPanel
<1>3. /\ session \in SessionRecord /\ expected \in BOOLEAN
      /\ session.upload = SessionNow.upload
      /\ t = Update => session = SessionNow
      /\ session.prompt = botSession.prompt
           \/ (HasEntry /\ session.prompt = panelState.timer.prompt)
  <2>1. CASE t = Update
    BY <1>1, <2>1 DEF RefreshFrom, PanelTypes, SessionNow
  <2>2. CASE t \in Refresh
    <3>1. panelState \in EntryRecord
      BY <1>1, <2>2, EntryKinds DEF RefreshFrom
    <3>2. session \in SessionRecord
      BY <1>1, <2>2, <3>1 DEF RefreshFrom, EntryRecord
    <3> QED
      BY <1>1, <2>2, <3>2 DEF RefreshFrom, PanelIInv, EntryFits
  <2> QED
    BY <1>1, <2>1, <2>2
<1>4. /\ s.entry \in 1 .. states' /\ s.panel \in 0 .. sent /\ s.prompt \in 0 .. sent
      /\ s.turn \in Task /\ s.timer \in SessionRecord'
  BY <1>2 DEF EntryRecord, RefreshPanel, RefreshFrom
<1>5. known = IF s.panel # None THEN s.panel ELSE session.panel
  BY <1>2, KnownPanel
<1>6. session.panel \in 0 .. sent /\ session.prompt \in 0 .. sent /\ session.upload \in Nat
      /\ session.stale \in SUBSET (1 .. sent) /\ known \in 0 .. sent
  BY <1>3, <1>4, <1>5 DEF SessionRecord
<1> DEFINE task == [pc |-> "drop panel", session |-> [session EXCEPT !.panel = None],
                    expected |-> expected, state |-> s.entry, message |-> known]
<1>7. /\ tasks' = [tasks EXCEPT ![t] = task]
      /\ panelState' = [s EXCEPT !.panel = None,
                           !.timer = IF expected THEN NoUpload ELSE s.timer]
      /\ crossed' = (crossed \/ \E u \in Task \ {t} : Refreshing(u))
      /\ UNCHANGED <<chat, sent, botSession, excused, lost>>
  BY DEF RefreshPanel
<1> HIDE DEF s, known
<1>7b. /\ chat' = chat /\ sent' = sent /\ botSession' = botSession /\ excused' = excused
       /\ (lost' <=> lost)
  BY DEF RefreshPanel
<1>7a. SessionRecord' = SessionRecord /\ None \in 0 .. sent /\ NoUpload \in SessionRecord
  <2>1. SessionRecord' = SessionRecord
    BY <1>7b DEF SessionRecord
  <2>2. None \in 0 .. sent
    BY <1>1 DEF None
  <2> QED
    BY <1>1, <2>1, <2>2, NewSession
<1>8. /\ [session EXCEPT !.panel = None] \in SessionRecord'
      /\ task.session.upload = session.upload /\ task.session.stale = session.stale
      /\ task.session.prompt = session.prompt
  <2>1. /\ [session EXCEPT !.panel = None] \in SessionRecord
        /\ [session EXCEPT !.panel = None].upload = session.upload
        /\ [session EXCEPT !.panel = None].stale = session.stale
        /\ [session EXCEPT !.panel = None].prompt = session.prompt
    BY <1>3, <1>7a DEF SessionRecord
  <2> QED
    BY <1>7a, <2>1
<1>9. task \in RefreshTask'
  BY <1>1, <1>2, <1>3, <1>4, <1>6, <1>7, <1>8 DEF RefreshTask, RefreshPc
<1>10. /\ \A u \in Task \ {t} : tasks'[u] = tasks[u]
       /\ tasks'[t].pc = "drop panel" /\ tasks'[t].session.upload = session.upload
       /\ tasks'[t].session.stale = session.stale /\ tasks'[t].session.prompt = session.prompt
       /\ tasks'[t].expected = expected /\ tasks'[t].state = s.entry /\ tasks'[t].message = known
       /\ tasks'[t] \in RefreshTask'
  BY <1>1, <1>7, <1>8, <1>9 DEF PanelTypes
<1> HIDE DEF task
<1>11. /\ panelState' \in EntryRecord' /\ panelState'.panel = None
       /\ panelState'.prompt = s.prompt /\ panelState'.entry = s.entry /\ panelState'.turn = s.turn
       /\ panelState'.timer = (IF expected THEN NoUpload ELSE s.timer) /\ HasEntry'
  <2> DEFINE timer == IF expected THEN NoUpload ELSE s.timer
             entry == [s EXCEPT !.panel = None, !.timer = timer]
  <2>1. timer \in SessionRecord' /\ None \in 0 .. sent'
    BY <1>4, <1>7, <1>7a
  <2> HIDE DEF timer
  <2>2. /\ entry \in EntryRecord' /\ entry.panel = None /\ entry.prompt = s.prompt
        /\ entry.entry = s.entry /\ entry.turn = s.turn /\ entry.timer = timer
    BY <1>2, <2>1 DEF EntryRecord
  <2>3. s.entry # 0
    BY <1>1, <1>2, <1>4
  <2>4. panelState' = entry
    BY <1>7 DEF timer
  <2> HIDE DEF entry
  <2> QED
    BY <2>2, <2>3, <2>4 DEF HasEntry, timer
<1>12. /\ SessionNow'.upload = SessionNow.upload /\ SessionNow'.stale = SessionNow.stale
  <2>1. CASE t = Update
    BY <1>3, <1>10, <2>1 DEF SessionNow, Awake
  <2>2. CASE t # Update
    <3>1. tasks'[Update] = tasks[Update] /\ botSession' = botSession
      BY <1>1, <1>7, <1>10, <2>2
    <3> QED
      BY <3>1 DEF SessionNow, Awake
  <2> QED
    BY <2>1, <2>2
<1>13. PanelTypes'
  <2>1. /\ chat' \subseteq ChatMessage' /\ botSession' \in SessionRecord'
        /\ RefreshTask \subseteq RefreshTask' /\ ClearTask \subseteq ClearTask'
    BY <1>1, <1>2, <1>7, GrowingTypes DEF PanelTypes
  <2>2. tasks' \in [Task -> RefreshTask' \cup ClearTask' \cup {Asleep}]
    BY <1>1, <1>7, <1>9, <2>1 DEF PanelTypes
  <2>3. \A u \in Refresh : Awake(u)' => tasks'[u] \in RefreshTask' /\ tasks'[u].expected
    BY <1>1, <1>10, <2>1 DEF PanelTypes, Awake, RefreshFrom
  <2>4. /\ Refreshing(Update)' => tasks'[Update] \in RefreshTask' /\ ~tasks'[Update].expected
        /\ tasks'[Update].pc \in ClearPc => tasks'[Update] \in ClearTask'
        /\ tasks'[Update].pc \in PromptPc => tasks'[Update].state # 0
    <3>1. CASE t = Update
      BY <1>1, <1>10, <3>1 DEF Refreshing, ClearPc, PromptPc, RefreshFrom
    <3>2. CASE t # Update
      BY <1>1, <1>10, <2>1, <3>2 DEF PanelTypes, Refreshing
    <3> QED
      BY <3>1, <3>2
  <2>5. crossed' \in BOOLEAN
    BY <1>1, <1>7 DEF PanelTypes
  <2> QED
    BY <1>1, <1>2, <1>7, <1>11, <2>1, <2>2, <2>3, <2>4, <2>5 DEF PanelTypes
<1>14. SessionsFit'
  <2>1. CASE t = Update
    <3>1. tasks'[Update].pc = "drop panel" /\ tasks'[Update].session.upload # 0
      BY <1>1, <1>10, <2>1 DEF RefreshFrom
    <3> QED
      BY <1>7, <2>1, <3>1 DEF PanelIInv, SessionsFit
  <2>2. CASE t # Update
    BY <1>1, <1>7, <1>10, <2>2 DEF PanelIInv, SessionsFit, Awake
  <2> QED
    BY <2>1, <2>2
<1>15. Clearing' => t # Update /\ Clearing
  BY <1>1, <1>10 DEF Clearing, ClearPc
<1>16. ASSUME NEW u \in Task \ {t}, Awake(u), BelongsToEntry(u)'
       PROVE  BelongsToEntry(u) /\ HasEntry
  <2>1. tasks[u].state = s.entry /\ tasks[u].state \in 0 .. states
    BY <1>1, <1>10, <1>11, <1>16, TaskKinds DEF BelongsToEntry
  <2> QED
    BY <1>1, <1>2, <2>1 DEF BelongsToEntry
<1>17. EntryFits'
  <2>1. Clearing /\ t # Update => HasEntry /\ panelState.timer = NoUpload
    BY DEF PanelIInv, EntryFits, RefreshFrom
  <2>2. ~Clearing'
    BY <1>15, <2>1 DEF RefreshFrom
  <2>3. panelState'.timer # NoUpload => panelState'.timer.upload = SessionNow'.upload
    BY <1>2, <1>11, <1>12 DEF PanelIInv, EntryFits
  <2>4. ASSUME NEW u \in Refresh, Awake(u)', BelongsToEntry(u)'
        PROVE  tasks'[u].session.upload = SessionNow'.upload \/ (lost' /\ ~Refreshing(u)')
    <3>1. CASE u = t
      BY <1>3, <1>10, <1>12, <3>1
    <3>2. CASE u # t
      <4>1. Awake(u) /\ BelongsToEntry(u) /\ tasks'[u] = tasks[u]
        BY <1>1, <1>10, <1>16, <2>4, <3>2 DEF Awake
      <4>2. tasks[u].session.upload = SessionNow.upload \/ (lost /\ ~Refreshing(u))
        BY <2>4, <4>1 DEF PanelIInv, EntryFits
      <4> QED
        BY <1>7b, <1>12, <4>1, <4>2 DEF Refreshing
    <3> QED
      BY <3>1, <3>2
  <2>5. ASSUME NEW u \in Task, tasks'[u].pc \in PromptPc, BelongsToEntry(u)', panelState'.turn = u
        PROVE  panelState'.prompt = None
    <3>1. u # t /\ tasks'[u] = tasks[u] /\ Awake(u)
      BY <1>10, <2>5 DEF PromptPc, Awake
    <3>2. BelongsToEntry(u) /\ HasEntry
      BY <1>16, <2>5, <3>1
    <3> QED
      BY <1>2, <1>11, <2>5, <3>1, <3>2 DEF PanelIInv, EntryFits
  <2> QED
    BY <2>2, <2>3, <2>4, <2>5 DEF EntryFits
<1>18. PanelIsSafe'
  BY <1>11 DEF PanelIsSafe
<1>19. \A m \in chat : Live(m)' => Live(m)
  BY <1>7, <1>12 DEF Live
<1>20. PanelsKnown'
  <2>1. ASSUME NEW m \in chat, m.kind = "panel", Live(m), ~crossed
        PROVE  \/ \E u \in Task : tasks'[u].pc = "drop panel" /\ tasks'[u].message = m.id
               \/ tasks'[Update].pc = "clear panel" /\ tasks'[Update].message = m.id
    <3>1. CASE HasEntry /\ panelState.panel = m.id /\ m.upload = SessionNow.upload
      <4>1. m.id # None
        BY <1>1 DEF PanelTypes, ChatMessage, None
      <4>2. known = m.id
        BY <1>2, <1>5, <3>1, <4>1
      <4> QED
        BY <1>10, <4>2
    <3>2. ASSUME NEW u \in Task, tasks[u].pc = "drop panel", tasks[u].message = m.id
          PROVE  tasks'[u].pc = "drop panel" /\ tasks'[u].message = m.id
      BY <1>10, <3>2 DEF Awake
    <3>3. CASE tasks[Update].pc = "clear panel" /\ tasks[Update].message = m.id
      BY <1>1, <1>10, <3>3 DEF Awake
    <3> QED
      BY <2>1, <3>1, <3>2, <3>3 DEF PanelIInv, PanelsKnown
  <2> QED
    BY <1>7, <1>19, <2>1 DEF PanelsKnown
<1>21. OneRefresh'
  <2>1. ASSUME ~crossed', NEW u \in Task \ {t}
        PROVE  ~Refreshing(u)'
    <3>1. ~Refreshing(u)
      BY <1>7, <2>1
    <3> QED
      BY <1>10, <3>1 DEF Refreshing
  <2> QED
    BY <1>11, <2>1 DEF OneRefresh
<1>22. PromptsKnown'
  <2>1. ASSUME NEW m \in chat, m.kind = "prompt", Live(m)
        PROVE  \/ panelState'.prompt = m.id /\ (lost' \/ m.upload = SessionNow'.upload)
               \/ \E u \in Task : tasks'[u].pc = "drop prompt" /\ tasks'[u].message = m.id
               \/ tasks'[Update].pc = "clear panel" /\ tasks'[Update].prompt = m.id
               \/ tasks'[Update].pc = "clear prompt" /\ tasks'[Update].message = m.id
    <3>1. CASE HasEntry /\ panelState.prompt = m.id /\ (lost \/ m.upload = SessionNow.upload)
      <4>1. panelState'.prompt = m.id
        BY <1>2, <1>11, <3>1
      <4>2. lost' \/ m.upload = SessionNow'.upload
        BY <1>7b, <1>12, <3>1
      <4> QED
        BY <4>1, <4>2
    <3>2. ASSUME NEW u \in Task, tasks[u].pc = "drop prompt", tasks[u].message = m.id
          PROVE  tasks'[u].pc = "drop prompt" /\ tasks'[u].message = m.id
      BY <1>10, <3>2 DEF Awake
    <3>3. tasks[Update].pc \in ClearPc => tasks'[Update] = tasks[Update]
      BY <1>1, <1>10 DEF Awake, ClearPc
    <3> QED
      BY <2>1, <3>1, <3>2, <3>3 DEF PanelIInv, PromptsKnown, ClearPc
  <2> QED
    BY <1>7, <1>11, <1>19, <2>1 DEF PromptsKnown
<1>23. UploadShown'
  <2>1. WillSend(t)'
    BY <1>10, <1>11 DEF WillSend, Refreshing, BelongsToEntry
  <2> QED
    BY <2>1 DEF UploadShown
<1>24. UploadBegins'
  <2>1. CASE t = Update
    <3>1. SessionNow'.upload = botSession'.upload
      BY <1>1, <1>3, <1>7b, <1>12, <2>1 DEF RefreshFrom
    <3>2. tasks'[Update].pc = "drop panel"
      BY <1>10, <2>1
    <3> QED
      BY <3>1, <3>2 DEF UploadBegins, ClearsTheLast
  <2>2. CASE t \in Refresh
    <3>1. tasks'[Update] = tasks[Update]
      BY <1>1, <1>10, <2>2
    <3>2. SessionNow.upload = botSession.upload
      BY <1>1, <2>2 DEF PanelIInv, UploadBegins, RefreshFrom
    <3> QED
      BY <1>7b, <1>12, <3>1, <3>2 DEF PanelIInv, UploadBegins, ClearsTheLast
  <2> QED
    BY <1>1, <2>1, <2>2
<1> QED
  BY <1>13, <1>14, <1>17, <1>18, <1>20, <1>21, <1>22, <1>23, <1>24 DEF PanelIInv

\* The session after a message is deleted.
SessionsUpTo(n) == [upload : Nat, panel : 0 .. n, prompt : 0 .. n, stale : SUBSET (1 .. n)]
SessionAfterDelete(after, before, id, outcome) ==
  /\ after.upload = before.upload /\ after.panel = before.panel /\ after.prompt = before.prompt
  /\ after.stale = IF outcome.remembered THEN before.stale \cup {id} ELSE before.stale

LEMMA DeleteFacts ==
  ASSUME NEW n \in Nat, NEW session \in SessionsUpTo(n), NEW id \in 0 .. n,
         NEW outcome \in Outcome, Fits(outcome, id)
  PROVE  /\ Delete(session, id, outcome) \in SessionsUpTo(n)
         /\ SessionAfterDelete(Delete(session, id, outcome), session, id, outcome)
<1>1. CASE ~outcome.remembered
  BY <1>1 DEF Delete, SessionAfterDelete
<1>2. CASE outcome.remembered
  <2>1. session.stale \cup {id} \in SUBSET (1 .. n)
    BY <1>2 DEF SessionsUpTo, None, Fits
  <2>2. Delete(session, id, outcome) = [session EXCEPT !.stale = session.stale \cup {id}]
    BY <1>2 DEF Delete
  <2> DEFINE after == [session EXCEPT !.stale = session.stale \cup {id}]
  <2>3. /\ after \in SessionsUpTo(n) /\ after.upload = session.upload
        /\ after.panel = session.panel /\ after.prompt = session.prompt
        /\ after.stale = session.stale \cup {id}
    BY <2>1 DEF SessionsUpTo
  <2> HIDE DEF after
  <2> QED
    BY <1>2, <2>2, <2>3 DEF SessionAfterDelete, after
<1> QED
  BY <1>1, <1>2

LEMMA SessionBounds ==
  SessionRecord = SessionsUpTo(sent) /\ SessionRecord' = SessionsUpTo(sent')
BY DEF SessionRecord, SessionsUpTo

\* The message of a handler is deleted, or remembered as one that is not.
StaleAfter(t, id, outcome) ==
  SessionNow'.stale =
    IF t = Update /\ outcome.remembered THEN SessionNow.stale \cup {id} ELSE SessionNow.stale
Dropped(id) ==
  /\ \A m \in chat : m \in chat' \/ m.id = id
  /\ \A m \in chat' : Live(m)' => m \in chat /\ Live(m) /\ m.id # id
  /\ SessionNow'.stale \subseteq SessionNow.stale \cup {id}
  /\ excused' \subseteq 1 .. sent'

LEMMA ExcusedFacts ==
  ASSUME NEW t, NEW id, NEW outcome, NEW n \in Nat, Fits(outcome, id), id \in 0 .. n,
         excused \subseteq 1 .. n
  PROVE  /\ excused \subseteq ExcusedBy(t, id, outcome)
         /\ ExcusedBy(t, id, outcome) \subseteq excused \cup {id}
         /\ ExcusedBy(t, id, outcome) \subseteq 1 .. n
         /\ outcome.stays =>
              id \in ExcusedBy(t, id, outcome) \/ (t = Update /\ outcome.remembered)
BY DEF ExcusedBy, Fits, None

LEMMA DropFacts ==
  ASSUME PanelTypes, NEW t \in Task, NEW id \in 0 .. sent, NEW outcome \in Outcome,
         Fits(outcome, id), chat' = WithoutMessage(id, outcome),
         excused' = ExcusedBy(t, id, outcome), sent' = sent, StaleAfter(t, id, outcome)
  PROVE  Dropped(id)
<1>1. sent \in Nat /\ excused \subseteq 1 .. sent
  BY DEF PanelTypes
<1>2. /\ excused \subseteq excused' /\ excused' \subseteq 1 .. sent'
      /\ outcome.stays => id \in excused' \/ (t = Update /\ outcome.remembered)
  BY <1>1, ExcusedFacts
<1>3. /\ SessionNow.stale \subseteq SessionNow'.stale
      /\ SessionNow'.stale \subseteq SessionNow.stale \cup {id}
      /\ t = Update /\ outcome.remembered => id \in SessionNow'.stale
  BY DEF StaleAfter
<1>4. ASSUME NEW m \in chat', Live(m)'
      PROVE  m \in chat /\ Live(m) /\ m.id # id
  BY <1>2, <1>3, <1>4 DEF WithoutMessage, Live
<1>5. \A m \in chat : m \in chat' \/ m.id = id
  BY DEF WithoutMessage
<1> QED
  BY <1>2, <1>3, <1>4, <1>5 DEF Dropped

\* Nothing that the entry shows is dropped by a handler.
LEMMA DroppedKeeps ==
  ASSUME PanelIInv, NEW id, Dropped(id),
         HasEntry => panelState.panel # id \/ panelState.panel = None,
         panelState' = panelState, lost' <=> lost,
         SessionNow'.upload = SessionNow.upload, Clearing' <=> Clearing,
         \A u \in Task : WillSend(u)' <=> WillSend(u)
  PROVE  UploadShown'
<1> SUFFICES ASSUME ~lost, SessionNow.upload # 0, ~Clearing, \A u \in Task : ~WillSend(u)
             PROVE  /\ HasEntry
                    /\ \E m \in chat' : /\ m.kind = "panel" /\ m.id = panelState.panel
                                        /\ m.upload = SessionNow.upload
  BY DEF UploadShown, HasEntry
<1>1. HasEntry
  BY DEF PanelIInv, UploadShown
<1>2. PICK m \in chat : /\ m.kind = "panel" /\ m.id = panelState.panel
                        /\ m.upload = SessionNow.upload
  BY DEF PanelIInv, UploadShown
<1>3. panelState.panel # None
  BY <1>2 DEF PanelIInv, PanelTypes, ChatMessage, None
<1> QED
  BY <1>1, <1>2, <1>3 DEF Dropped

\* A handler's record changes in these fields.
Became(t, pc, session, state, message) ==
  /\ tasks' = [tasks EXCEPT ![t] = tasks'[t]] /\ OthersWait(t)
  /\ tasks'[t].pc = pc /\ tasks'[t].session = session /\ tasks'[t].state = state
  /\ tasks'[t].message = message /\ tasks'[t].expected = tasks[t].expected
  /\ tasks[t] \in RefreshTask => tasks'[t] \in RefreshTask'
  /\ tasks[t] \in ClearTask => tasks'[t] \in ClearTask' /\ tasks'[t].prompt = tasks[t].prompt

LEMMA TaskBecomes ==
  ASSUME PanelTypes, Grows, NEW t \in Task, Awake(t), NEW pc \in RefreshPc \cup PromptPc,
         pc \in RefreshPc => Refreshing(t),
         NEW session \in SessionRecord', NEW state \in 1 .. states', NEW message \in 0 .. sent',
         tasks' = [tasks EXCEPT ![t] = [tasks[t] EXCEPT !.pc = pc, !.session = session,
                                                        !.message = message, !.state = state]]
  PROVE  Became(t, pc, session, state, message)
<1> DEFINE task == [tasks[t] EXCEPT !.pc = pc, !.session = session,
                                    !.message = message, !.state = state]
<1>1. tasks'[t] = task /\ OthersWait(t) /\ tasks' = [tasks EXCEPT ![t] = tasks'[t]]
  BY DEF PanelTypes, OthersWait
<1>2. sent \in Nat /\ states \in Nat
  BY DEF PanelTypes
<1>3. RefreshTask \subseteq RefreshTask' /\ ClearTask \subseteq ClearTask'
  BY <1>2, GrowingTypes
<1>4. state \in 0 .. states'
  OBVIOUS
<1>5. ASSUME tasks[t] \in RefreshTask
      PROVE  /\ task.pc = pc /\ task.session = session /\ task.state = state
             /\ task.message = message /\ task.expected = tasks[t].expected
             /\ task \in RefreshTask'
  <2>1. tasks[t] \in RefreshTask'
    BY <1>3, <1>5
  <2>2. /\ task.pc = pc /\ task.session = session /\ task.state = state
        /\ task.message = message /\ task.expected = tasks[t].expected
    BY <1>5 DEF RefreshTask
  <2>3. task \in RefreshTask'
    BY <2>1 DEF RefreshTask
  <2> QED
    BY <2>2, <2>3
<1>6. ASSUME tasks[t] \in ClearTask
      PROVE  /\ task.pc = pc /\ task.session = session /\ task.state = state
             /\ task.message = message /\ task.expected = tasks[t].expected
             /\ task.prompt = tasks[t].prompt /\ task \in ClearTask'
  <2>1. tasks[t] \in ClearTask'
    BY <1>3, <1>6
  <2>2. /\ task.pc = pc /\ task.session = session /\ task.state = state
        /\ task.message = message /\ task.expected = tasks[t].expected
        /\ task.prompt = tasks[t].prompt
    BY <1>6 DEF ClearTask
  <2>3. pc \in PromptPc
    BY <1>6 DEF ClearTask, Refreshing, RefreshPc, ClearPc, PromptPc
  <2>4. task \in ClearTask'
    BY <1>4, <1>6, <2>1, <2>3 DEF ClearTask
  <2> QED
    BY <2>2, <2>4
<1> HIDE DEF task
<1>7. tasks[t] \in RefreshTask \/ tasks[t] \in ClearTask
  BY TaskKinds
<1> QED
  BY <1>1, <1>5, <1>6, <1>7 DEF Became

\* The part of the types that is about one handler, and the rest.
TaskFits(t) ==
  /\ tasks[t] \in RefreshTask \cup ClearTask \cup {Asleep}
  /\ t \in Refresh /\ Awake(t) => tasks[t] \in RefreshTask /\ tasks[t].expected
  /\ t = Update => /\ Refreshing(t) => tasks[t] \in RefreshTask /\ ~tasks[t].expected
                   /\ tasks[t].pc \in ClearPc => tasks[t] \in ClearTask
                   /\ tasks[t].pc \in PromptPc => tasks[t].state # 0
RestFits ==
  /\ chat \subseteq ChatMessage /\ \A m, n \in chat : m.id = n.id => m = n
  /\ botSession \in SessionRecord /\ panelState \in EntryRecord \cup {NoState}
  /\ excused \subseteq 1 .. sent /\ crossed \in BOOLEAN /\ lost \in BOOLEAN
  /\ updates \in Nat

LEMMA TypesAreFits ==
  ASSUME PanelTypes PROVE RestFits /\ \A t \in Task : TaskFits(t)
BY UpdateIsTask DEF PanelTypes, RestFits, TaskFits

LEMMA TypesKept ==
  ASSUME PanelTypes, Grows, NEW t \in Task, tasks' = [tasks EXCEPT ![t] = tasks'[t]],
         TaskFits(t)', RestFits'
  PROVE  PanelTypes'
<1>1. /\ sent \in Nat /\ states \in Nat
           /\ tasks \in [Task -> RefreshTask \cup ClearTask \cup {Asleep}]
      /\ Update \in Task /\ Refresh \subseteq Task
  BY UpdateIsTask DEF PanelTypes
<1>2. RefreshTask \subseteq RefreshTask' /\ ClearTask \subseteq ClearTask'
  BY <1>1, GrowingTypes
<1>3. sent' \in Nat /\ states' \in Nat
  BY <1>1 DEF Grows
<1>4. \A u \in Task \ {t} : tasks'[u] = tasks[u]
  BY <1>1
<1>5. tasks'[t] \in RefreshTask' \cup ClearTask' \cup {Asleep}
  BY DEF TaskFits
<1>6. tasks' \in [Task -> RefreshTask' \cup ClearTask' \cup {Asleep}]
  BY <1>1, <1>2, <1>5
<1>7. ASSUME NEW u \in Refresh, Awake(u)'
      PROVE  tasks'[u] \in RefreshTask' /\ tasks'[u].expected
  <2>1. CASE u = t
    BY <1>7, <2>1 DEF TaskFits
  <2>2. CASE u # t
    <3>1. tasks'[u] = tasks[u] /\ Awake(u)
      BY <1>1, <1>4, <1>7, <2>2 DEF Awake
    <3> QED
      BY <1>2, <3>1 DEF PanelTypes
  <2> QED
    BY <2>1, <2>2
<1>8. /\ Refreshing(Update)' => tasks'[Update] \in RefreshTask' /\ ~tasks'[Update].expected
      /\ tasks'[Update].pc \in ClearPc => tasks'[Update] \in ClearTask'
      /\ tasks'[Update].pc \in PromptPc => tasks'[Update].state # 0
  <2>1. CASE t = Update
    BY <2>1 DEF TaskFits
  <2>2. CASE t # Update
    <3>1. tasks'[Update] = tasks[Update]
      BY <1>1, <1>4, <2>2
    <3> QED
      BY <1>2, <3>1 DEF PanelTypes, Refreshing
  <2> QED
    BY <2>1, <2>2
<1> QED
  BY <1>3, <1>6, <1>7, <1>8 DEF RestFits, PanelTypes

\* A handler that goes on is what it was, one that ends is asleep.
LEMMA BecameFits ==
  ASSUME PanelTypes, NEW t \in Task, Awake(t), NEW pc \in RefreshPc \cup PromptPc,
         pc \in RefreshPc => Refreshing(t), NEW session, NEW state \in 1 .. states', NEW message,
         Became(t, pc, session, state, message)
  PROVE  TaskFits(t)'
<1>1. TaskFits(t) /\ Update \notin Refresh
  BY TypesAreFits, UpdateIsTask
<1>2. tasks'[t] \in RefreshTask' \cup ClearTask'
  BY TaskKinds DEF Became
<1>3. t \in Refresh => tasks'[t] \in RefreshTask' /\ tasks'[t].expected
  BY <1>1 DEF Became, TaskFits
<1>4. Refreshing(t)' => Refreshing(t)
  BY DEF Became, RefreshPc, PromptPc, Refreshing
<1>5. t = Update /\ Refreshing(t)' => tasks'[t] \in RefreshTask' /\ ~tasks'[t].expected
  BY <1>1, <1>4 DEF Became, TaskFits
<1>6. tasks'[t].pc \notin ClearPc
  BY DEF Became, RefreshPc, PromptPc, ClearPc
<1>7. tasks'[t].state # 0
  BY DEF Became
<1> QED
  BY <1>2, <1>3, <1>5, <1>6, <1>7 DEF TaskFits

LEMMA AsleepFits ==
  ASSUME NEW t, tasks'[t] = Asleep
  PROVE  TaskFits(t)' /\ ~Awake(t)' /\ ~Refreshing(t)'
BY DEF Asleep, TaskFits, Awake, Refreshing, ClearPc, PromptPc

\* The session that is written in the end, after a step of a handler.
LEMMA SessionAfter ==
  ASSUME PanelTypes, NEW t \in Task, OthersWait(t), t # Update => botSession' = botSession
  PROVE  /\ t # Update => SessionNow' = SessionNow
         /\ t = Update => SessionNow' = IF Awake(t)' THEN tasks'[t].session ELSE botSession'
         /\ t = Update /\ Awake(t) => SessionNow = tasks[t].session
         /\ t # Update => (Clearing' <=> Clearing)
BY UpdateIsTask DEF OthersWait, SessionNow, Awake, Clearing

\* A step that leaves the entry alone and gives up one message: the handler
\* goes on, or it is done.
Proceeds(t, pc) ==
  /\ tasks'[t].pc = pc /\ pc \in {"send panel", "send prompt"}
  /\ pc = "send panel" <=> Refreshing(t)
  /\ tasks'[t].state = tasks[t].state /\ tasks'[t].message = tasks[t].message
  /\ tasks'[t].session.upload = tasks[t].session.upload
  /\ tasks'[t].session.prompt = tasks[t].session.prompt
GivesUp(t, id) ==
  /\ Awake(t) /\ tasks[t].pc \in RefreshPc \cup PromptPc /\ OthersWait(t)
  /\ tasks'[t] = Asleep \/ \E pc \in {"send panel", "send prompt"} : Proceeds(t, pc)
  /\ WillSend(t) => WillSend(t)'
  /\ tasks[t].pc \in {"drop panel", "drop prompt"} => tasks[t].message = id
  /\ Dropped(id) /\ (HasEntry => panelState.panel # id \/ panelState.panel = None)
  /\ panelState' = panelState /\ (lost' <=> lost) /\ (crossed' <=> crossed)
  /\ updates' = updates
  /\ botSession' = IF t = Update /\ tasks'[t] = Asleep THEN SessionNow' ELSE botSession
  /\ SessionNow'.upload = SessionNow.upload /\ SessionNow'.prompt = SessionNow.prompt

LEMMA GivesUpKeeps ==
  ASSUME PanelIInv, NEW t \in Task, NEW id, GivesUp(t, id), PanelTypes'
  PROVE  PanelIInv'
<1>1. /\ PanelTypes /\ Update \in Task /\ Refresh \subseteq Task /\ Update \notin Refresh
      /\ SessionNow \in SessionRecord
  BY UpdateIsTask DEF PanelIInv
<1>2. ASSUME NEW u \in Task
      PROVE  /\ Awake(u)' => Awake(u)
             /\ Refreshing(u)' => Refreshing(u)
             /\ tasks'[u].pc \in PromptPc => tasks[u].pc \in PromptPc
             /\ BelongsToEntry(u)' /\ Awake(u)' => BelongsToEntry(u)
             /\ Awake(u)' => tasks'[u].session.upload = tasks[u].session.upload
             /\ Awake(u)' => tasks'[u].session.prompt = tasks[u].session.prompt
             /\ Awake(u)' => tasks'[u].message = tasks[u].message
  <2>1. CASE u # t
    BY <2>1 DEF GivesUp, OthersWait, Awake, Refreshing, BelongsToEntry
  <2>2. CASE u = t /\ tasks'[t] = Asleep
    BY <2>2 DEF Asleep, Awake, Refreshing, PromptPc
  <2>3. CASE u = t /\ \E pc \in {"send panel", "send prompt"} : Proceeds(t, pc)
    BY <2>3 DEF GivesUp, Proceeds, Awake, Refreshing, BelongsToEntry, PromptPc, RefreshPc
  <2> QED
    BY <2>1, <2>2, <2>3 DEF GivesUp
<1>3. /\ Clearing' <=> Clearing
      /\ \A pc \in ClearPc : tasks[Update].pc = pc <=> tasks'[Update].pc = pc
      /\ Clearing => tasks'[Update] = tasks[Update]
  <2>1. CASE t = Update
    <3>1. tasks[Update].pc \notin ClearPc
      BY <2>1 DEF GivesUp, ClearPc, RefreshPc, PromptPc
    <3>2. tasks'[t].pc \in {"asleep", "send panel", "send prompt"}
      <4>1. tasks'[t] = Asleep \/ \E pc \in {"send panel", "send prompt"} : Proceeds(t, pc)
        BY DEF GivesUp
      <4>2. ASSUME NEW pc \in {"send panel", "send prompt"}, Proceeds(t, pc)
            PROVE  tasks'[t].pc \in {"send panel", "send prompt"}
        BY <4>2 DEF Proceeds
      <4>3. tasks'[t] = Asleep => tasks'[t].pc = "asleep"
        BY DEF Asleep
      <4> QED
        BY <4>1, <4>2, <4>3
    <3>3. tasks'[t].pc \notin ClearPc
      BY <3>2 DEF ClearPc
    <3> QED
      BY <2>1, <3>1, <3>3 DEF Clearing
  <2>2. CASE t # Update
    BY <1>1, <2>2 DEF GivesUp, OthersWait, Clearing
  <2> QED
    BY <2>1, <2>2
<1>4. WillSend(t)' <=> WillSend(t)
  BY <1>2 DEF GivesUp, WillSend, Refreshing, Awake
<1>5. ASSUME NEW u \in Task
      PROVE  WillSend(u)' <=> WillSend(u)
  BY <1>4 DEF GivesUp, OthersWait, WillSend, Refreshing, BelongsToEntry
<1>6. UploadShown'
  <2>1. /\ Dropped(id) /\ (HasEntry => panelState.panel # id \/ panelState.panel = None)
        /\ panelState' = panelState /\ (lost' <=> lost)
        /\ SessionNow'.upload = SessionNow.upload
    BY DEF GivesUp
  <2> QED
    BY <1>3, <1>5, <2>1, DroppedKeeps
<1>7. SessionsFit'
  <2>1. Awake(Update)' /\ tasks'[Update].pc \notin {"clear panel", "clear prompt"}
          => tasks'[Update].session.upload # 0
    <3>1. Awake(Update)' => Awake(Update)
            /\ tasks'[Update].session.upload = tasks[Update].session.upload
      BY <1>1, <1>2
    <3>2. tasks'[Update].pc \notin {"clear panel", "clear prompt"}
            => tasks[Update].pc \notin {"clear panel", "clear prompt"}
      BY <1>3 DEF ClearPc
    <3> QED
      BY <3>1, <3>2 DEF PanelIInv, SessionsFit
  <2>2. tasks'[Update].pc \in {"clear prompt", "send first"}
          => tasks'[Update].session.panel = None /\ tasks'[Update].session.prompt = None
    BY <1>3 DEF PanelIInv, SessionsFit, Clearing, ClearPc
  <2>3. Awake(Update)' => updates' # 0
    BY <1>1, <1>2 DEF GivesUp, PanelIInv, SessionsFit
  <2>4. botSession'.upload = 0 => botSession'.panel = None /\ botSession'.prompt = None
    <3>1. CASE t = Update /\ tasks'[t] = Asleep
      <4>1. tasks[Update].pc \notin {"clear panel", "clear prompt"} /\ Awake(Update)
        BY <3>1 DEF GivesUp, RefreshPc, PromptPc
      <4>2. SessionNow.upload # 0
        BY <4>1 DEF PanelIInv, SessionsFit, SessionNow
      <4> QED
        BY <3>1, <4>2 DEF GivesUp
    <3>2. CASE ~(t = Update /\ tasks'[t] = Asleep)
      BY <3>2 DEF GivesUp, PanelIInv, SessionsFit
    <3> QED
      BY <3>1, <3>2
  <2> QED
    BY <2>1, <2>2, <2>3, <2>4 DEF SessionsFit
<1>8. EntryFits'
  <2>1. Clearing' /\ HasEntry' => lost' /\ panelState'.panel = None
          /\ panelState'.timer = NoUpload
    BY <1>3 DEF GivesUp, PanelIInv, EntryFits, HasEntry
  <2>2. Clearing' => \A u \in Refresh : Refreshing(u)' => ~BelongsToEntry(u)'
    <3>1. ASSUME NEW u \in Refresh, Refreshing(u)'
          PROVE  Refreshing(u) /\ Awake(u)'
      BY <1>1, <1>2, <3>1 DEF Refreshing, Awake
    <3> QED
      BY <1>1, <1>2, <1>3, <3>1 DEF PanelIInv, EntryFits
  <2>3. HasEntry' /\ panelState'.timer # NoUpload => panelState'.timer.upload = SessionNow'.upload
    BY DEF GivesUp, PanelIInv, EntryFits, HasEntry
  <2>4. ASSUME NEW u \in Refresh, Awake(u)', BelongsToEntry(u)'
        PROVE  tasks'[u].session.upload = SessionNow'.upload \/ (lost' /\ ~Refreshing(u)')
    <3>1. Awake(u) /\ BelongsToEntry(u) /\ tasks'[u].session.upload = tasks[u].session.upload
      BY <1>1, <1>2, <2>4
    <3>2. tasks[u].session.upload = SessionNow.upload \/ (lost /\ ~Refreshing(u))
      BY <3>1 DEF PanelIInv, EntryFits
    <3>3. ~Refreshing(u) => ~Refreshing(u)'
      BY <1>1, <1>2
    <3> QED
      BY <3>1, <3>2, <3>3 DEF GivesUp
  <2>5. ASSUME NEW u \in Task, tasks'[u].pc \in PromptPc, BelongsToEntry(u)', panelState'.turn = u
        PROVE  panelState'.prompt = None
    <3>1. tasks[u].pc \in PromptPc /\ BelongsToEntry(u)
      BY <1>2, <2>5 DEF Awake, PromptPc
    <3> QED
      BY <2>5, <3>1 DEF GivesUp, PanelIInv, EntryFits
  <2> QED
    BY <2>1, <2>2, <2>3, <2>4, <2>5 DEF EntryFits
<1>9. PanelIsSafe'
  <2> SUFFICES ASSUME HasEntry', panelState'.panel # None
               PROVE  PanelIsSafe'
    BY DEF PanelIsSafe
  <2>1. /\ HasEntry /\ panelState.panel # None /\ panelState'.panel = panelState.panel
        /\ panelState.panel # id /\ panelState' = panelState
    BY DEF GivesUp, HasEntry
  <2>2. /\ panelState.panel \notin botSession.stale \cup SessionNow.stale
        /\ panelState.panel \notin {panelState.prompt, panelState.timer.prompt, botSession.prompt}
        /\ \A u \in Task : Awake(u) =>
             panelState.panel \notin {tasks[u].message, tasks[u].session.prompt}
        /\ tasks[Update].pc = "clear panel" => panelState.panel # tasks[Update].prompt
    BY <2>1 DEF PanelIInv, PanelIsSafe
  <2>3. panelState.panel \notin SessionNow'.stale
    BY <2>1, <2>2 DEF GivesUp, Dropped
  <2>4. panelState.panel \notin botSession'.stale /\ panelState.panel # botSession'.prompt
    <3>1. CASE t = Update /\ tasks'[t] = Asleep
      <4>1. botSession'.prompt = tasks[Update].session.prompt
        BY <3>1 DEF GivesUp, SessionNow
      <4> QED
        BY <1>1, <2>2, <2>3, <3>1, <4>1 DEF GivesUp
    <3>2. CASE ~(t = Update /\ tasks'[t] = Asleep)
      BY <2>2, <3>2 DEF GivesUp
    <3> QED
      BY <3>1, <3>2
  <2>5. \A u \in Task : Awake(u)' =>
          panelState.panel \notin {tasks'[u].message, tasks'[u].session.prompt}
    BY <1>2, <2>2
  <2>6. tasks'[Update].pc = "clear panel" => panelState.panel # tasks'[Update].prompt
    BY <1>3, <2>2 DEF Clearing, ClearPc
  <2> QED
    BY <2>1, <2>2, <2>3, <2>4, <2>5, <2>6 DEF PanelIsSafe
<1>10. ASSUME NEW m \in chat', Live(m)'
       PROVE  /\ m \in chat /\ Live(m)
              /\ \A u \in Task : tasks[u].pc = "drop panel" /\ tasks[u].message = m.id =>
                   tasks'[u].pc = "drop panel" /\ tasks'[u].message = m.id
              /\ \A u \in Task : tasks[u].pc = "drop prompt" /\ tasks[u].message = m.id =>
                   tasks'[u].pc = "drop prompt" /\ tasks'[u].message = m.id
  BY <1>10 DEF GivesUp, Dropped, OthersWait
<1>11. PanelsKnown'
  <2>1. ASSUME NEW m \in chat', m.kind = "panel", Live(m)', ~crossed'
        PROVE  \/ HasEntry' /\ panelState'.panel = m.id /\ m.upload = SessionNow'.upload
               \/ \E u \in Task : tasks'[u].pc = "drop panel" /\ tasks'[u].message = m.id
               \/ tasks'[Update].pc = "clear panel" /\ tasks'[Update].message = m.id
    <3>1. m \in chat /\ Live(m) /\ ~crossed
      BY <1>10, <2>1 DEF GivesUp
    <3>2. CASE HasEntry /\ panelState.panel = m.id /\ m.upload = SessionNow.upload
      BY <3>2 DEF GivesUp, HasEntry
    <3>3. CASE \E u \in Task : tasks[u].pc = "drop panel" /\ tasks[u].message = m.id
      BY <1>10, <2>1, <3>3
    <3>4. CASE tasks[Update].pc = "clear panel" /\ tasks[Update].message = m.id
      BY <1>3, <3>4 DEF Clearing, ClearPc
    <3> QED
      BY <2>1, <3>1, <3>2, <3>3, <3>4 DEF PanelIInv, PanelsKnown
  <2> QED
    BY <2>1 DEF PanelsKnown
<1>12. PromptsKnown'
  <2>1. ASSUME NEW m \in chat', m.kind = "prompt", Live(m)'
        PROVE  \/ HasEntry' /\ panelState'.prompt = m.id
                    /\ (lost' \/ m.upload = SessionNow'.upload)
               \/ \E u \in Task : tasks'[u].pc = "drop prompt" /\ tasks'[u].message = m.id
               \/ tasks'[Update].pc = "clear panel" /\ tasks'[Update].prompt = m.id
               \/ tasks'[Update].pc = "clear prompt" /\ tasks'[Update].message = m.id
    <3>1. m \in chat /\ Live(m)
      BY <1>10, <2>1
    <3>2. CASE HasEntry /\ panelState.prompt = m.id /\ (lost \/ m.upload = SessionNow.upload)
      BY <3>2 DEF GivesUp, HasEntry
    <3>3. CASE \E u \in Task : tasks[u].pc = "drop prompt" /\ tasks[u].message = m.id
      BY <1>10, <2>1, <3>3
    <3>4. CASE tasks[Update].pc = "clear panel" /\ tasks[Update].prompt = m.id
      BY <1>3, <3>4 DEF Clearing, ClearPc
    <3>5. CASE tasks[Update].pc = "clear prompt" /\ tasks[Update].message = m.id
      BY <1>3, <3>5 DEF Clearing, ClearPc
    <3> QED
      BY <2>1, <3>1, <3>2, <3>3, <3>4, <3>5 DEF PanelIInv, PromptsKnown
  <2> QED
    BY <2>1 DEF PromptsKnown
<1>13. OneRefresh'
  <2>1. ~crossed' => ~crossed
    BY DEF GivesUp
  <2>2. HasEntry' => HasEntry /\ panelState'.panel = panelState.panel
    BY DEF GivesUp, HasEntry
  <2> QED
    BY <1>2, <1>5, <2>1, <2>2 DEF PanelIInv, OneRefresh
<1>14. UploadBegins'
  <2>1. CASE t = Update /\ tasks'[t] = Asleep
    <3>1. ~Awake(Update)'
      BY <2>1, AsleepFits
    <3>2. tasks'[Update].pc \notin {"clear panel", "clear prompt", "send first"}
      BY <3>1 DEF Awake
    <3>3. SessionNow' = botSession'
      BY <3>1 DEF SessionNow
    <3> QED
      BY <3>2, <3>3 DEF UploadBegins, ClearsTheLast
  <2>2. CASE ~(t = Update /\ tasks'[t] = Asleep)
    <3>1. /\ botSession' = botSession /\ panelState' = panelState
          /\ SessionNow'.upload = SessionNow.upload
      BY <2>2 DEF GivesUp
    <3>2. ClearsTheLast'
      BY <1>3, <3>1 DEF PanelIInv, UploadBegins, ClearsTheLast, Clearing, ClearPc
    <3>3. ASSUME NEW u \in Refresh, Refreshing(u)', BelongsToEntry(u)'
          PROVE  Refreshing(u) /\ BelongsToEntry(u)
      BY <1>1, <1>2, <3>3 DEF Refreshing, Awake
    <3> QED
      BY <3>1, <3>2, <3>3 DEF PanelIInv, UploadBegins, HasEntry
  <2> QED
    BY <2>1, <2>2
<1> QED
  BY <1>6, <1>7, <1>8, <1>9, <1>11, <1>12, <1>13, <1>14 DEF PanelIInv

LEMMA UpdateExpects ==
  ASSUME PanelTypes, NEW t \in Task, Refreshing(t)
  PROVE  /\ tasks[t] \in RefreshTask /\ tasks[t].state \in 1 .. states
         /\ t = Update => StillExpected(t)
         /\ t \in Refresh => (StillExpected(t) <=> BelongsToEntry(t))
<1>1. t = Update \/ t \in Refresh
  BY UpdateIsTask
<1>2. t = Update => tasks[t] \in RefreshTask /\ ~tasks[t].expected
  BY DEF PanelTypes
<1>3. t \in Refresh => tasks[t] \in RefreshTask /\ tasks[t].expected
  BY DEF PanelTypes, Refreshing, Awake
<1> QED
  BY <1>1, <1>2, <1>3 DEF RefreshTask, StillExpected, BelongsToEntry

LEMMA DropPanelKeeps ==
  ASSUME PanelIInv, NEW t \in Task, DropPanel(t)
  PROVE  PanelIInv'
<1> DEFINE id == tasks[t].message
<1>1. /\ PanelTypes /\ At(t, "drop panel") /\ Refreshing(t) /\ Awake(t)
      /\ sent \in Nat /\ states \in Nat
  BY DEF PanelIInv, DropPanel, At, Refreshing, Awake, PanelTypes
<1>2. PICK outcome \in Outcome :
        /\ Fits(outcome, id)
        /\ chat' = WithoutMessage(id, outcome) /\ excused' = ExcusedBy(t, id, outcome)
        /\ tasks' = [tasks EXCEPT ![t] =
             IF StillExpected(t)
             THEN [tasks[t] EXCEPT !.pc = "send panel", !.session = Delete(@, id, outcome)]
             ELSE Asleep]
  BY DEF DropPanel
<1>3. /\ sent' = sent /\ botSession' = botSession /\ panelState' = panelState /\ states' = states
      /\ updates' = updates /\ (crossed' <=> crossed) /\ (lost' <=> lost)
  BY DEF DropPanel
<1>3a. SessionRecord' = SessionRecord /\ Grows
  BY <1>3 DEF SessionRecord, Grows
<1>4. /\ tasks[t] \in RefreshTask /\ tasks[t].session \in SessionRecord /\ id \in 0 .. sent
      /\ tasks[t].state \in 1 .. states
  BY <1>1, UpdateExpects, TaskKinds
<1> DEFINE session == Delete(tasks[t].session, id, outcome)
<1>5. /\ session \in SessionRecord /\ session.upload = tasks[t].session.upload
      /\ session.prompt = tasks[t].session.prompt
      /\ session.stale = IF outcome.remembered THEN tasks[t].session.stale \cup {id}
                         ELSE tasks[t].session.stale
  <2>1. session \in SessionRecord /\ SessionAfterDelete(session, tasks[t].session, id, outcome)
    BY <1>1, <1>2, <1>4, DeleteFacts, SessionBounds
  <2> HIDE DEF session
  <2> QED
    BY <2>1 DEF SessionAfterDelete
<1> HIDE DEF session
<1> DEFINE Turns ==
      /\ TaskFits(t)' /\ tasks' = [tasks EXCEPT ![t] = tasks'[t]] /\ OthersWait(t)
      /\ tasks'[t] = Asleep \/ \E pc \in {"send panel", "send prompt"} : Proceeds(t, pc)
      /\ WillSend(t) => WillSend(t)'
      /\ SessionNow'.upload = SessionNow.upload /\ SessionNow'.prompt = SessionNow.prompt
      /\ StaleAfter(t, id, outcome) /\ ~(t = Update /\ tasks'[t] = Asleep)
<1>6. ASSUME StillExpected(t) PROVE Turns
  <2>1. tasks' = [tasks EXCEPT ![t] = [tasks[t] EXCEPT !.pc = "send panel", !.session = session,
                                         !.message = id, !.state = tasks[t].state]]
    <3>1. [tasks[t] EXCEPT !.pc = "send panel", !.session = session] =
            [tasks[t] EXCEPT !.pc = "send panel", !.session = session,
                             !.message = id, !.state = tasks[t].state]
      BY <1>4 DEF RefreshTask
    <3> QED
      BY <1>2, <1>6, <3>1 DEF session
  <2>2. Became(t, "send panel", session, tasks[t].state, id)
    <3>1. /\ "send panel" \in RefreshPc \cup PromptPc /\ session \in SessionRecord'
          /\ tasks[t].state \in 1 .. states' /\ id \in 0 .. sent'
      BY <1>3, <1>3a, <1>4, <1>5 DEF RefreshPc
    <3> QED
      BY <1>1, <1>3a, <2>1, <3>1, TaskBecomes
  <2>3. TaskFits(t)'
    BY <1>1, <1>3, <1>4, <2>2, BecameFits DEF RefreshPc
  <2>4. Proceeds(t, "send panel") /\ Awake(t)' /\ WillSend(t)' = WillSend(t)
    BY <1>1, <1>3, <1>5, <2>2
    DEF Became, Proceeds, Awake, At, WillSend, Refreshing, BelongsToEntry
  <2>5. t = Update => SessionNow' = session
    BY <1>1, <1>3, <2>2, <2>4, SessionAfter DEF Became
  <2>6. SessionNow'.upload = SessionNow.upload /\ SessionNow'.prompt = SessionNow.prompt
    BY <1>1, <1>3, <1>5, <2>2, <2>5, SessionAfter DEF Became
  <2>7. StaleAfter(t, id, outcome)
    BY <1>1, <1>2, <1>3, <1>5, <2>2, <2>5, SessionAfter DEF Became, StaleAfter
  <2>8. tasks' = [tasks EXCEPT ![t] = tasks'[t]] /\ OthersWait(t) /\ botSession' = botSession
    BY <1>3, <2>2 DEF Became
  <2>9. ~(tasks'[t] = Asleep)
    BY <2>4, AsleepFits
  <2>10. /\ \E pc \in {"send panel", "send prompt"} : Proceeds(t, pc)
         /\ WillSend(t) => WillSend(t)'
    BY <2>4
  <2> QED
    BY <2>3, <2>6, <2>7, <2>8, <2>9, <2>10
<1>7. ASSUME ~StillExpected(t) PROVE Turns
  <2>0. t # Update /\ (t \in Refresh => ~BelongsToEntry(t))
    BY <1>1, <1>7, UpdateExpects
  <2>1a. tasks' = [tasks EXCEPT ![t] = Asleep]
    BY <1>2, <1>7, Zenon
  <2>1b. t \in Refresh
    <3>1. Task = Refresh \cup {Update}
      BY DEF Task
    <3> QED
      BY <2>0, <3>1
  <2>1. tasks' = [tasks EXCEPT ![t] = Asleep] /\ t \in Refresh /\ t # Update /\ ~BelongsToEntry(t)
    BY <2>0, <2>1a, <2>1b
  <2>2. tasks'[t] = Asleep /\ tasks' = [tasks EXCEPT ![t] = tasks'[t]] /\ OthersWait(t)
    BY <1>1, <2>1 DEF PanelTypes, OthersWait
  <2>3. TaskFits(t)'
    BY <2>2, AsleepFits
  <2>4. SessionNow' = SessionNow
    BY <1>1, <1>3, <2>1, <2>2, SessionAfter
  <2>5. ~WillSend(t)
    BY <2>1 DEF WillSend
  <2> QED
    BY <1>3, <2>1, <2>2, <2>3, <2>4, <2>5 DEF StaleAfter
<1>8. Turns
  BY <1>6, <1>7
<1> HIDE DEF Turns, id
<1>9. Dropped(id)
  BY <1>1, <1>2, <1>3, <1>4, <1>8, DropFacts DEF Turns
<1>10. chat' \subseteq chat
  BY <1>2 DEF WithoutMessage
<1>11. RestFits'
  <2>1. RestFits
    BY <1>1, TypesAreFits
  <2>2. EntryRecord' = EntryRecord /\ ChatMessage' = ChatMessage
    BY <1>3, <1>3a DEF EntryRecord, ChatMessage
  <2>3. crossed' \in BOOLEAN /\ lost' \in BOOLEAN
    BY <1>1 DEF DropPanel, PanelTypes
  <2>4. chat' \subseteq ChatMessage' /\ \A m, n \in chat' : m.id = n.id => m = n
    BY <1>10, <2>1, <2>2 DEF RestFits
  <2> QED
    BY <1>3, <1>3a, <1>9, <2>1, <2>2, <2>3, <2>4 DEF RestFits, Dropped
<1>12. PanelTypes'
  BY <1>1, <1>3a, <1>8, <1>11, TypesKept DEF Turns
<1>13. HasEntry => panelState.panel # id \/ panelState.panel = None
  BY <1>1 DEF PanelIInv, PanelIsSafe, id
<1>14. GivesUp(t, id)
  BY <1>1, <1>3, <1>8, <1>9, <1>13 DEF GivesUp, Turns, At, RefreshPc, id
<1> QED
  BY <1>12, <1>14, GivesUpKeeps

LEMMA PromptState ==
  ASSUME PanelTypes, NEW t \in Task, tasks[t].pc \in PromptPc
  PROVE  Awake(t) /\ tasks[t].state \in 1 .. states /\ ~Refreshing(t) /\ ~WillSend(t)
<1>1. Awake(t) /\ ~Refreshing(t)
  BY DEF Awake, Refreshing, PromptPc
<1>2. states \in Nat
  BY DEF PanelTypes
<1>3. CASE t = Update
  <2>1. tasks[t].state \in 0 .. states
    BY <1>1, TaskKinds
  <2>2. tasks[t].state # 0
    BY <1>3 DEF PanelTypes
  <2> QED
    BY <1>1, <1>2, <2>1, <2>2 DEF WillSend
<1>4. CASE t \in Refresh
  BY <1>1, <1>4 DEF PanelTypes, RefreshTask, WillSend
<1> QED
  BY <1>3, <1>4, UpdateIsTask

\* A handler is done, whether or not its session was written.
LEMMA FinishedTypes ==
  ASSUME PanelTypes, Grows, NEW t \in Task, NEW session \in SessionRecord',
         NEW known \in SUBSET (1 .. sent'), Finished(t, session, known),
         chat' \subseteq ChatMessage', \A m, n \in chat' : m.id = n.id => m = n,
         panelState' \in EntryRecord' \cup {NoState}, crossed' = crossed, updates' \in Nat
  PROVE  /\ PanelTypes' /\ tasks'[t] = Asleep /\ ~Awake(t)' /\ OthersWait(t) /\ TaskFits(t)'
         /\ tasks' = [tasks EXCEPT ![t] = tasks'[t]]
<1>1. tasks' = [tasks EXCEPT ![t] = Asleep]
  BY DEF Finished
<1>2. tasks'[t] = Asleep /\ OthersWait(t) /\ tasks' = [tasks EXCEPT ![t] = tasks'[t]]
  BY <1>1 DEF PanelTypes, OthersWait
<1>3. TaskFits(t)' /\ ~Awake(t)'
  BY <1>2, AsleepFits
<1>4. SessionRecord \subseteq SessionRecord'
  BY GrowingTypes DEF PanelTypes
<1>5. botSession' \in SessionRecord'
  BY <1>4 DEF Finished, Unwritten, PanelTypes
<1>6. excused' \subseteq 1 .. sent'
  <2>1. session.stale \subseteq 1 .. sent'
    BY DEF SessionRecord
  <2>2. \A m \in chat' : m.id \in 1 .. sent'
    BY DEF ChatMessage
  <2>3. CASE excused' = known
    BY <2>3
  <2>4. CASE Unwritten(session, known)
    <3>1. excused' \subseteq known \cup session.stale \cup {m.id : m \in chat'}
      BY <2>4 DEF Unwritten
    <3> QED
      BY <2>1, <2>2, <3>1
  <2> QED
    BY <2>3, <2>4 DEF Finished
<1>7. lost' \in BOOLEAN /\ crossed' \in BOOLEAN
  BY DEF Finished, Unwritten, PanelTypes
<1>8. RestFits'
  BY <1>5, <1>6, <1>7 DEF RestFits
<1> QED
  BY <1>2, <1>3, <1>8, TypesKept

\* An update ends and its session is not written: what is in the chat is
\* excused, known to the entry, or left from before.
PromptPlaced ==
  /\ HasEntry /\ panelState.prompt = None /\ panelState.turn = Update
  /\ panelState'.prompt = sent + 1 /\ panelState'.entry = panelState.entry
  /\ panelState'.panel = panelState.panel /\ panelState'.turn = panelState.turn
  /\ panelState'.timer = panelState.timer
LeftAlone(m) ==
  m \in chat /\ (tasks[Update].pc \in {"drop prompt", "clear prompt"} => m.id # tasks[Update].message)
EndsUnwritten(session, known) ==
  /\ Awake(Update) /\ tasks[Update].pc \notin {"drop panel", "send panel", "clear panel"}
  /\ tasks'[Update] = Asleep /\ OthersWait(Update) /\ Unwritten(session, known)
  /\ crossed' <=> crossed
  /\ SessionNow.upload \in {session.upload, botSession.upload}
  /\ excused \subseteq known /\ SessionNow.stale \subseteq session.stale
  /\ panelState' = panelState \/ PromptPlaced
  /\ \A m \in chat' : \/ m.id \in known \cup session.stale
                      \/ LeftAlone(m)
                      \/ m.kind = "prompt" /\ PromptPlaced /\ m.id = sent + 1
                      \/ m.upload = session.upload /\ m.upload # botSession.upload

LEMMA UnwrittenKeeps ==
  ASSUME PanelIInv, PanelTypes', NEW session, NEW known, EndsUnwritten(session, known)
  PROVE  PanelIInv'
<1>1. /\ PanelTypes /\ Update \in Task /\ Refresh \subseteq Task /\ Update \notin Refresh
      /\ Task = Refresh \cup {Update} /\ sent \in Nat
  BY UpdateIsTask DEF PanelIInv, PanelTypes
<1>2. /\ botSession' = botSession /\ lost' = TRUE
      /\ excused' = known \cup (session.stale \ botSession.stale)
                      \cup {m.id : m \in {n \in chat' : n.upload = session.upload
                                                      /\ n.upload # botSession.upload}}
  BY DEF EndsUnwritten, Unwritten
<1>3. /\ ~Awake(Update)' /\ SessionNow' = botSession /\ ~Clearing' /\ ~Refreshing(Update)'
      /\ tasks'[Update].pc = "asleep"
  <2>1. ~Awake(Update)' /\ ~Refreshing(Update)'
    BY AsleepFits DEF EndsUnwritten
  <2>2. tasks'[Update].pc = "asleep"
    BY <2>1 DEF Awake
  <2> QED
    BY <1>2, <2>1, <2>2 DEF SessionNow, Clearing, ClearPc
<1>4. /\ panelState'.entry = panelState.entry /\ panelState'.panel = panelState.panel
      /\ panelState'.timer = panelState.timer /\ panelState'.turn = panelState.turn
      /\ HasEntry' <=> HasEntry
  BY DEF EndsUnwritten, PromptPlaced, HasEntry
<1>5. ASSUME NEW u \in Task, u # Update
      PROVE  /\ tasks'[u] = tasks[u] /\ (Awake(u)' <=> Awake(u))
             /\ (Refreshing(u)' <=> Refreshing(u)) /\ (BelongsToEntry(u)' <=> BelongsToEntry(u))
  <2>1. tasks'[u] = tasks[u]
    BY <1>5 DEF EndsUnwritten, OthersWait
  <2> QED
    BY <1>4, <2>1 DEF Awake, Refreshing, BelongsToEntry
<1>6. SessionsFit'
  BY <1>2, <1>3 DEF PanelIInv, SessionsFit
<1>7. SessionNow.upload # botSession.upload =>
        /\ HasEntry => panelState.timer = NoUpload
        /\ \A u \in Refresh : Refreshing(u) => ~BelongsToEntry(u)
  BY DEF PanelIInv, UploadBegins
<1>8. EntryFits'
  <2>1. HasEntry' /\ panelState'.timer # NoUpload => panelState'.timer.upload = SessionNow'.upload
    BY <1>3, <1>4, <1>7 DEF PanelIInv, EntryFits
  <2>2. ASSUME NEW u \in Refresh, Awake(u)', BelongsToEntry(u)'
        PROVE  tasks'[u].session.upload = SessionNow'.upload \/ (lost' /\ ~Refreshing(u)')
    <3>1. /\ tasks'[u] = tasks[u] /\ Awake(u) /\ BelongsToEntry(u)
          /\ Refreshing(u)' <=> Refreshing(u)
      BY <1>1, <1>5, <2>2
    <3>2. Refreshing(u) => tasks[u].session.upload = SessionNow.upload
      BY <3>1 DEF PanelIInv, EntryFits
    <3> QED
      BY <1>2, <1>3, <1>7, <3>1, <3>2
  <2>3. ASSUME NEW u \in Task, tasks'[u].pc \in PromptPc, BelongsToEntry(u)', panelState'.turn = u
        PROVE  panelState'.prompt = None
    <3>1. u # Update
      BY <1>3, <2>3 DEF PromptPc
    <3>2. tasks[u].pc \in PromptPc /\ BelongsToEntry(u) /\ panelState.turn = u
      BY <1>4, <1>5, <2>3, <3>1
    <3>3. panelState' = panelState
      BY <3>1, <3>2 DEF EndsUnwritten, PromptPlaced
    <3> QED
      BY <3>2, <3>3 DEF PanelIInv, EntryFits
  <2> QED
    BY <1>3, <2>1, <2>2, <2>3 DEF EntryFits
<1>9. PanelIsSafe'
  <2> SUFFICES ASSUME HasEntry, panelState.panel # None
               PROVE  PanelIsSafe'
    BY <1>4 DEF PanelIsSafe
  <2>1. /\ panelState.panel \notin botSession.stale \cup SessionNow.stale
        /\ panelState.panel \notin {panelState.prompt, panelState.timer.prompt, botSession.prompt}
        /\ \A u \in Task : Awake(u) =>
             panelState.panel \notin {tasks[u].message, tasks[u].session.prompt}
    BY DEF PanelIInv, PanelIsSafe
  <2>2. panelState.panel # panelState'.prompt
    <3>1. panelState.panel \in 0 .. sent
      BY <1>1, EntryKinds DEF EntryRecord
    <3>2. sent + 1 \notin 0 .. sent
      BY <1>1
    <3>3. panelState'.prompt \in {panelState.prompt, sent + 1}
      BY DEF EndsUnwritten, PromptPlaced
    <3> QED
      BY <2>1, <3>1, <3>2, <3>3
  <2>3. \A u \in Task : Awake(u)' =>
          panelState.panel \notin {tasks'[u].message, tasks'[u].session.prompt}
    BY <1>3, <1>5, <2>1
  <2> QED
    BY <1>2, <1>3, <1>4, <2>1, <2>2, <2>3 DEF PanelIsSafe
<1>10. ASSUME NEW m \in chat', Live(m)'
       PROVE  /\ Live(m)
              /\ LeftAlone(m) \/ (m.kind = "prompt" /\ PromptPlaced /\ m.id = sent + 1)
              /\ m.upload = SessionNow.upload => m.upload = botSession.upload
  <2>1. m.id \notin botSession.stale \cup excused'
    BY <1>3, <1>10 DEF Live
  <2>2. m.id \notin known \cup session.stale
    BY <1>2, <2>1
  <2>3. ~(m.upload = session.upload /\ m.upload # botSession.upload)
    BY <1>2, <2>1
  <2>4. Live(m)
    BY <2>2 DEF Live, EndsUnwritten
  <2> QED
    BY <2>2, <2>3, <2>4 DEF EndsUnwritten
<1>11. tasks[Update].pc \notin {"drop panel", "clear panel"}
  BY DEF EndsUnwritten
<1>12. PanelsKnown'
  <2>1. ASSUME NEW m \in chat', m.kind = "panel", Live(m)', ~crossed'
        PROVE  \/ HasEntry' /\ panelState'.panel = m.id /\ m.upload = SessionNow'.upload
               \/ \E u \in Task : tasks'[u].pc = "drop panel" /\ tasks'[u].message = m.id
    <3>1. m \in chat /\ Live(m) /\ ~crossed
      BY <1>10, <2>1 DEF LeftAlone, EndsUnwritten
    <3>2. CASE HasEntry /\ panelState.panel = m.id /\ m.upload = SessionNow.upload
      BY <1>3, <1>4, <1>10, <2>1, <3>2
    <3>3. ASSUME NEW u \in Task, tasks[u].pc = "drop panel", tasks[u].message = m.id
          PROVE  tasks'[u].pc = "drop panel" /\ tasks'[u].message = m.id
      BY <1>5, <1>11, <3>3
    <3> QED
      BY <1>11, <2>1, <3>1, <3>2, <3>3 DEF PanelIInv, PanelsKnown
  <2> QED
    BY <2>1 DEF PanelsKnown
<1>13. PromptsKnown'
  <2>1. ASSUME NEW m \in chat', m.kind = "prompt", Live(m)'
        PROVE  \/ HasEntry' /\ panelState'.prompt = m.id
               \/ \E u \in Task : tasks'[u].pc = "drop prompt" /\ tasks'[u].message = m.id
    <3>1. CASE PromptPlaced /\ m.id = sent + 1
      BY <1>4, <3>1 DEF PromptPlaced
    <3>2. CASE LeftAlone(m)
      <4>1. m \in chat /\ Live(m) /\ m.id # None
        <5>1. m \in chat /\ Live(m)
          BY <1>10, <2>1, <3>2 DEF LeftAlone
        <5> QED
          BY <1>1, <5>1 DEF PanelTypes, ChatMessage, None
      <4>2. CASE HasEntry /\ panelState.prompt = m.id
        <5>1. panelState' = panelState
          BY <4>1, <4>2 DEF EndsUnwritten, PromptPlaced
        <5> QED
          BY <1>4, <4>2, <5>1
      <4>3. ASSUME NEW u \in Task, tasks[u].pc = "drop prompt", tasks[u].message = m.id
            PROVE  tasks'[u].pc = "drop prompt" /\ tasks'[u].message = m.id
        <5>1. u # Update
          BY <3>2, <4>3 DEF LeftAlone
        <5> QED
          BY <1>5, <4>3, <5>1
      <4>4. ~(tasks[Update].pc = "clear prompt" /\ tasks[Update].message = m.id)
        BY <3>2 DEF LeftAlone
      <4> QED
        BY <1>11, <2>1, <4>1, <4>2, <4>3, <4>4 DEF PanelIInv, PromptsKnown
    <3> QED
      BY <1>10, <2>1, <3>1, <3>2
  <2> QED
    BY <1>2, <2>1 DEF PromptsKnown
<1>14. OneRefresh'
  <2>1. \A u \in Task : Refreshing(u)' => Refreshing(u)
    BY <1>3, <1>5
  <2>2. \A u \in Task : WillSend(u)' => WillSend(u)
    BY <1>3, <1>5 DEF WillSend
  <2>3. crossed' <=> crossed
    BY DEF EndsUnwritten
  <2> QED
    BY <1>4, <2>1, <2>2, <2>3 DEF PanelIInv, OneRefresh
<1>15. UploadShown'
  BY <1>2 DEF UploadShown
<1>16. UploadBegins'
  BY <1>2, <1>3 DEF UploadBegins, ClearsTheLast
<1> QED
  BY <1>6, <1>8, <1>9, <1>12, <1>13, <1>14, <1>15, <1>16 DEF PanelIInv

LEMMA DropPromptKeeps ==
  ASSUME PanelIInv, NEW t \in Task, DropPrompt(t)
  PROVE  PanelIInv'
<1> DEFINE id == tasks[t].message
<1>1. /\ PanelTypes /\ At(t, "drop prompt") /\ Awake(t) /\ ~Refreshing(t) /\ ~WillSend(t)
      /\ sent \in Nat /\ states \in Nat /\ tasks[t].state \in 1 .. states
  BY PromptState DEF PanelIInv, DropPrompt, At, PromptPc, PanelTypes
<1>2. PICK outcome \in Outcome :
        LET session == Delete(tasks[t].session, id, outcome)
            known == ExcusedBy(t, id, outcome) IN
        /\ Fits(outcome, id)
        /\ chat' = WithoutMessage(id, outcome)
        /\ IF HasTurn(t)
           THEN /\ tasks' = [tasks EXCEPT ![t].pc = "send prompt", ![t].session = session]
                /\ excused' = known
                /\ UNCHANGED <<botSession, lost>>
           ELSE Finished(t, session, known)
  BY DEF DropPrompt
<1>3. /\ sent' = sent /\ panelState' = panelState /\ states' = states
      /\ updates' = updates /\ crossed' = crossed
  BY DEF DropPrompt
<1>3a. SessionRecord' = SessionRecord /\ Grows
  BY <1>3 DEF SessionRecord, Grows
<1>4. tasks[t].session \in SessionRecord /\ id \in 0 .. sent
  BY <1>1, TaskKinds
<1> DEFINE session == Delete(tasks[t].session, id, outcome)
           known == ExcusedBy(t, id, outcome)
<1>5. /\ session \in SessionRecord /\ session.upload = tasks[t].session.upload
      /\ session.prompt = tasks[t].session.prompt
      /\ session.stale = IF outcome.remembered THEN tasks[t].session.stale \cup {id}
                         ELSE tasks[t].session.stale
  <2>1. session \in SessionRecord /\ SessionAfterDelete(session, tasks[t].session, id, outcome)
    BY <1>1, <1>2, <1>4, DeleteFacts, SessionBounds
  <2> HIDE DEF session
  <2> QED
    BY <2>1 DEF SessionAfterDelete
<1>6. /\ Fits(outcome, id) /\ chat' = WithoutMessage(id, outcome)
      /\ HasTurn(t) => /\ tasks' = [tasks EXCEPT ![t].pc = "send prompt", ![t].session = session]
                       /\ botSession' = botSession /\ excused' = known /\ lost' = lost
      /\ ~HasTurn(t) => Finished(t, session, known)
  BY <1>2
<1>6a. /\ excused \subseteq known /\ known \subseteq 1 .. sent
       /\ outcome.stays => id \in known \/ (t = Update /\ outcome.remembered)
  <2>1. excused \subseteq 1 .. sent /\ Fits(outcome, id)
    BY <1>1, <1>6 DEF PanelTypes
  <2> HIDE DEF id
  <2> QED
    BY <1>1, <1>4, <2>1, ExcusedFacts
<1>6b. /\ chat' \subseteq chat /\ ChatMessage' = ChatMessage /\ EntryRecord' = EntryRecord
       /\ chat' \subseteq ChatMessage' /\ \A m, n \in chat' : m.id = n.id => m = n
       /\ panelState' \in EntryRecord' \cup {NoState} /\ updates' \in Nat
  <2>1. chat' \subseteq chat
    BY <1>6 DEF WithoutMessage
  <2>2. ChatMessage' = ChatMessage /\ EntryRecord' = EntryRecord
    BY <1>3, <1>3a DEF EntryRecord, ChatMessage
  <2> QED
    BY <1>1, <1>3, <2>1, <2>2 DEF PanelTypes
<1> HIDE DEF session, known
<1>u. ASSUME ~HasTurn(t), t = Update, Unwritten(session, known) PROVE PanelIInv'
  <2>1. PanelTypes' /\ tasks'[t] = Asleep /\ OthersWait(t)
    BY <1>1, <1>3, <1>3a, <1>5, <1>6, <1>6a, <1>6b, <1>u, FinishedTypes
  <2>2. SessionNow = tasks[t].session
    BY <1>1, <1>u DEF SessionNow
  <2>3. ASSUME NEW m \in chat'
        PROVE  m.id \in known \cup session.stale \/ LeftAlone(m)
    <3>1. CASE m.id = id
      BY <1>5, <1>6, <1>6a, <2>3, <3>1 DEF WithoutMessage
    <3>2. CASE m.id # id
      BY <1>6b, <1>u, <2>3, <3>2 DEF LeftAlone, id
    <3> QED
      BY <3>1, <3>2
  <2>4. EndsUnwritten(session, known)
    BY <1>1, <1>3, <1>5, <1>6a, <1>u, <2>1, <2>2, <2>3 DEF EndsUnwritten, At
  <2> QED
    BY <2>1, <2>4, UnwrittenKeeps
<1> SUFFICES ASSUME /\ HasTurn(t) \/ tasks' = [tasks EXCEPT ![t] = Asleep]
                    /\ ~HasTurn(t) => botSession' = IF t = Update THEN session ELSE botSession
                    /\ excused' = known /\ lost' = lost
             PROVE  PanelIInv'
  BY <1>6, <1>u DEF Finished
<1> DEFINE Turns ==
      /\ TaskFits(t)' /\ tasks' = [tasks EXCEPT ![t] = tasks'[t]] /\ OthersWait(t)
      /\ tasks'[t] = Asleep \/ \E pc \in {"send panel", "send prompt"} : Proceeds(t, pc)
      /\ botSession' = IF t = Update /\ tasks'[t] = Asleep THEN SessionNow' ELSE botSession
      /\ SessionNow'.upload = SessionNow.upload /\ SessionNow'.prompt = SessionNow.prompt
      /\ StaleAfter(t, id, outcome) /\ SessionNow' \in SessionRecord
<1>7. ASSUME HasTurn(t) PROVE Turns
  <2>1. tasks' = [tasks EXCEPT ![t] = [tasks[t] EXCEPT !.pc = "send prompt", !.session = session,
                                         !.message = id, !.state = tasks[t].state]]
    <3>1. tasks[t] \in RefreshTask \/ tasks[t] \in ClearTask
      BY <1>1, TaskKinds
    <3>2. ASSUME tasks[t] \in RefreshTask
          PROVE  [tasks[t] EXCEPT !.pc = "send prompt", !.session = session] =
                   [tasks[t] EXCEPT !.pc = "send prompt", !.session = session,
                                    !.message = id, !.state = tasks[t].state]
      BY <3>2 DEF RefreshTask
    <3>3. ASSUME tasks[t] \in ClearTask
          PROVE  [tasks[t] EXCEPT !.pc = "send prompt", !.session = session] =
                   [tasks[t] EXCEPT !.pc = "send prompt", !.session = session,
                                    !.message = id, !.state = tasks[t].state]
      BY <3>3 DEF ClearTask
    <3>4. tasks' = [tasks EXCEPT ![t] = [tasks[t] EXCEPT !.pc = "send prompt", !.session = session]]
      BY <1>6, <1>7
    <3> QED
      BY <3>1, <3>2, <3>3, <3>4
  <2>2. Became(t, "send prompt", session, tasks[t].state, id)
    <3>1. /\ "send prompt" \in RefreshPc \cup PromptPc /\ session \in SessionRecord'
          /\ tasks[t].state \in 1 .. states' /\ id \in 0 .. sent' /\ "send prompt" \notin RefreshPc
      BY <1>1, <1>3, <1>3a, <1>4, <1>5 DEF RefreshPc, PromptPc
    <3> QED
      BY <1>1, <1>3a, <2>1, <3>1, TaskBecomes
  <2>3. TaskFits(t)'
    BY <1>1, <1>3, <1>4, <2>2, BecameFits DEF RefreshPc, PromptPc
  <2>4. Proceeds(t, "send prompt") /\ Awake(t)'
    BY <1>1, <1>3, <1>5, <2>2 DEF Became, Proceeds, Awake
  <2>5. botSession' = botSession /\ (t = Update => SessionNow' = session)
    BY <1>1, <1>6, <1>7, <2>2, <2>4, SessionAfter DEF Became
  <2>6. SessionNow'.upload = SessionNow.upload /\ SessionNow'.prompt = SessionNow.prompt
    BY <1>1, <1>5, <2>2, <2>5, SessionAfter DEF Became
  <2>7. StaleAfter(t, id, outcome)
    BY <1>1, <1>5, <1>6, <2>2, <2>5, SessionAfter DEF Became, StaleAfter
  <2>8. tasks' = [tasks EXCEPT ![t] = tasks'[t]] /\ OthersWait(t)
    BY <2>2 DEF Became
  <2>9. ~(tasks'[t] = Asleep)
    BY <2>4, AsleepFits
  <2>10. SessionNow' \in SessionRecord
    BY <1>1, <1>5, <2>2, <2>5, SessionAfter, UpdateIsTask DEF Became
  <2> QED
    BY <2>3, <2>4, <2>5, <2>6, <2>7, <2>8, <2>9, <2>10
<1>8. ASSUME ~HasTurn(t) PROVE Turns
  <2>1. tasks' = [tasks EXCEPT ![t] = Asleep]
          /\ botSession' = IF t = Update THEN session ELSE botSession
    BY <1>8
  <2>2. tasks'[t] = Asleep /\ tasks' = [tasks EXCEPT ![t] = tasks'[t]] /\ OthersWait(t)
    BY <1>1, <2>1 DEF PanelTypes, OthersWait
  <2>3. TaskFits(t)' /\ ~Awake(t)'
    BY <2>2, AsleepFits
  <2>4. SessionNow' = IF t = Update THEN session ELSE SessionNow
    BY <1>1, <2>1, <2>2, <2>3, SessionAfter
  <2>5. t = Update => SessionNow = tasks[t].session
    BY <1>1, <2>1, <2>2, SessionAfter
  <2>6. SessionNow'.upload = SessionNow.upload /\ SessionNow'.prompt = SessionNow.prompt
    BY <1>5, <2>4, <2>5
  <2>7. StaleAfter(t, id, outcome)
    BY <1>5, <1>6, <2>4, <2>5 DEF StaleAfter
  <2>8. SessionNow' \in SessionRecord
    BY <1>1, <1>5, <2>4, UpdateIsTask
  <2> QED
    BY <2>1, <2>2, <2>3, <2>4, <2>6, <2>7, <2>8
<1>9. Turns
  BY <1>7, <1>8
<1> HIDE DEF Turns, id
<1>10. Dropped(id)
  BY <1>1, <1>3, <1>4, <1>6, <1>9, DropFacts DEF Turns, known
<1>12. RestFits'
  <2>1. RestFits
    BY <1>1, TypesAreFits
  <2>2. botSession' \in SessionRecord'
    BY <1>3a, <1>9, <2>1 DEF RestFits, Turns
  <2> QED
    BY <1>3, <1>6b, <1>10, <2>1, <2>2 DEF RestFits, Dropped
<1>13. PanelTypes'
  BY <1>1, <1>3a, <1>9, <1>12, TypesKept DEF Turns
<1>14. HasEntry => panelState.panel # id \/ panelState.panel = None
  BY <1>1 DEF PanelIInv, PanelIsSafe, id
<1>15. GivesUp(t, id)
  BY <1>1, <1>3, <1>9, <1>10, <1>14 DEF GivesUp, Turns, At, PromptPc, id
<1> QED
  BY <1>13, <1>15, GivesUpKeeps

\* A new message that nobody needs is as good as one that is dropped.
LEMMA UnneededMessage ==
  ASSUME PanelTypes, sent' = sent + 1, NEW m, m.id = sent + 1,
         chat' \in {chat, chat \cup {m}}, excused \subseteq excused', excused' \subseteq 1 .. sent',
         chat' # chat => sent + 1 \in excused' \cup SessionNow'.stale,
         SessionNow.stale \subseteq SessionNow'.stale,
         SessionNow'.stale \subseteq SessionNow.stale \cup {sent + 1}
  PROVE  Dropped(sent + 1)
<1>1. \A n \in chat : n.id \in 1 .. sent
  BY DEF PanelTypes, ChatMessage
<1>2. sent \in Nat
  BY DEF PanelTypes
<1>3. ASSUME NEW n \in chat', Live(n)'
      PROVE  n \in chat /\ Live(n) /\ n.id # sent + 1
  <2>1. n.id \notin SessionNow'.stale \cup excused'
    BY <1>3 DEF Live
  <2>2. n \in chat
    <3>1. CASE chat' = chat
      BY <3>1
    <3>2. CASE chat' # chat
      BY <2>1, <3>2
    <3> QED
      BY <3>1, <3>2
  <2>3. n.id \notin SessionNow.stale \cup excused
    BY <2>1
  <2> QED
    BY <1>1, <1>2, <2>2, <2>3 DEF Live
<1>4. \A n \in chat : n \in chat'
  OBVIOUS
<1> QED
  BY <1>3, <1>4 DEF Dropped

LEMMA SendPromptTypes ==
  ASSUME PanelTypes, NEW t \in Task, SendPrompt(t) \/ SendPromptFails(t)
  PROVE  /\ At(t, "send prompt") /\ Awake(t) /\ ~Refreshing(t) /\ ~WillSend(t)
         /\ sent \in Nat /\ sent' = sent + 1 /\ states' = states /\ Grows
         /\ tasks[t].state \in 1 .. states
         /\ tasks[t].session \in SessionRecord' /\ tasks[t].session \in SessionRecord
         /\ tasks' = [tasks EXCEPT ![t] = Asleep] /\ tasks'[t] = Asleep /\ OthersWait(t)
         /\ tasks' = [tasks EXCEPT ![t] = tasks'[t]] /\ TaskFits(t)' /\ ~Awake(t)'
         /\ updates' = updates /\ crossed' = crossed
<1>1. /\ tasks[t].pc = "send prompt" /\ sent' = sent + 1 /\ states' = states
      /\ updates' = updates /\ crossed' = crossed
  BY DEF SendPrompt, SendPromptFails, At
<1>2. /\ Awake(t) /\ ~Refreshing(t) /\ ~WillSend(t) /\ tasks[t].state \in 1 .. states
      /\ tasks[t].session \in SessionRecord
  BY <1>1, PromptState, TaskKinds DEF PromptPc
<1>3. sent \in Nat /\ states \in Nat /\ Grows
  BY <1>1 DEF PanelTypes, Grows
<1>4. tasks[t].session \in SessionRecord'
  BY <1>2, <1>3, GrowingTypes
<1>5. tasks' = [tasks EXCEPT ![t] = Asleep]
  BY DEF SendPrompt, SendPromptFails, Finished
<1>6. tasks'[t] = Asleep /\ OthersWait(t) /\ tasks' = [tasks EXCEPT ![t] = tasks'[t]]
  BY <1>5 DEF PanelTypes, OthersWait
<1>7. TaskFits(t)' /\ ~Awake(t)'
  BY <1>6, AsleepFits
<1> QED
  BY <1>1, <1>2, <1>3, <1>4, <1>5, <1>6, <1>7 DEF At

\* The handler ends after its prompt, which nobody needs: it was not sent, or it
\* was taken back.
LEMMA PromptEnds ==
  ASSUME PanelIInv, NEW t \in Task, SendPrompt(t) \/ SendPromptFails(t), panelState' = panelState,
         NEW session \in SessionRecord', NEW known \in SUBSET (1 .. sent'),
         Finished(t, session, known), excused \subseteq known,
         session.upload = tasks[t].session.upload, session.prompt = tasks[t].session.prompt,
         tasks[t].session.stale \subseteq session.stale,
         session.stale \subseteq tasks[t].session.stale \cup {sent + 1},
         chat' \in {chat, chat \cup {Message("prompt", tasks[t].session.upload)}},
         chat' # chat => sent + 1 \in known \/ (t = Update /\ sent + 1 \in session.stale)
  PROVE  PanelIInv'
<1> DEFINE message == Message("prompt", tasks[t].session.upload)
<1>1. PanelTypes /\ Update \in Task
  BY UpdateIsTask DEF PanelIInv
<1>2. /\ At(t, "send prompt") /\ Awake(t) /\ ~Refreshing(t) /\ ~WillSend(t)
      /\ sent \in Nat /\ sent' = sent + 1 /\ states' = states /\ Grows
      /\ tasks[t].session \in SessionRecord
      /\ updates' = updates /\ crossed' = crossed /\ updates' \in Nat
  BY <1>1, SendPromptTypes DEF PanelTypes
<1>3. message.id = sent + 1 /\ sent + 1 \in 1 .. sent' /\ message \in ChatMessage'
  <2> DEFINE upload == tasks[t].session.upload
  <2>1. upload \in Nat
    BY <1>2 DEF SessionRecord
  <2>2. message = [id |-> sent + 1, kind |-> "prompt", upload |-> upload]
    BY DEF Message
  <2>3. sent + 1 \in 1 .. sent'
    <3>1. sent \in Nat /\ sent' = sent + 1
      BY <1>2
    <3> QED
      BY <3>1
  <2> HIDE DEF message, upload
  <2> QED
    BY <2>1, <2>2, <2>3 DEF ChatMessage
<1>3a. chat' \in {chat, chat \cup {message}}
  OBVIOUS
<1> HIDE DEF message
<1>4. /\ chat' \subseteq ChatMessage' /\ \A m, n \in chat' : m.id = n.id => m = n
      /\ panelState' \in EntryRecord' \cup {NoState}
  <2>1. ChatMessage \subseteq ChatMessage' /\ EntryRecord \subseteq EntryRecord'
    BY <1>1, <1>2, GrowingTypes DEF PanelTypes
  <2>2. ASSUME NEW m \in chat PROVE m.id # message.id
    <3>1. m.id \in 1 .. sent
      BY <1>1 DEF PanelTypes, ChatMessage
    <3>2. sent \in Nat /\ message.id = sent + 1
      BY <1>2, <1>3
    <3> QED
      BY <3>1, <3>2
  <2> QED
    BY <1>1, <1>3, <1>3a, <2>1, <2>2 DEF PanelTypes
<1>5. PanelTypes' /\ tasks'[t] = Asleep /\ ~Awake(t)' /\ OthersWait(t)
  BY <1>1, <1>2, <1>4, FinishedTypes
<1>6. t = Update => SessionNow = tasks[t].session
  BY <1>2 DEF SessionNow
<1>7. CASE t = Update /\ Unwritten(session, known)
  <2>1. ASSUME NEW m \in chat'
        PROVE  m.id \in known \cup session.stale \/ LeftAlone(m)
    <3>1. CASE m \in chat
      BY <1>2, <1>7, <3>1 DEF LeftAlone, At
    <3>2. CASE m \notin chat
      BY <1>3, <1>3a, <2>1, <3>2
    <3> QED
      BY <3>1, <3>2
  <2>2. EndsUnwritten(session, known)
    BY <1>2, <1>5, <1>6, <1>7, <2>1 DEF EndsUnwritten, At
  <2> QED
    BY <1>5, <2>2, UnwrittenKeeps
<1>8. CASE /\ botSession' = IF t = Update THEN session ELSE botSession
           /\ excused' = known /\ lost' = lost
  <2>1. SessionNow' = IF t = Update THEN session ELSE SessionNow
    BY <1>1, <1>5, <1>8, SessionAfter
  <2>2. SessionNow'.upload = SessionNow.upload /\ SessionNow'.prompt = SessionNow.prompt
    BY <1>6, <2>1
  <2>3. /\ SessionNow.stale \subseteq SessionNow'.stale
        /\ SessionNow'.stale \subseteq SessionNow.stale \cup {sent + 1}
    BY <1>6, <2>1
  <2>4. chat' # chat => sent + 1 \in excused' \cup SessionNow'.stale
    BY <1>8, <2>1
  <2>5. Dropped(sent + 1)
    BY <1>1, <1>2, <1>3, <1>3a, <1>8, <2>3, <2>4, UnneededMessage
  <2>6. HasEntry => panelState.panel # sent + 1
    <3>1. HasEntry => panelState.panel \in 0 .. sent
      BY <1>1, EntryKinds DEF EntryRecord
    <3>2. sent \in Nat
      BY <1>2
    <3>3. sent + 1 \notin 0 .. sent
      BY <3>2
    <3> QED
      BY <3>1, <3>3
  <2>7. botSession' = IF t = Update /\ tasks'[t] = Asleep THEN SessionNow' ELSE botSession
    BY <1>5, <1>8, <2>1
  <2>8. tasks[t].pc = "send prompt"
    BY <1>2 DEF At
  <2>9. GivesUp(t, sent + 1)
    BY <1>2, <1>5, <1>8, <2>2, <2>5, <2>6, <2>7, <2>8 DEF GivesUp, PromptPc
  <2> QED
    BY <1>5, <2>9, GivesUpKeeps
<1> QED
  BY <1>7, <1>8 DEF Finished

\* The turn is over: the prompt is taken back.
LEMMA SendPromptLate ==
  ASSUME PanelIInv, NEW t \in Task, SendPrompt(t), ~HasTurn(t)
  PROVE  PanelIInv'
<1> DEFINE message == Message("prompt", tasks[t].session.upload)
<1>1. PanelTypes
  BY DEF PanelIInv
<1>2. PICK outcome \in Outcome :
        /\ chat' = WithMessage(message, outcome)
        /\ Finished(t, Delete(tasks[t].session, message.id, outcome),
                       ExcusedBy(t, message.id, outcome))
        /\ UNCHANGED panelState
  BY DEF SendPrompt
<1>3. /\ sent \in Nat /\ sent' = sent + 1 /\ sent' \in Nat
      /\ tasks[t].session \in SessionRecord'
  <2>1. sent \in Nat /\ sent' = sent + 1 /\ tasks[t].session \in SessionRecord'
    BY <1>1, SendPromptTypes
  <2> QED
    BY <2>1
<1>4. /\ message.id = sent + 1 /\ sent + 1 \in 0 .. sent' /\ Fits(outcome, sent + 1)
      /\ excused \subseteq 1 .. sent'
  BY <1>1, <1>3 DEF Message, None, Fits, PanelTypes
<1> DEFINE session == Delete(tasks[t].session, sent + 1, outcome)
           known == ExcusedBy(t, sent + 1, outcome)
<1>5. session \in SessionRecord' /\ SessionAfterDelete(session, tasks[t].session, sent + 1, outcome)
  BY <1>3, <1>4, DeleteFacts, SessionBounds
<1>6. /\ excused \subseteq known /\ known \subseteq 1 .. sent'
      /\ outcome.stays => sent + 1 \in known \/ (t = Update /\ outcome.remembered)
  BY <1>3, <1>4, ExcusedFacts
<1>7. Finished(t, session, known) /\ chat' = WithMessage(message, outcome)
  BY <1>2, <1>4
<1> HIDE DEF session, known
<1>8. /\ session.upload = tasks[t].session.upload /\ session.prompt = tasks[t].session.prompt
      /\ session.stale = IF outcome.remembered THEN tasks[t].session.stale \cup {sent + 1}
                         ELSE tasks[t].session.stale
  BY <1>5 DEF SessionAfterDelete
<1>9. /\ chat' \in {chat, chat \cup {Message("prompt", tasks[t].session.upload)}}
      /\ chat' # chat => outcome.stays
  BY <1>7 DEF WithMessage
<1> HIDE DEF message
<1> QED
  BY <1>2, <1>5, <1>6, <1>7, <1>8, <1>9, PromptEnds

\* The prompt could not be sent, or nobody knows whether it was.
LEMMA SendPromptFailsKeeps ==
  ASSUME PanelIInv, NEW t \in Task, SendPromptFails(t)
  PROVE  PanelIInv'
<1> DEFINE message == Message("prompt", tasks[t].session.upload)
           session == tasks[t].session
<1>1. PanelTypes /\ panelState' = panelState
  BY DEF PanelIInv, SendPromptFails
<1>2. sent \in Nat /\ sent' = sent + 1 /\ session \in SessionRecord'
  BY <1>1, SendPromptTypes
<1>3. message.id = sent + 1 /\ sent + 1 \in 1 .. sent' /\ excused \subseteq 1 .. sent'
  BY <1>1, <1>2 DEF Message, PanelTypes
<1>4. \/ chat' = chat /\ Finished(t, session, excused)
      \/ chat' = chat \cup {message} /\ Finished(t, session, excused \cup {sent + 1})
  BY <1>3 DEF SendPromptFails
<1>5. PICK known \in {excused, excused \cup {sent + 1}} :
        /\ Finished(t, session, known) /\ chat' \in {chat, chat \cup {message}}
        /\ chat' # chat => sent + 1 \in known
  BY <1>4
<1> QED
  BY <1>1, <1>2, <1>3, <1>5, PromptEnds

LEMMA SendPanelTypes ==
  ASSUME PanelTypes, NEW t \in Task, SendPanel(t) \/ SendPanelFails(t)
  PROVE  /\ At(t, "send panel") /\ Awake(t) /\ Refreshing(t)
         /\ sent \in Nat /\ states \in Nat /\ sent' = sent + 1
         /\ tasks[t] \in RefreshTask /\ tasks[t].state \in 1 .. states
         /\ tasks[t].session \in SessionRecord
         /\ updates' = updates /\ crossed' = crossed /\ botSession' = botSession
<1>1. /\ tasks[t].pc = "send panel" /\ sent' = sent + 1
      /\ updates' = updates /\ crossed' = crossed /\ botSession' = botSession
  BY DEF SendPanel, SendPanelFails, At
<1>2. Awake(t) /\ Refreshing(t) /\ sent \in Nat /\ states \in Nat
  BY <1>1 DEF Awake, Refreshing, PanelTypes
<1> QED
  BY <1>1, <1>2, UpdateExpects, TaskKinds DEF At

\* The upload was cleared meanwhile: the panel is taken back.
LEMMA SendPanelLate ==
  ASSUME PanelIInv, NEW t \in Task, SendPanel(t), ~StillExpected(t)
  PROVE  PanelIInv'
<1> DEFINE message == Message("panel", tasks[t].session.upload)
<1>1. PanelTypes
  BY DEF PanelIInv
<1>2. PICK outcome \in Outcome :
        /\ chat' = WithMessage(message, outcome)
        /\ excused' = ExcusedBy(t, message.id, outcome)
  BY DEF SendPanel
<1>3. /\ tasks' = [tasks EXCEPT ![t] = Asleep] /\ panelState' = panelState /\ states' = states
      /\ lost' = lost
  BY DEF SendPanel
<1>4. /\ sent \in Nat /\ states \in Nat /\ sent' = sent + 1
      /\ tasks[t].session \in SessionRecord
  BY <1>1, SendPanelTypes
<1>4a. /\ At(t, "send panel") /\ Awake(t) /\ Refreshing(t)
       /\ updates' = updates /\ botSession' = botSession
       /\ (crossed' <=> crossed) /\ (lost' <=> lost)
  BY <1>1, <1>3, SendPanelTypes
<1>4b. crossed' \in BOOLEAN /\ lost' \in BOOLEAN
  BY <1>1, <1>3, SendPanelTypes DEF PanelTypes
<1>4c. updates' \in Nat
  BY <1>1, <1>4a DEF PanelTypes
<1>5. Grows
  BY <1>3, <1>4 DEF Grows
<1>6. tasks'[t] = Asleep /\ OthersWait(t) /\ tasks' = [tasks EXCEPT ![t] = tasks'[t]]
  BY <1>1, <1>3 DEF PanelTypes, OthersWait
<1>7. TaskFits(t)' /\ ~Awake(t)'
  BY <1>6, AsleepFits
<1>8. t # Update /\ ~WillSend(t)
  <2>1. t # Update /\ (t \in Refresh => ~BelongsToEntry(t))
    BY <1>1, <1>4a, UpdateExpects
  <2>2. Task = Refresh \cup {Update}
    BY DEF Task
  <2> QED
    BY <2>1, <2>2 DEF WillSend
<1>9. SessionNow' = SessionNow
  BY <1>1, <1>4a, <1>6, <1>8, SessionAfter
<1>10. /\ message.id = sent + 1 /\ sent + 1 \in 1 .. sent'
       /\ message.upload = tasks[t].session.upload /\ message.kind = "panel"
       /\ message = [id |-> message.id, kind |-> message.kind, upload |-> message.upload]
  BY <1>4 DEF Message
<1>11. /\ excused' = IF outcome.stays THEN excused \cup {sent + 1} ELSE excused
       /\ chat' = IF outcome.stays THEN chat \cup {message} ELSE chat
       /\ excused \subseteq 1 .. sent
  BY <1>1, <1>2, <1>8, <1>10 DEF PanelTypes, ExcusedBy, WithMessage
<1>12. message \in ChatMessage'
  BY <1>4, <1>10 DEF ChatMessage, SessionRecord
<1> HIDE DEF message
<1>13. Dropped(sent + 1)
  <2>1. excused \subseteq excused' /\ excused' \subseteq 1 .. sent'
    BY <1>4, <1>11
  <2>2. chat' # chat => sent + 1 \in excused' \cup SessionNow'.stale
    BY <1>11
  <2>3. /\ SessionNow.stale \subseteq SessionNow'.stale
        /\ SessionNow'.stale \subseteq SessionNow.stale \cup {sent + 1}
    BY <1>9
  <2>4. chat' \in {chat, chat \cup {message}}
    BY <1>11
  <2> QED
    BY <1>1, <1>4, <1>10, <1>11, <2>1, <2>2, <2>3, <2>4, UnneededMessage
<1>14. RestFits'
  <2>1. RestFits
    BY <1>1, TypesAreFits
  <2>2. ChatMessage \subseteq ChatMessage' /\ EntryRecord \subseteq EntryRecord'
        /\ SessionRecord \subseteq SessionRecord'
    BY <1>4, <1>5, GrowingTypes
  <2>3. \A m \in chat : m.id # message.id
    BY <1>1, <1>4, <1>10 DEF ChatMessage, PanelTypes
  <2>4. chat' \subseteq ChatMessage' /\ \A m, n \in chat' : m.id = n.id => m = n
    BY <1>11, <1>12, <2>1, <2>2, <2>3 DEF RestFits
  <2> QED
    BY <1>3, <1>4a, <1>4b, <1>4c, <1>13, <2>1, <2>2, <2>4 DEF RestFits, Dropped
<1>15. PanelTypes'
  BY <1>1, <1>5, <1>6, <1>7, <1>14, TypesKept
<1>16. HasEntry => panelState.panel # sent + 1
  <2>1. HasEntry => panelState.panel \in 0 .. sent
    BY <1>1, EntryKinds DEF EntryRecord
  <2> QED
    BY <1>4, <2>1
<1>17. GivesUp(t, sent + 1)
  BY <1>3, <1>4a, <1>6, <1>8, <1>9, <1>13, <1>16 DEF GivesUp, At, RefreshPc
<1> QED
  BY <1>15, <1>17, GivesUpKeeps

\* The prompt of the turn is remembered.
LEMMA SendPromptInTurn ==
  ASSUME PanelIInv, NEW t \in Task, SendPrompt(t), HasTurn(t)
  PROVE  PanelIInv'
<1> DEFINE message == Message("prompt", tasks[t].session.upload)
           session == [tasks[t].session EXCEPT !.prompt = message.id]
<1>1. PanelTypes /\ Update \in Task /\ Refresh \subseteq Task
  BY UpdateIsTask DEF PanelIInv
<1>2. /\ chat' = chat \cup {message}
      /\ panelState' = [panelState EXCEPT !.prompt = message.id]
      /\ Finished(t, session, excused)
  BY DEF SendPrompt
<1>3. /\ sent \in Nat /\ states \in Nat /\ sent' = sent + 1 /\ states' = states
      /\ tasks[t].session \in SessionRecord' /\ tasks[t].session \in SessionRecord
      /\ tasks[t].state \in 1 .. states
  BY <1>1, SendPromptTypes DEF PanelTypes
<1>3b. /\ tasks'[t] = Asleep /\ OthersWait(t) /\ ~Awake(t)' /\ ~WillSend(t) /\ ~Refreshing(t)
       /\ Awake(t) /\ updates' = updates /\ tasks[t].pc = "send prompt" /\ Grows
  BY <1>1, SendPromptTypes DEF At
<1>3a. crossed' = crossed
  BY <1>1, SendPromptTypes
<1>4. /\ message.id = sent + 1 /\ sent + 1 \in 1 .. sent' /\ sent + 1 # None
      /\ message.kind = "prompt" /\ message.upload = tasks[t].session.upload
      /\ message = [id |-> message.id, kind |-> message.kind, upload |-> message.upload]
  BY <1>3 DEF Message, None
<1>4a. message \in ChatMessage'
  BY <1>3, <1>4 DEF ChatMessage, SessionRecord
<1>6. /\ session \in SessionRecord' /\ session.upload = tasks[t].session.upload
      /\ session.stale = tasks[t].session.stale /\ session.prompt = sent + 1
      /\ session.panel = tasks[t].session.panel
  <2>1. sent + 1 \in 0 .. sent'
    BY <1>3
  <2> DEFINE after == [tasks[t].session EXCEPT !.prompt = sent + 1]
  <2>2. /\ after \in SessionRecord' /\ after.upload = tasks[t].session.upload
        /\ after.stale = tasks[t].session.stale /\ after.prompt = sent + 1
        /\ after.panel = tasks[t].session.panel
    BY <1>3, <2>1 DEF SessionRecord
  <2>3. session = after
    BY <1>4
  <2> HIDE DEF after, session
  <2> QED
    BY <2>2, <2>3
<1>7a. panelState.entry = tasks[t].state /\ panelState.turn = t /\ tasks[t].state # 0
  BY <1>3 DEF HasTurn
<1>7. /\ HasEntry /\ BelongsToEntry(t) /\ panelState \in EntryRecord /\ panelState.turn = t
  BY <1>1, <1>7a, EntryKinds DEF BelongsToEntry, HasEntry
<1>8. panelState \in EntryRecord'
  BY <1>3, <1>3b, <1>7, GrowingTypes
<1>9. /\ panelState' \in EntryRecord' /\ panelState'.prompt = sent + 1 /\ HasEntry'
      /\ panelState'.panel = panelState.panel /\ panelState'.entry = panelState.entry
      /\ panelState'.turn = panelState.turn /\ panelState'.timer = panelState.timer
  <2> DEFINE entry == [panelState EXCEPT !.prompt = sent + 1]
  <2>1. sent + 1 \in 0 .. sent'
    BY <1>3
  <2>2. /\ entry \in EntryRecord' /\ entry.prompt = sent + 1
        /\ entry.panel = panelState.panel /\ entry.entry = panelState.entry
        /\ entry.turn = panelState.turn /\ entry.timer = panelState.timer
    BY <1>8, <2>1 DEF EntryRecord
  <2>3. panelState' = entry
    BY <1>2, <1>4
  <2> HIDE DEF entry
  <2> QED
    BY <1>7, <2>2, <2>3 DEF HasEntry
<1>10. chat' = chat \cup {message} /\ Finished(t, session, excused)
  BY <1>2
<1> HIDE DEF session, message
<1>14. PanelTypes'
  <2>1. RestFits
    BY <1>1, TypesAreFits
  <2>2. ChatMessage \subseteq ChatMessage'
    BY <1>3, <1>3b, GrowingTypes
  <2>3. ASSUME NEW m \in chat PROVE m.id # message.id
    <3>1. m.id \in 1 .. sent
      BY <2>1 DEF RestFits, ChatMessage
    <3> QED
      BY <1>3, <1>4, <3>1
  <2>4. chat' \subseteq ChatMessage' /\ \A m, n \in chat' : m.id = n.id => m = n
    BY <1>4a, <1>10, <2>1, <2>2, <2>3 DEF RestFits
  <2>5. excused \subseteq 1 .. sent' /\ updates' \in Nat
    <3>1. 1 .. sent \subseteq 1 .. sent'
      BY <1>3, <1>3b, GrowingTypes
    <3> QED
      BY <1>3b, <2>1, <3>1 DEF RestFits
  <2> QED
    BY <1>1, <1>3a, <1>3b, <1>6, <1>9, <1>10, <2>4, <2>5, FinishedTypes
<1>12. t = Update => SessionNow = tasks[t].session
  BY <1>1, <1>3b, SessionAfter
<1>u. ASSUME t = Update, Unwritten(session, excused) PROVE PanelIInv'
  <2>1. panelState.prompt = None
    BY <1>3b, <1>7 DEF PanelIInv, EntryFits, PromptPc
  <2>2. PromptPlaced
    BY <1>7, <1>9, <1>u, <2>1 DEF PromptPlaced
  <2>3. ASSUME NEW m \in chat'
        PROVE  LeftAlone(m) \/ (m.kind = "prompt" /\ m.id = sent + 1)
    BY <1>3b, <1>4, <1>10, <1>u, <2>3 DEF LeftAlone
  <2>4. EndsUnwritten(session, excused)
    BY <1>3a, <1>3b, <1>6, <1>12, <1>u, <2>2, <2>3 DEF EndsUnwritten
  <2> QED
    BY <1>14, <2>4, UnwrittenKeeps
<1> SUFFICES ASSUME /\ botSession' = IF t = Update THEN session ELSE botSession
                    /\ excused' = excused /\ lost' = lost
             PROVE  PanelIInv'
  BY <1>10, <1>u DEF Finished
<1>5. /\ botSession' = IF t = Update THEN session ELSE botSession
      /\ excused' = excused /\ (lost' <=> lost) /\ (crossed' <=> crossed)
  BY <1>3a
<1>11. SessionNow' = IF t = Update THEN session ELSE SessionNow
  BY <1>1, <1>3b, <1>5, SessionAfter
<1>13. SessionNow'.upload = SessionNow.upload /\ SessionNow'.stale = SessionNow.stale
  BY <1>6, <1>11, <1>12
<1>15. ASSUME NEW u \in Task, Awake(u)'
       PROVE  u # t /\ tasks'[u] = tasks[u] /\ Awake(u)
                /\ (BelongsToEntry(u)' <=> BelongsToEntry(u))
  BY <1>3b, <1>9, <1>15 DEF OthersWait, Awake, BelongsToEntry
<1>16. \A u \in Task : Refreshing(u)' => Refreshing(u) /\ Awake(u)'
  BY <1>3b, AsleepFits DEF OthersWait, Refreshing, Awake
<1>17. \A u \in Task : WillSend(u)' <=> WillSend(u)
  BY <1>3b, <1>9, AsleepFits DEF OthersWait, WillSend, Refreshing, BelongsToEntry
<1>18. /\ Clearing' <=> Clearing
       /\ \A pc \in ClearPc : tasks[Update].pc = pc <=> tasks'[Update].pc = pc
       /\ Clearing => tasks'[Update] = tasks[Update]
  <2>1. CASE t = Update
    <3>1. tasks[t].pc \notin ClearPc
      BY <1>3b DEF ClearPc
    <3>2. tasks'[t].pc = "asleep"
      BY <1>3b DEF Awake
    <3>3. tasks'[t].pc \notin ClearPc
      BY <3>2 DEF ClearPc
    <3> QED
      BY <2>1, <3>1, <3>3 DEF Clearing
  <2>2. CASE t # Update
    <3>1. tasks'[Update] = tasks[Update]
      BY <1>1, <1>3b, <2>2 DEF OthersWait
    <3> QED
      BY <3>1 DEF Clearing
  <2> QED
    BY <2>1, <2>2
<1>19. SessionsFit'
  <2>1. Awake(Update)' => tasks'[Update] = tasks[Update] /\ Awake(Update)
    BY <1>1, <1>15
  <2>2. botSession'.upload = 0 => botSession'.panel = None /\ botSession'.prompt = None
    <3>1. CASE t = Update
      BY <1>3b, <1>5, <1>6, <3>1 DEF PanelIInv, SessionsFit
    <3>2. CASE t # Update
      BY <1>5, <3>2 DEF PanelIInv, SessionsFit
    <3> QED
      BY <3>1, <3>2
  <2>3. tasks'[Update].pc \in {"clear prompt", "send first"} => tasks'[Update] = tasks[Update]
    BY <1>18 DEF Clearing, ClearPc
  <2> QED
    BY <1>3b, <2>1, <2>2, <2>3 DEF PanelIInv, SessionsFit
<1>20. EntryFits'
  <2>1. Clearing' /\ HasEntry' => lost' /\ panelState'.panel = None
          /\ panelState'.timer = NoUpload
    BY <1>5, <1>7, <1>9, <1>18 DEF PanelIInv, EntryFits
  <2>2. Clearing' => \A u \in Refresh : Refreshing(u)' => ~BelongsToEntry(u)'
    BY <1>1, <1>15, <1>16, <1>18 DEF PanelIInv, EntryFits
  <2>3. HasEntry' /\ panelState'.timer # NoUpload => panelState'.timer.upload = SessionNow'.upload
    BY <1>7, <1>9, <1>13 DEF PanelIInv, EntryFits
  <2>4. ASSUME NEW u \in Refresh, Awake(u)', BelongsToEntry(u)'
        PROVE  tasks'[u].session.upload = SessionNow'.upload \/ (lost' /\ ~Refreshing(u)')
    <3>1. Awake(u) /\ BelongsToEntry(u) /\ tasks'[u] = tasks[u]
      BY <1>1, <1>15, <2>4
    <3>2. tasks[u].session.upload = SessionNow.upload \/ (lost /\ ~Refreshing(u))
      BY <3>1 DEF PanelIInv, EntryFits
    <3>3. ~Refreshing(u) => ~Refreshing(u)'
      BY <1>1, <1>16
    <3> QED
      BY <1>5, <1>13, <3>1, <3>2, <3>3
  <2>5. \A u \in Task : tasks'[u].pc \in PromptPc => u # panelState'.turn
    <3>1. tasks'[t].pc = "asleep"
      BY <1>3b DEF Awake
    <3>2. tasks'[t].pc \notin PromptPc
      BY <3>1 DEF PromptPc
    <3> QED
      BY <1>7, <1>9, <3>2
  <2> QED
    BY <2>1, <2>2, <2>3, <2>4, <2>5 DEF EntryFits
<1>21. PanelIsSafe'
  <2> SUFFICES ASSUME panelState.panel # None
               PROVE  PanelIsSafe'
    BY <1>9 DEF PanelIsSafe
  <2>1. panelState.panel # sent + 1
    BY <1>3, <1>7 DEF EntryRecord
  <2>2. /\ panelState.panel \notin botSession.stale \cup SessionNow.stale
        /\ panelState.panel \notin {panelState.prompt, panelState.timer.prompt, botSession.prompt}
        /\ \A u \in Task : Awake(u) =>
             panelState.panel \notin {tasks[u].message, tasks[u].session.prompt}
        /\ tasks[Update].pc = "clear panel" => panelState.panel # tasks[Update].prompt
    BY <1>7 DEF PanelIInv, PanelIsSafe
  <2>3. panelState.panel \notin botSession'.stale /\ panelState.panel # botSession'.prompt
    BY <1>5, <1>6, <1>12, <2>1, <2>2
  <2>4. \A u \in Task : Awake(u)' =>
          panelState.panel \notin {tasks'[u].message, tasks'[u].session.prompt}
    BY <1>15, <2>2
  <2>5. tasks'[Update].pc = "clear panel" => panelState.panel # tasks'[Update].prompt
    BY <1>18, <2>2 DEF Clearing, ClearPc
  <2>6. panelState.panel \notin SessionNow'.stale
    BY <1>13, <2>2
  <2>7. panelState.panel \notin {panelState'.prompt, panelState'.timer.prompt}
    BY <1>9, <2>1, <2>2
  <2> QED
    BY <1>9, <2>3, <2>4, <2>5, <2>6, <2>7 DEF PanelIsSafe
<1>22. ASSUME NEW m \in chat', Live(m)', m # message
       PROVE  /\ m \in chat /\ Live(m)
              /\ \A u \in Task : tasks[u].pc = "drop panel" /\ tasks[u].message = m.id =>
                   tasks'[u].pc = "drop panel" /\ tasks'[u].message = m.id
              /\ \A u \in Task : tasks[u].pc = "drop prompt" /\ tasks[u].message = m.id =>
                   tasks'[u].pc = "drop prompt" /\ tasks'[u].message = m.id
  BY <1>3b, <1>5, <1>10, <1>13, <1>22 DEF Live, OthersWait
<1>23. PanelsKnown'
  <2>1. ASSUME NEW m \in chat', m.kind = "panel", Live(m)', ~crossed'
        PROVE  \/ panelState'.panel = m.id /\ m.upload = SessionNow'.upload
               \/ \E u \in Task : tasks'[u].pc = "drop panel" /\ tasks'[u].message = m.id
               \/ tasks'[Update].pc = "clear panel" /\ tasks'[Update].message = m.id
    <3>1. m # message
      BY <1>4, <2>1
    <3>2. m \in chat /\ Live(m)
      BY <1>22, <2>1, <3>1
    <3>3. CASE HasEntry /\ panelState.panel = m.id /\ m.upload = SessionNow.upload
      BY <1>9, <1>13, <3>3
    <3>4. CASE \E u \in Task : tasks[u].pc = "drop panel" /\ tasks[u].message = m.id
      BY <1>22, <2>1, <3>1, <3>4
    <3>5. CASE tasks[Update].pc = "clear panel" /\ tasks[Update].message = m.id
      BY <1>18, <3>5 DEF Clearing, ClearPc
    <3> QED
      BY <1>5, <2>1, <3>2, <3>3, <3>4, <3>5 DEF PanelIInv, PanelsKnown
  <2> QED
    BY <1>9, <2>1 DEF PanelsKnown
<1>24. PromptsKnown'
  <2>1. ASSUME NEW m \in chat', m.kind = "prompt", Live(m)'
        PROVE  \/ panelState'.prompt = m.id /\ (lost' \/ m.upload = SessionNow'.upload)
               \/ \E u \in Task : tasks'[u].pc = "drop prompt" /\ tasks'[u].message = m.id
               \/ tasks'[Update].pc = "clear panel" /\ tasks'[Update].prompt = m.id
               \/ tasks'[Update].pc = "clear prompt" /\ tasks'[Update].message = m.id
    <3>1. CASE m = message
      <4>1. tasks[t].session.upload = SessionNow.upload \/ lost
        <5>1. CASE t = Update
          BY <1>12, <5>1
        <5>2. CASE t \in Refresh
          BY <1>3b, <1>7, <5>2 DEF PanelIInv, EntryFits
        <5> QED
          BY <1>1, <5>1, <5>2, UpdateIsTask
      <4>2. lost' \/ m.upload = SessionNow'.upload
        BY <1>5, <1>4, <1>13, <3>1, <4>1
      <4> QED
        BY <1>4, <1>9, <3>1, <4>2
    <3>2. CASE m # message
      <4>1. m \in chat /\ Live(m)
        BY <1>22, <2>1, <3>2
      <4>2. panelState.prompt = None
        BY <1>3b, <1>7 DEF PanelIInv, EntryFits, PromptPc
      <4>6. m.id # None
        BY <1>1, <4>1 DEF PanelTypes, ChatMessage, None
      <4>3. CASE \E u \in Task : tasks[u].pc = "drop prompt" /\ tasks[u].message = m.id
        BY <1>22, <2>1, <3>2, <4>3
      <4>4. CASE tasks[Update].pc = "clear panel" /\ tasks[Update].prompt = m.id
        BY <1>18, <4>4 DEF Clearing, ClearPc
      <4>5. CASE tasks[Update].pc = "clear prompt" /\ tasks[Update].message = m.id
        BY <1>18, <4>5 DEF Clearing, ClearPc
      <4> QED
        BY <2>1, <4>1, <4>2, <4>3, <4>4, <4>5, <4>6 DEF PanelIInv, PromptsKnown
    <3> QED
      BY <3>1, <3>2
  <2> QED
    BY <1>9, <2>1 DEF PromptsKnown
<1>25. OneRefresh'
  BY <1>5, <1>7, <1>9, <1>16, <1>17 DEF PanelIInv, OneRefresh
<1>26. UploadShown'
  BY <1>5, <1>9, <1>10, <1>13, <1>17, <1>18 DEF PanelIInv, UploadShown
<1>27. UploadBegins'
  <2>1. CASE t = Update
    <3>1. tasks'[Update].pc = "asleep" /\ SessionNow' = botSession'
      BY <1>3b, <1>5, <1>11, <2>1 DEF Awake
    <3> QED
      BY <3>1 DEF UploadBegins, ClearsTheLast
  <2>2. CASE t # Update
    <3>1. SessionNow' = SessionNow /\ botSession' = botSession /\ tasks'[Update] = tasks[Update]
      BY <1>1, <1>3b, <1>5, <1>11, <2>2 DEF OthersWait
    <3>2. ClearsTheLast'
      BY <3>1 DEF PanelIInv, UploadBegins, ClearsTheLast
    <3>3. ASSUME NEW u \in Refresh, Refreshing(u)', BelongsToEntry(u)'
          PROVE  Refreshing(u) /\ BelongsToEntry(u)
      BY <1>1, <1>15, <1>16, <3>3
    <3> QED
      BY <1>7, <1>9, <3>1, <3>2, <3>3 DEF PanelIInv, UploadBegins
  <2> QED
    BY <2>1, <2>2
<1> QED
  BY <1>14, <1>19, <1>20, <1>21, <1>23, <1>24, <1>25, <1>26, <1>27 DEF PanelIInv

\* The prompt gets its turn: the entry and the handler after TurnsToPrompt.
EntryTurned(t, state) ==
  /\ panelState' \in EntryRecord' /\ HasEntry' /\ panelState'.entry = state.entry
  /\ panelState'.panel = state.panel /\ panelState'.timer = state.timer
  /\ panelState'.turn = t /\ panelState'.prompt = None
TaskTurned(t, state, session) ==
  /\ tasks' = [tasks EXCEPT ![t] = tasks'[t]] /\ OthersWait(t) /\ TaskFits(t)' /\ Awake(t)'
  /\ tasks'[t].pc = "drop prompt" /\ tasks'[t].state = state.entry
  /\ tasks'[t].session.upload = session.upload /\ tasks'[t].session.stale = session.stale
  /\ tasks'[t].session.prompt = None
  /\ tasks'[t].message = IF state.prompt # None THEN state.prompt ELSE session.prompt

LEMMA TurnFacts ==
  ASSUME PanelTypes, NEW t \in Task, Awake(t), Grows, NEW state \in EntryRecord',
         NEW session \in SessionRecord', TurnsToPrompt(t, state, session)
  PROVE  EntryTurned(t, state) /\ TaskTurned(t, state, session)
<1>1. sent' \in Nat /\ states' \in Nat
  BY DEF PanelTypes, Grows
<1>2. /\ state.entry \in 1 .. states' /\ state.panel \in 0 .. sent' /\ state.prompt \in 0 .. sent'
      /\ state.timer \in SessionRecord' /\ state.turn \in Task /\ None \in 0 .. sent'
  BY <1>1 DEF EntryRecord, None
<1>3. state.entry # 0 /\ state # NoState
  BY <1>1, <1>2 DEF NoState
<1>4. EntryTurned(t, state)
  <2> DEFINE entry == [state EXCEPT !.turn = t, !.prompt = None]
  <2>1. /\ entry \in EntryRecord' /\ entry.prompt = None /\ entry.turn = t
        /\ entry.panel = state.panel /\ entry.entry = state.entry /\ entry.timer = state.timer
    BY <1>2 DEF EntryRecord
  <2>2. panelState' = entry
    BY DEF TurnsToPrompt
  <2> HIDE DEF entry
  <2> QED
    BY <1>3, <2>1, <2>2 DEF EntryTurned, HasEntry
<1>5. TaskTurned(t, state, session)
  <2> DEFINE after == [session EXCEPT !.prompt = None]
             known == Known(state, session, "prompt")
  <2>1. /\ after \in SessionRecord' /\ after.upload = session.upload
        /\ after.stale = session.stale /\ after.prompt = None /\ session.prompt \in 0 .. sent'
    BY <1>2 DEF SessionRecord
  <2>2. known = IF state.prompt # None THEN state.prompt ELSE session.prompt
    BY <1>3, KnownPanel
  <2>3. known \in 0 .. sent'
    BY <1>2, <2>1, <2>2
  <2>4. tasks' = [tasks EXCEPT ![t] = [tasks[t] EXCEPT !.pc = "drop prompt", !.session = after,
                                         !.message = known, !.state = state.entry]]
    BY DEF TurnsToPrompt
  <2> HIDE DEF after, known
  <2>5. /\ "drop prompt" \in RefreshPc \cup PromptPc /\ "drop prompt" \notin RefreshPc
    BY DEF RefreshPc, PromptPc
  <2>6. Became(t, "drop prompt", after, state.entry, known)
    BY <1>2, <2>1, <2>3, <2>4, <2>5, TaskBecomes
  <2>7. TaskFits(t)'
    BY <1>2, <2>5, <2>6, BecameFits
  <2>8. Awake(t)'
    BY <2>6 DEF Became, Awake
  <2> QED
    BY <2>1, <2>2, <2>6, <2>7, <2>8 DEF Became, TaskTurned
<1> QED
  BY <1>4, <1>5

\* A handler has sent the panel, or has failed to.
PanelTurn(t) ==
  /\ Awake(t) /\ tasks[t].pc \in {"send panel", "send first"}
  /\ sent' = sent + 1 /\ states' = Entries
  /\ EntryTurned(t, [StateOfChat EXCEPT !.panel = panelState'.panel])
  /\ TaskTurned(t, StateOfChat, tasks[t].session)
  /\ botSession' = botSession /\ updates' = updates
  /\ (crossed' <=> crossed) /\ crossed' \in BOOLEAN
NewPanel(t) == Message("panel", tasks[t].session.upload)
PanelSent(t) ==
  /\ chat' = chat \cup {NewPanel(t)} /\ excused' = excused
  /\ panelState'.panel = sent + 1 /\ lost' \in BOOLEAN /\ (lost' <=> lost)
  /\ t # Update => BelongsToEntry(t) /\ ~Clearing
PanelLost(t) ==
  /\ chat \subseteq chat' /\ chat' \subseteq chat \cup {NewPanel(t)}
  /\ excused \subseteq excused' /\ excused' \subseteq excused \cup {sent + 1}
  /\ sent + 1 \in excused' \/ chat' = chat
  /\ panelState'.panel = StateOfChat.panel /\ lost' = TRUE

\* What does not depend on whether the panel has arrived.
LEMMA PanelTurnFacts ==
  ASSUME PanelIInv, NEW t \in Task, PanelTurn(t), PanelSent(t) \/ PanelLost(t)
  PROVE  /\ PanelTypes' /\ SessionsFit'
         /\ SessionNow'.upload = SessionNow.upload /\ SessionNow'.stale = SessionNow.stale
         /\ t = Update => SessionNow = tasks[t].session /\ ~Clearing'
         /\ t # Update => tasks[t].pc = "send panel" /\ (Clearing' <=> Clearing)
                          /\ tasks'[Update] = tasks[Update]
<1>1. /\ PanelTypes /\ Update \in Task /\ Refresh \subseteq Task /\ Update \notin Refresh
      /\ Task = Refresh \cup {Update} /\ sent \in Nat /\ states \in Nat
  BY UpdateIsTask DEF PanelIInv, PanelTypes
<1>2. /\ sent' = sent + 1 /\ states' = Entries /\ botSession' = botSession /\ updates' = updates
      /\ Awake(t) /\ tasks[t].pc \in {"send panel", "send first"}
      /\ OthersWait(t) /\ tasks' = [tasks EXCEPT ![t] = tasks'[t]]
      /\ TaskFits(t)' /\ Awake(t)' /\ tasks'[t].pc = "drop prompt"
      /\ tasks'[t].session.upload = tasks[t].session.upload
      /\ tasks'[t].session.stale = tasks[t].session.stale
  BY DEF PanelTurn, TaskTurned
<1>3. Grows
  BY <1>1, <1>2, ChatEntry
<1>4. tasks[t].session \in SessionRecord
  BY <1>1, <1>2, TaskKinds
<1>5. /\ NewPanel(t).id = sent + 1 /\ NewPanel(t) \in ChatMessage'
      /\ sent + 1 \in 1 .. sent' /\ 1 .. sent \subseteq 1 .. sent'
  <2>1. sent' = sent + 1 /\ tasks[t].session.upload \in Nat
    BY <1>2, <1>4 DEF SessionRecord
  <2> QED
    BY <1>1, <2>1 DEF NewPanel, Message, ChatMessage
<1>6. PanelTypes'
  <2>1. RestFits
    BY <1>1, TypesAreFits
  <2>2. ChatMessage \subseteq ChatMessage' /\ SessionRecord \subseteq SessionRecord'
    BY <1>1, <1>3, GrowingTypes
  <2>3. \A m \in chat : m.id # NewPanel(t).id
    BY <1>1, <1>5 DEF ChatMessage, PanelTypes
  <2>4. chat' \subseteq chat \cup {NewPanel(t)}
    BY DEF PanelSent, PanelLost
  <2>5. chat' \subseteq ChatMessage' /\ \A m, n \in chat' : m.id = n.id => m = n
    BY <1>5, <2>1, <2>2, <2>3, <2>4 DEF RestFits
  <2>6. excused' \subseteq 1 .. sent'
    BY <1>5, <2>1 DEF RestFits, PanelSent, PanelLost
  <2>7. crossed' \in BOOLEAN /\ lost' \in BOOLEAN
    BY DEF PanelTurn, PanelSent, PanelLost
  <2>8. panelState' \in EntryRecord'
    BY DEF PanelTurn, EntryTurned
  <2>9. RestFits'
    BY <1>2, <2>1, <2>2, <2>5, <2>6, <2>7, <2>8 DEF RestFits
  <2> QED
    BY <1>1, <1>2, <1>3, <2>9, TypesKept
<1>7. ASSUME t # Update
      PROVE  /\ tasks'[Update] = tasks[Update] /\ SessionNow' = SessionNow
             /\ tasks[t].pc = "send panel" /\ (Clearing' <=> Clearing)
  <2>1. tasks'[Update] = tasks[Update] /\ SessionNow' = SessionNow /\ (Clearing' <=> Clearing)
    BY <1>1, <1>2, <1>7, SessionAfter DEF OthersWait
  <2>2. tasks[t] \in RefreshTask
    BY <1>1, <1>2, <1>7 DEF PanelTypes
  <2>3. tasks[t].pc # "send first"
    BY <2>2 DEF RefreshTask, RefreshPc, PromptPc
  <2> QED
    BY <1>2, <2>1, <2>3
<1>8. ASSUME t = Update
      PROVE  /\ SessionNow = tasks[t].session /\ ~Clearing' /\ SessionNow' = tasks'[t].session
             /\ tasks[t].session.upload # 0
  <2>1. SessionNow = tasks[t].session /\ SessionNow' = tasks'[t].session
    BY <1>1, <1>2, <1>8, SessionAfter
  <2>2. ~Clearing'
    BY <1>2, <1>8 DEF Clearing, ClearPc
  <2>3. tasks[t].session.upload # 0
    BY <1>2, <1>8 DEF PanelIInv, SessionsFit
  <2> QED
    BY <2>1, <2>2, <2>3
<1>9. SessionsFit'
  <2>1. CASE t = Update
    BY <1>2, <1>8, <2>1 DEF PanelIInv, SessionsFit
  <2>2. CASE t # Update
    BY <1>2, <1>7, <2>2 DEF PanelIInv, SessionsFit, Awake
  <2> QED
    BY <2>1, <2>2
<1> QED
  BY <1>2, <1>6, <1>7, <1>8, <1>9

LEMMA PanelTurnKeeps ==
  ASSUME PanelIInv, NEW t \in Task, PanelTurn(t), PanelSent(t) \/ PanelLost(t)
  PROVE  PanelIInv'
<1> DEFINE s == StateOfChat
           new == NewPanel(t)
<1>1. /\ PanelTypes /\ Update \in Task /\ Refresh \subseteq Task /\ Update \notin Refresh
      /\ Task = Refresh \cup {Update}
  BY UpdateIsTask DEF PanelIInv
<1>1a. sent \in Nat /\ states \in Nat /\ sent' = sent + 1
  BY DEF PanelIInv, PanelTypes, PanelTurn
<1>2. /\ PanelTypes' /\ SessionsFit'
      /\ SessionNow'.upload = SessionNow.upload /\ SessionNow'.stale = SessionNow.stale
      /\ t = Update => SessionNow = tasks[t].session /\ ~Clearing'
      /\ t # Update => tasks[t].pc = "send panel" /\ (Clearing' <=> Clearing)
                       /\ tasks'[Update] = tasks[Update]
  BY PanelTurnFacts
<1>3. /\ s \in EntryRecord' /\ s # NoState
      /\ HasEntry => s = panelState
      /\ ~HasEntry => /\ s.entry = states + 1 /\ s.panel = None
                      /\ s.prompt = None /\ s.timer = NoUpload
  BY <1>1, ChatEntry DEF PanelTurn
<1>4. /\ panelState' \in EntryRecord' /\ HasEntry' /\ panelState'.entry = s.entry
      /\ panelState'.timer = s.timer /\ panelState'.turn = t /\ panelState'.prompt = None
  <2>1. EntryTurned(t, [s EXCEPT !.panel = panelState'.panel])
    BY DEF PanelTurn
  <2>2. /\ [s EXCEPT !.panel = panelState'.panel].entry = s.entry
        /\ [s EXCEPT !.panel = panelState'.panel].timer = s.timer
    BY <1>3 DEF EntryRecord
  <2> QED
    BY <2>1, <2>2 DEF EntryTurned
<1> HIDE DEF s
<1>5. /\ Awake(t) /\ tasks[t].pc \in {"send panel", "send first"} /\ botSession' = botSession
      /\ OthersWait(t) /\ Awake(t)' /\ tasks'[t].pc = "drop prompt" /\ tasks'[t].state = s.entry
      /\ tasks'[t].session.upload = tasks[t].session.upload /\ tasks'[t].session.prompt = None
      /\ tasks'[t].message = IF s.prompt # None THEN s.prompt ELSE tasks[t].session.prompt
  BY DEF PanelTurn, TaskTurned, s
<1>5a. (crossed' <=> crossed) /\ (lost => lost')
  BY DEF PanelTurn, PanelSent, PanelLost
<1>6. ~Refreshing(t)' /\ ~WillSend(t)' /\ (t # Update => Refreshing(t))
  BY <1>2, <1>5 DEF Refreshing, WillSend
<1>7. ASSUME NEW u \in Task \ {t}, Awake(u), BelongsToEntry(u)'
      PROVE  BelongsToEntry(u) /\ HasEntry
  <2>1. tasks[u].state = s.entry /\ tasks[u].state \in 0 .. states
    BY <1>1, <1>4, <1>5, <1>7, TaskKinds DEF BelongsToEntry, OthersWait
  <2> QED
    BY <1>1a, <1>3, <2>1 DEF BelongsToEntry
<1>8. ASSUME NEW u \in Task \ {t}
      PROVE  /\ tasks'[u] = tasks[u] /\ (Awake(u)' <=> Awake(u))
             /\ (Refreshing(u)' <=> Refreshing(u))
  BY <1>5 DEF OthersWait, Awake, Refreshing
<1>9. \A u \in Task \ {t} : WillSend(u)' => WillSend(u) /\ (u = Update \/ HasEntry)
  BY <1>7, <1>8 DEF WillSend, Refreshing, Awake
<1>10. Clearing' => t # Update /\ Clearing
  BY <1>2
<1>11. EntryFits'
  <2>1. Clearing' /\ HasEntry' => lost' /\ panelState'.panel = None
          /\ panelState'.timer = NoUpload
    <3>1. CASE PanelSent(t)
      BY <1>10, <3>1 DEF PanelSent
    <3>2. CASE PanelLost(t)
      <4>1. Clearing' => s.panel = None /\ s.timer = NoUpload
        BY <1>3, <1>10 DEF PanelIInv, EntryFits
      <4> QED
        BY <1>4, <3>2, <4>1 DEF PanelLost, s
    <3> QED
      BY <3>1, <3>2
  <2>2. Clearing' => \A u \in Refresh : Refreshing(u)' => ~BelongsToEntry(u)'
    <3>1. ASSUME Clearing', NEW u \in Refresh, Refreshing(u)', BelongsToEntry(u)'
          PROVE  FALSE
      <4>1. u \in Task \ {t}
        BY <1>1, <1>6, <3>1
      <4>2. Refreshing(u) /\ Awake(u)
        BY <1>8, <3>1, <4>1 DEF Refreshing, Awake
      <4>3. BelongsToEntry(u)
        BY <1>7, <3>1, <4>1, <4>2
      <4> QED
        BY <1>10, <3>1, <4>2, <4>3 DEF PanelIInv, EntryFits
    <3> QED
      BY <3>1
  <2>3. HasEntry' /\ panelState'.timer # NoUpload => panelState'.timer.upload = SessionNow'.upload
    BY <1>2, <1>3, <1>4 DEF PanelIInv, EntryFits
  <2>4. ASSUME NEW u \in Refresh, Awake(u)', BelongsToEntry(u)'
        PROVE  tasks'[u].session.upload = SessionNow'.upload \/ (lost' /\ ~Refreshing(u)')
    <3>1. CASE u # t
      <4>1. u \in Task \ {t} /\ Awake(u)
        BY <1>1, <1>8, <2>4, <3>1
      <4>2. BelongsToEntry(u)
        BY <1>7, <2>4, <4>1
      <4>3. tasks[u].session.upload = SessionNow.upload \/ (lost /\ ~Refreshing(u))
        BY <2>4, <4>1, <4>2 DEF PanelIInv, EntryFits
      <4>4. tasks'[u] = tasks[u] /\ (~Refreshing(u) => ~Refreshing(u)')
        BY <1>8, <4>1
      <4> QED
        BY <1>2, <1>5a, <4>3, <4>4
    <3>2. CASE u = t /\ PanelSent(t)
      <4>1. t # Update /\ BelongsToEntry(t) /\ Refreshing(t) /\ t \in Refresh
        BY <1>1, <1>6, <2>4, <3>2 DEF PanelSent
      <4>2. tasks[t].session.upload = SessionNow.upload
        BY <1>5, <4>1 DEF PanelIInv, EntryFits
      <4> QED
        BY <1>2, <1>5, <3>2, <4>2
    <3>3. CASE u = t /\ PanelLost(t)
      BY <1>6, <3>3 DEF PanelLost
    <3> QED
      BY <3>1, <3>2, <3>3
  <2>5. \A u \in Task : panelState'.turn = u => panelState'.prompt = None
    BY <1>4
  <2> QED
    BY <2>1, <2>2, <2>3, <2>4, <2>5 DEF EntryFits
<1>12. tasks[t].session.prompt \in 0 .. sent /\ s.prompt \in 0 .. sent
  <2>1. tasks[t].session.prompt \in 0 .. sent
    BY <1>1, <1>5, TaskKinds DEF SessionRecord
  <2>2. HasEntry => panelState.prompt \in 0 .. sent
    BY <1>1, EntryKinds DEF EntryRecord
  <2>3. None \in 0 .. sent
    BY <1>1a DEF None
  <2> QED
    BY <1>3, <2>1, <2>2, <2>3
<1>13. PanelIsSafe'
  <2>1. CASE PanelSent(t)
    <3>1. panelState'.panel = sent + 1
      BY <2>1 DEF PanelSent
    <3>2. sent + 1 \notin botSession.stale \cup SessionNow.stale /\ botSession.prompt # sent + 1
      <4>1. botSession \in SessionRecord /\ SessionNow \in SessionRecord
        BY <1>1, UpdateIsTask DEF PanelTypes
      <4>2. botSession.stale \subseteq 1 .. sent /\ botSession.prompt \in 0 .. sent
        BY <4>1 DEF SessionRecord
      <4>3. SessionNow.stale \subseteq 1 .. sent
        BY <4>1 DEF SessionRecord
      <4> QED
        BY <1>1a, <4>2, <4>3
    <3>3. s.timer.prompt # sent + 1 /\ None # sent + 1
      <4>1. HasEntry => panelState.timer.prompt \in 0 .. sent
        BY <1>1, EntryKinds DEF EntryRecord, SessionRecord
      <4>2. NoUpload.prompt = None
        BY DEF NoUpload
      <4> QED
        BY <1>1a, <1>3, <4>1, <4>2 DEF None
    <3>4. ASSUME NEW u \in Task, Awake(u)'
          PROVE  sent + 1 \notin {tasks'[u].message, tasks'[u].session.prompt}
      <4>1. CASE u = t
        <5>1. tasks'[t].message \in 0 .. sent
          BY <1>5, <1>12
        <5>2. sent + 1 \notin 0 .. sent
          BY <1>1a
        <5> QED
          BY <1>5, <3>3, <4>1, <5>1, <5>2
      <4>2. CASE u # t
        <5>1. tasks'[u] = tasks[u] /\ Awake(u)
          BY <1>8, <3>4, <4>2
        <5>2. tasks[u].message \in 0 .. sent /\ tasks[u].session.prompt \in 0 .. sent
          BY <1>1, <5>1, TaskKinds DEF SessionRecord
        <5> QED
          BY <1>1a, <5>1, <5>2
      <4> QED
        BY <4>1, <4>2
    <3>5. tasks'[Update].pc # "clear panel"
      <4>1. ~Clearing'
        BY <1>10, <2>1 DEF PanelSent
      <4> QED
        BY <4>1 DEF Clearing, ClearPc
    <3> QED
      BY <1>2, <1>4, <1>5, <3>1, <3>2, <3>3, <3>4, <3>5 DEF PanelIsSafe
  <2>2. CASE PanelLost(t)
    <3> SUFFICES ASSUME s.panel # None
                 PROVE  PanelIsSafe'
      BY <2>2 DEF PanelIsSafe, PanelLost, s
    <3>1. HasEntry /\ s = panelState /\ panelState'.panel = panelState.panel
      BY <1>3, <2>2 DEF PanelLost, s
    <3>2. /\ panelState.panel \notin botSession.stale \cup SessionNow.stale
          /\ panelState.panel \notin {panelState.prompt, panelState.timer.prompt, botSession.prompt}
          /\ \A u \in Task : Awake(u) =>
               panelState.panel \notin {tasks[u].message, tasks[u].session.prompt}
          /\ tasks[Update].pc = "clear panel" => panelState.panel # tasks[Update].prompt
      BY <3>1 DEF PanelIInv, PanelIsSafe
    <3>3. ASSUME NEW u \in Task, Awake(u)'
          PROVE  panelState.panel \notin {tasks'[u].message, tasks'[u].session.prompt}
      <4>1. CASE u = t
        BY <1>5, <3>1, <3>2, <4>1
      <4>2. CASE u # t
        BY <1>8, <3>2, <3>3, <4>2
      <4> QED
        BY <4>1, <4>2
    <3>4. tasks'[Update].pc = "clear panel" => panelState.panel # tasks'[Update].prompt
      <4>1. tasks'[Update].pc = "clear panel" => Clearing'
        BY DEF Clearing, ClearPc
      <4> QED
        BY <1>2, <1>10, <3>2, <4>1
    <3>5. panelState.panel # None
      BY <3>1
    <3> QED
      BY <1>2, <1>4, <1>5, <3>1, <3>2, <3>3, <3>4, <3>5 DEF PanelIsSafe
  <2> QED
    BY <2>1, <2>2
<1>14. ASSUME NEW m \in chat', Live(m)', m # new
       PROVE  /\ m \in chat /\ Live(m) /\ m.id # None
              /\ \A u \in Task : tasks[u].pc = "drop panel" /\ tasks[u].message = m.id =>
                   tasks'[u].pc = "drop panel" /\ tasks'[u].message = m.id
              /\ \A u \in Task : tasks[u].pc = "drop prompt" /\ tasks[u].message = m.id =>
                   tasks'[u].pc = "drop prompt" /\ tasks'[u].message = m.id
  <2>0. chat' \subseteq chat \cup {new} /\ excused \subseteq excused'
    BY DEF PanelSent, PanelLost
  <2>1. m \in chat /\ excused \subseteq excused'
    BY <1>14, <2>0
  <2>2. Live(m)
    BY <1>2, <1>14, <2>1 DEF Live
  <2>3. m.id # None
    BY <1>1, <2>1 DEF PanelTypes, ChatMessage, None
  <2> QED
    BY <1>5, <2>1, <2>2, <2>3 DEF OthersWait
<1>15. new.id = sent + 1 /\ new.kind = "panel" /\ new.upload = tasks[t].session.upload
  BY DEF NewPanel, Message
<1>16. PromptsKnown'
  <2>1. ASSUME NEW m \in chat', m.kind = "prompt", Live(m)'
        PROVE  \/ \E u \in Task : tasks'[u].pc = "drop prompt" /\ tasks'[u].message = m.id
               \/ tasks'[Update].pc = "clear panel" /\ tasks'[Update].prompt = m.id
               \/ tasks'[Update].pc = "clear prompt" /\ tasks'[Update].message = m.id
    <3>1. m # new
      BY <1>15, <2>1
    <3>2. m \in chat /\ Live(m) /\ m.id # None
      BY <1>14, <2>1, <3>1
    <3>3. CASE HasEntry /\ panelState.prompt = m.id
      <4>1. s.prompt = m.id
        BY <1>3, <3>3
      <4>2. tasks'[t].message = m.id
        BY <1>5, <3>2, <4>1
      <4> QED
        BY <1>5, <4>2
    <3>4. CASE \E u \in Task : tasks[u].pc = "drop prompt" /\ tasks[u].message = m.id
      BY <1>14, <2>1, <3>1, <3>4
    <3>5. tasks[Update].pc \in {"clear panel", "clear prompt"} => tasks'[Update] = tasks[Update]
      BY <1>2, <1>5
    <3> QED
      BY <2>1, <3>2, <3>3, <3>4, <3>5 DEF PanelIInv, PromptsKnown
  <2> QED
    BY <2>1 DEF PromptsKnown
<1>17. ~crossed /\ PanelSent(t) =>
         (HasEntry => panelState.panel = None) /\ \A u \in Task \ {t} : ~WillSend(u)
  <2> SUFFICES ASSUME ~crossed, PanelSent(t)
               PROVE  (HasEntry => panelState.panel = None) /\ \A u \in Task \ {t} : ~WillSend(u)
    OBVIOUS
  <2>1. /\ \A u, v \in Task : Refreshing(u) /\ Refreshing(v) => u = v
        /\ HasEntry => \A u \in Task : WillSend(u) => panelState.panel = None
    BY DEF PanelIInv, OneRefresh
  <2>2. CASE Refreshing(t)
    <3>1. WillSend(t)
      BY <2>2 DEF PanelSent, WillSend
    <3> QED
      BY <2>1, <2>2, <3>1 DEF WillSend
  <2>3. CASE ~Refreshing(t)
    <3>1. t = Update /\ Clearing
      BY <1>5, <1>6, <2>3 DEF Clearing, ClearPc, Refreshing
    <3>2. /\ HasEntry => panelState.panel = None
          /\ \A u \in Refresh : Refreshing(u) => ~BelongsToEntry(u)
      BY <3>1 DEF PanelIInv, EntryFits
    <3> QED
      BY <1>1, <3>1, <3>2 DEF WillSend
  <2> QED
    BY <2>2, <2>3
<1>18. PanelsKnown'
  <2>1. ASSUME NEW m \in chat', m.kind = "panel", Live(m)', ~crossed'
        PROVE  \/ panelState'.panel = m.id /\ m.upload = SessionNow'.upload
               \/ \E u \in Task : tasks'[u].pc = "drop panel" /\ tasks'[u].message = m.id
               \/ tasks'[Update].pc = "clear panel" /\ tasks'[Update].message = m.id
    <3>1. CASE m = new
      <4>1. CASE PanelSent(t)
        <5>1. tasks[t].session.upload = SessionNow.upload
          <6>1. CASE t = Update
            BY <1>2, <6>1
          <6>2. CASE t # Update
            BY <1>1, <1>5, <1>6, <4>1, <6>2 DEF PanelIInv, EntryFits, PanelSent
          <6> QED
            BY <6>1, <6>2
        <5> QED
          BY <1>2, <1>15, <3>1, <4>1, <5>1 DEF PanelSent
      <4>2. CASE PanelLost(t)
        <5>1. sent + 1 \notin excused'
          BY <1>15, <2>1, <3>1 DEF Live
        <5>2. m \in chat
          BY <2>1, <4>2, <5>1 DEF PanelLost
        <5>3. m.id \in 1 .. sent
          BY <1>1, <5>2 DEF PanelTypes, ChatMessage
        <5> QED
          <6>1. m.id = sent + 1
            BY <1>15, <3>1
          <6>2. sent + 1 \notin 1 .. sent
            BY <1>1a
          <6> QED
            BY <5>3, <6>1, <6>2, Zenon
      <4> QED
        BY <4>1, <4>2
    <3>2. CASE m # new
      <4>1. m \in chat /\ Live(m) /\ m.id # None
        BY <1>14, <2>1, <3>2
      <4>2. CASE HasEntry /\ panelState.panel = m.id /\ m.upload = SessionNow.upload
        <5>1. ~PanelSent(t)
          BY <1>5a, <1>17, <2>1, <4>1, <4>2
        <5>2. panelState'.panel = panelState.panel
          BY <1>3, <4>2, <5>1 DEF PanelLost, s
        <5> QED
          BY <1>2, <4>2, <5>2
      <4>3. CASE \E u \in Task : tasks[u].pc = "drop panel" /\ tasks[u].message = m.id
        BY <1>14, <2>1, <3>2, <4>3
      <4>4. tasks[Update].pc = "clear panel" => tasks'[Update] = tasks[Update]
        BY <1>2, <1>5
      <4> QED
        BY <1>5a, <2>1, <4>1, <4>2, <4>3, <4>4 DEF PanelIInv, PanelsKnown
    <3> QED
      BY <3>1, <3>2
  <2> QED
    BY <1>4, <2>1 DEF PanelsKnown
<1>19. OneRefresh'
  <2> SUFFICES ASSUME ~crossed
               PROVE  OneRefresh'
    BY <1>5a DEF OneRefresh
  <2>1. /\ \A u, v \in Task : Refreshing(u) /\ Refreshing(v) => u = v
        /\ HasEntry => \A u \in Task : WillSend(u) => panelState.panel = None
    BY DEF PanelIInv, OneRefresh
  <2>2. \A u, v \in Task : Refreshing(u)' /\ Refreshing(v)' => u = v
    BY <1>6, <1>8, <2>1
  <2>3. ASSUME NEW u \in Task, WillSend(u)'
        PROVE  panelState'.panel = None
    <3>1. u \in Task \ {t} /\ WillSend(u)
      BY <1>6, <1>9, <2>3
    <3>2. PanelLost(t)
      BY <1>17, <3>1
    <3>3. s.panel = None
      BY <1>3, <2>1, <3>1
    <3> QED
      BY <3>2, <3>3 DEF PanelLost, s
  <2> QED
    BY <2>2, <2>3 DEF OneRefresh
<1>20. UploadShown'
  <2>1. CASE PanelSent(t)
    <3>1. tasks[t].session.upload = SessionNow.upload
      <4>1. CASE t = Update
        BY <1>2, <4>1
      <4>2. CASE t # Update
        BY <1>1, <1>5, <1>6, <2>1, <4>2 DEF PanelIInv, EntryFits, PanelSent
      <4> QED
        BY <4>1, <4>2
    <3>2. new \in chat' /\ panelState'.panel = sent + 1
      BY <2>1 DEF PanelSent
    <3> QED
      BY <1>2, <1>4, <1>15, <3>1, <3>2 DEF UploadShown
  <2>2. CASE PanelLost(t)
    BY <2>2 DEF PanelLost, UploadShown
  <2> QED
    BY <2>1, <2>2
<1>21. UploadBegins'
  <2>1. ClearsTheLast'
    <3>1. CASE t = Update
      BY <1>5, <3>1 DEF ClearsTheLast
    <3>2. CASE t # Update
      BY <1>2, <1>5, <3>2 DEF PanelIInv, UploadBegins, ClearsTheLast
    <3> QED
      BY <3>1, <3>2
  <2>2. ASSUME SessionNow'.upload # botSession'.upload
        PROVE  /\ panelState'.timer = NoUpload
               /\ \A u \in Refresh : Refreshing(u)' => ~BelongsToEntry(u)'
    <3>1. /\ HasEntry => panelState.timer = NoUpload
          /\ \A u \in Refresh : Refreshing(u) => ~BelongsToEntry(u)
      BY <1>2, <1>5, <2>2 DEF PanelIInv, UploadBegins
    <3>2. ASSUME NEW u \in Refresh, Refreshing(u)', BelongsToEntry(u)'
          PROVE  FALSE
      <4>1. u \in Task \ {t}
        BY <1>1, <1>6, <3>2
      <4>2. Refreshing(u) /\ Awake(u)
        BY <1>8, <3>2, <4>1 DEF Refreshing, Awake
      <4> QED
        BY <1>7, <3>1, <3>2, <4>1, <4>2
    <3> QED
      BY <1>3, <1>4, <3>1, <3>2
  <2> QED
    BY <2>1, <2>2 DEF UploadBegins
<1> QED
  BY <1>2, <1>11, <1>13, <1>16, <1>18, <1>19, <1>20, <1>21 DEF PanelIInv

LEMMA EntrySame ==
  ASSUME NEW state \in EntryRecord', NEW id \in 0 .. sent'
  PROVE  /\ [state EXCEPT !.panel = id] \in EntryRecord'
         /\ [state EXCEPT !.panel = id].panel = id
         /\ [state EXCEPT !.panel = id].entry = state.entry
         /\ [state EXCEPT !.panel = id].prompt = state.prompt
         /\ [state EXCEPT !.panel = id].timer = state.timer
BY DEF EntryRecord

\* The three ways to the prompt: the panel of a refresh arrives, or it does
\* not; the first panel of an upload arrives.
LEMMA TurnBegins ==
  ASSUME PanelTypes, NEW t \in Task, Awake(t), tasks[t].pc \in {"send panel", "send first"},
         sent' = sent + 1, states' = Entries, NEW id \in 0 .. sent',
         NEW session \in SessionRecord', session.prompt = tasks[t].session.prompt,
         session.upload = tasks[t].session.upload, session.stale = tasks[t].session.stale,
         TurnsToPrompt(t, [StateOfChat EXCEPT !.panel = id], session),
         botSession' = botSession, updates' = updates, crossed' = crossed
  PROVE  PanelTurn(t) /\ panelState'.panel = id
<1> DEFINE s == [StateOfChat EXCEPT !.panel = id]
<1>1. Grows /\ StateOfChat \in EntryRecord'
  BY ChatEntry
<1>2. /\ s \in EntryRecord' /\ s.panel = id /\ s.entry = StateOfChat.entry
      /\ s.prompt = StateOfChat.prompt /\ s.timer = StateOfChat.timer
  BY <1>1, EntrySame
<1>3. TurnsToPrompt(t, s, session)
  OBVIOUS
<1>4. s = [StateOfChat EXCEPT !.panel = id]
  OBVIOUS
<1> HIDE DEF s
<1>5. EntryTurned(t, s) /\ TaskTurned(t, s, session)
  BY <1>1, <1>2, <1>3, TurnFacts
<1>6. panelState'.panel = id
  BY <1>2, <1>5 DEF EntryTurned
<1>7. EntryTurned(t, [StateOfChat EXCEPT !.panel = panelState'.panel])
  BY <1>4, <1>5, <1>6
<1>8. TaskTurned(t, StateOfChat, tasks[t].session)
  BY <1>2, <1>5 DEF TaskTurned
<1>9. (crossed' <=> crossed) /\ crossed' \in BOOLEAN
  BY DEF PanelTypes
<1> QED
  BY <1>6, <1>7, <1>8, <1>9 DEF PanelTurn

LEMMA SessionWithPanel ==
  ASSUME NEW session \in SessionRecord', NEW id \in 0 .. sent'
  PROVE  /\ [session EXCEPT !.panel = id] \in SessionRecord'
         /\ [session EXCEPT !.panel = id].prompt = session.prompt
         /\ [session EXCEPT !.panel = id].upload = session.upload
         /\ [session EXCEPT !.panel = id].stale = session.stale
BY DEF SessionRecord

LEMMA SendPanelInTime ==
  ASSUME PanelIInv, NEW t \in Task, SendPanel(t), StillExpected(t)
  PROVE  PanelIInv'
<1> DEFINE message == Message("panel", tasks[t].session.upload)
           session == [tasks[t].session EXCEPT !.panel = message.id]
<1>1. PanelTypes /\ Task = Refresh \cup {Update}
  BY UpdateIsTask DEF PanelIInv
<1>2. /\ chat' = chat \cup {message} /\ excused' = excused /\ states' = Entries
      /\ TurnsToPrompt(t, Remembered(StateOfChat, message.id), session)
      /\ lost' = lost
  BY DEF SendPanel
<1>3. sent \in Nat /\ sent' = sent + 1
  BY <1>1, SendPanelTypes
<1>4. /\ At(t, "send panel") /\ Awake(t) /\ Refreshing(t) /\ botSession' = botSession
      /\ updates' = updates /\ tasks[t].session \in SessionRecord /\ crossed' = crossed
  BY <1>1, SendPanelTypes
<1>5. message.id = sent + 1 /\ sent + 1 \in 0 .. sent'
  BY <1>3 DEF Message
<1>6. tasks[t].session \in SessionRecord'
  <2>1. states \in Nat /\ Grows
    BY <1>1, <1>2, <1>3, ChatEntry DEF PanelTypes
  <2> QED
    BY <1>3, <1>4, <2>1, GrowingTypes
<1>7. /\ session = [tasks[t].session EXCEPT !.panel = sent + 1]
      /\ message = NewPanel(t)
  BY <1>5 DEF NewPanel
<1>8. TurnsToPrompt(t, [StateOfChat EXCEPT !.panel = sent + 1], session)
  BY <1>2, <1>5 DEF Remembered
<1> HIDE DEF message
<1>9. /\ session \in SessionRecord' /\ session.prompt = tasks[t].session.prompt
      /\ session.upload = tasks[t].session.upload /\ session.stale = tasks[t].session.stale
  BY <1>5, <1>6, SessionWithPanel
<1> HIDE DEF session
<1>10. PanelTurn(t) /\ panelState'.panel = sent + 1
  <2>1. tasks[t].pc \in {"send panel", "send first"}
    BY <1>4 DEF At
  <2> QED
    BY <1>1, <1>2, <1>3, <1>4, <1>5, <1>8, <1>9, <2>1, TurnBegins
<1>11. t # Update => BelongsToEntry(t) /\ ~Clearing
  <2>1. ASSUME t # Update PROVE t \in Refresh /\ BelongsToEntry(t)
    BY <1>1, <1>4, <2>1, UpdateExpects
  <2> QED
    BY <1>4, <2>1 DEF PanelIInv, EntryFits
<1>12. lost' \in BOOLEAN
  BY <1>1, <1>2 DEF PanelTypes
<1>13. PanelSent(t)
  BY <1>2, <1>7, <1>10, <1>11, <1>12 DEF PanelSent
<1> QED
  BY <1>10, <1>13, PanelTurnKeeps

\* A panel that could not be sent: the prompt follows all the same.
LEMMA PanelUnsent ==
  ASSUME PanelIInv, NEW t \in Task, Awake(t), tasks[t].pc \in {"send panel", "send first"},
         sent' = sent + 1, ArrivedOrNot(Message("panel", tasks[t].session.upload)),
         TurnsToPrompt(t, StateOfChat, tasks[t].session), states' = Entries, lost' = TRUE,
         botSession' = botSession, updates' = updates, crossed' = crossed
  PROVE  PanelIInv'
<1>1. PanelTypes /\ sent \in Nat /\ states \in Nat
  BY DEF PanelIInv, PanelTypes
<1>2. Grows /\ StateOfChat \in EntryRecord'
  BY <1>1, ChatEntry
<1>3. tasks[t].session \in SessionRecord'
  BY <1>1, <1>2, TaskKinds, GrowingTypes
<1>4. StateOfChat.panel \in 0 .. sent' /\ StateOfChat = [StateOfChat EXCEPT !.panel = @]
  BY <1>2 DEF EntryRecord
<1>5. TurnsToPrompt(t, [StateOfChat EXCEPT !.panel = StateOfChat.panel], tasks[t].session)
  BY <1>4
<1>6. PanelTurn(t) /\ panelState'.panel = StateOfChat.panel
  BY <1>1, <1>3, <1>4, <1>5, TurnBegins
<1>7. \/ chat' = chat /\ excused' = excused
      \/ chat' = chat \cup {NewPanel(t)} /\ excused' = excused \cup {sent + 1}
  <2>1. NewPanel(t) = Message("panel", tasks[t].session.upload) /\ NewPanel(t).id = sent + 1
    BY DEF NewPanel, Message
  <2> QED
    BY <2>1 DEF ArrivedOrNot
<1>8. PanelLost(t)
  BY <1>6, <1>7 DEF PanelLost
<1> QED
  BY <1>6, <1>8, PanelTurnKeeps

LEMMA SendPanelFailsKeeps ==
  ASSUME PanelIInv, NEW t \in Task, SendPanelFails(t)
  PROVE  PanelIInv'
<1>1. PanelTypes
  BY DEF PanelIInv
<1>2. Awake(t) /\ tasks[t].pc \in {"send panel", "send first"}
  BY <1>1, SendPanelTypes DEF At
<1> QED
  BY <1>2, PanelUnsent DEF SendPanelFails

\* The first panel could not be sent. The prompt follows, or the update has
\* thrown: its upload is known to nobody.
LEMMA SendFirstPanelFailsKeeps ==
  ASSUME PanelIInv, SendFirstPanelFails
  PROVE  PanelIInv'
<1> DEFINE session == tasks[Update].session
           message == Message("panel", session.upload)
<1>1. /\ PanelTypes /\ Update \in Task /\ sent \in Nat /\ states \in Nat
      /\ tasks[Update].pc = "send first"
  BY UpdateIsTask DEF PanelIInv, PanelTypes, SendFirstPanelFails, At
<1>1a. sent \in Nat
  BY <1>1
<1>2. Awake(Update) /\ SessionNow = session
  BY <1>1 DEF Awake, SessionNow
<1>3. CASE /\ ArrivedOrNot(message) /\ TurnsToPrompt(Update, StateOfChat, session)
           /\ states' = Entries /\ lost' = TRUE /\ UNCHANGED botSession
  BY <1>1, <1>2, <1>3, PanelUnsent DEF SendFirstPanelFails
<1>4. CASE /\ chat' \in {chat, chat \cup {message}} /\ tasks' = [tasks EXCEPT ![Update] = Asleep]
           /\ Unwritten(session, excused) /\ UNCHANGED <<panelState, states>>
  <2>1. /\ Finished(Update, session, excused) /\ sent' = sent + 1 /\ panelState' = panelState
        /\ states' = states /\ updates' = updates /\ crossed' = crossed
    BY <1>4 DEF Finished, SendFirstPanelFails
  <2>2. Grows /\ session \in SessionRecord'
    <3>1. Grows /\ session \in SessionRecord
      BY <1>1, <1>2, <2>1, TaskKinds DEF Grows
    <3> QED
      BY <1>1, <3>1, GrowingTypes
  <2>3. /\ ChatMessage \subseteq ChatMessage' /\ EntryRecord \subseteq EntryRecord'
        /\ 1 .. sent \subseteq 1 .. sent' /\ sent + 1 \in 1 .. sent'
    <3>1. sent' = sent + 1
      BY <2>1
    <3>2. sent + 1 \in 1 .. sent'
      BY <1>1a, <3>1
    <3> QED
      BY <1>1, <2>2, <3>2, GrowingTypes
  <2>4. message.id = sent + 1 /\ message \in ChatMessage' /\ message.upload = session.upload
    <3> DEFINE upload == session.upload
    <3>1. upload \in Nat
      BY <2>2 DEF SessionRecord
    <3>2. message = [id |-> sent + 1, kind |-> "panel", upload |-> upload]
      BY DEF Message
    <3> HIDE DEF message, upload
    <3>3. message.id = sent + 1 /\ message \in ChatMessage' /\ message.upload = upload
      BY <2>3, <3>1, <3>2 DEF ChatMessage
    <3> QED
      BY <3>3 DEF upload
  <2>5. chat' \subseteq chat \cup {message}
    BY <1>4
  <2> HIDE DEF message
  <2>6. /\ chat' \subseteq ChatMessage' /\ \A m, n \in chat' : m.id = n.id => m = n
        /\ panelState' \in EntryRecord' \cup {NoState}
        /\ excused \subseteq 1 .. sent' /\ updates' \in Nat
    <3>1. RestFits
      BY <1>1, TypesAreFits
    <3>2. ASSUME NEW m \in chat PROVE m.id # message.id
      <4>1. m.id \in 1 .. sent
        BY <3>1 DEF RestFits, ChatMessage
      <4>2. message.id = sent + 1
        BY <2>4
      <4> QED
        BY <1>1a, <4>1, <4>2
    <3> QED
      BY <2>1, <2>3, <2>4, <2>5, <3>1, <3>2 DEF RestFits
  <2>7. PanelTypes' /\ tasks'[Update] = Asleep /\ OthersWait(Update)
    BY <1>1, <2>1, <2>2, <2>6, FinishedTypes
  <2>8. session.upload # 0 /\ botSession.upload = 0
    BY <1>1, <1>2 DEF PanelIInv, SessionsFit, UploadBegins, ClearsTheLast
  <2>9. ASSUME NEW m \in chat'
        PROVE  LeftAlone(m) \/ (m.upload = session.upload /\ m.upload # botSession.upload)
    <3>1. CASE m \in chat
      BY <1>1, <3>1 DEF LeftAlone
    <3>2. CASE m = message
      BY <2>4, <2>8, <3>2
    <3> QED
      BY <2>5, <2>9, <3>1, <3>2
  <2>10. EndsUnwritten(session, excused)
    BY <1>1, <1>2, <1>4, <2>1, <2>7, <2>9 DEF EndsUnwritten
  <2> QED
    BY <2>7, <2>10, UnwrittenKeeps
<1> QED
  BY <1>3, <1>4 DEF SendFirstPanelFails

LEMMA SendFirstPanelKeeps ==
  ASSUME PanelIInv, SendFirstPanel
  PROVE  PanelIInv'
<1> DEFINE message == Message("panel", tasks[Update].session.upload)
           session == [tasks[Update].session EXCEPT !.panel = message.id]
<1>1. PanelTypes /\ Update \in Task
  BY UpdateIsTask DEF PanelIInv
<1>2. /\ chat' = chat \cup {message} /\ states' = Entries
      /\ TurnsToPrompt(Update, Remembered(StateOfChat, message.id), session)
  BY DEF SendFirstPanel
<1>3. sent \in Nat /\ sent' = sent + 1
  BY <1>1 DEF SendFirstPanel, PanelTypes
<1>4. /\ tasks[Update].pc = "send first" /\ botSession' = botSession
      /\ updates' = updates /\ crossed' = crossed /\ excused' = excused /\ lost' = lost
  BY DEF SendFirstPanel, At
<1>5. Awake(Update)
  BY <1>4 DEF Awake
<1>6. message.id = sent + 1 /\ sent + 1 \in 0 .. sent'
  BY <1>3 DEF Message
<1>7. tasks[Update].session \in SessionRecord'
  <2>1. states \in Nat /\ Grows
    BY <1>1, <1>2, <1>3, ChatEntry DEF PanelTypes
  <2>2. tasks[Update].session \in SessionRecord
    BY <1>1, <1>5, TaskKinds
  <2> QED
    BY <1>3, <2>1, <2>2, GrowingTypes
<1>8. /\ session = [tasks[Update].session EXCEPT !.panel = sent + 1]
      /\ message = NewPanel(Update)
  BY <1>6 DEF NewPanel
<1>9. TurnsToPrompt(Update, [StateOfChat EXCEPT !.panel = sent + 1], session)
  BY <1>2, <1>6 DEF Remembered
<1> HIDE DEF message
<1>10. /\ session \in SessionRecord' /\ session.prompt = tasks[Update].session.prompt
       /\ session.upload = tasks[Update].session.upload
       /\ session.stale = tasks[Update].session.stale
  BY <1>6, <1>7, SessionWithPanel
<1> HIDE DEF session
<1>11. PanelTurn(Update) /\ panelState'.panel = sent + 1
  BY <1>1, <1>2, <1>3, <1>4, <1>5, <1>6, <1>9, <1>10, TurnBegins
<1>12. lost' \in BOOLEAN
  BY <1>1, <1>4 DEF PanelTypes
<1>13. PanelSent(Update)
  BY <1>2, <1>4, <1>8, <1>11, <1>12 DEF PanelSent
<1> QED
  BY <1>1, <1>11, <1>13, PanelTurnKeeps

LEMMA NotAwake ==
  ASSUME PanelTypes, NEW t \in Task, ~Awake(t)
  PROVE  tasks[t] = Asleep
<1>1. tasks[t] \in RefreshTask => tasks[t].pc \in RefreshPc \cup PromptPc
  BY DEF RefreshTask
<1>2. tasks[t] \in ClearTask => tasks[t].pc \in ClearPc \cup PromptPc
  BY DEF ClearTask
<1>3. "asleep" \notin RefreshPc \cup PromptPc \cup ClearPc /\ tasks[t].pc = "asleep"
  BY DEF RefreshPc, PromptPc, ClearPc, Awake
<1>4. tasks[t] \in RefreshTask \cup ClearTask \cup {Asleep}
  BY DEF PanelTypes
<1> QED
  BY <1>1, <1>2, <1>3, <1>4

\* A refresh begins.
LEMMA RefreshBegins ==
  ASSUME PanelIInv, RefreshByUser \/ \E t \in Refresh : TimerFires(t)
  PROVE  PanelIInv'
<1>1. PanelTypes /\ Update \in Task /\ Refresh \subseteq Task /\ Update \notin Refresh
  BY UpdateIsTask DEF PanelIInv
<1>2. CASE RefreshByUser
  <2>1. /\ RefreshFrom(Update, botSession, FALSE) /\ RefreshPanel(Update, botSession, FALSE)
        /\ ~Awake(Update) /\ updates' = updates + 1
        /\ UNCHANGED <<chat, sent, botSession, excused, lost>>
    BY <1>2 DEF RefreshByUser, RefreshFrom, StartsUpdate, NextUpdate, At, Awake
  <2>2. updates' \in Nat /\ updates' # 0
    BY <1>1, <2>1 DEF PanelTypes
  <2> QED
    BY <1>1, <2>1, <2>2, RefreshPanelKeeps
<1>3. ASSUME NEW t \in Refresh, TimerFires(t)
      PROVE  PanelIInv'
  <2>1. RefreshFrom(t, panelState.timer, TRUE)
    BY <1>1, <1>3, EntryKinds DEF TimerFires, RefreshFrom
  <2>2. /\ RefreshPanel(t, panelState.timer, TRUE) /\ ~Awake(t)
        /\ UNCHANGED <<chat, sent, botSession, excused, lost>>
    BY <1>3 DEF TimerFires, At, Awake
  <2>3. updates' = updates /\ updates' \in Nat
    BY <1>1, <1>3 DEF TimerFires, PanelTypes
  <2> QED
    BY <1>1, <1>3, <2>1, <2>2, <2>3, RefreshPanelKeeps
<1> QED
  BY <1>2, <1>3

\* A photo schedules a refresh and deletes what is stale.
LEMMA HandlePhotoKeeps ==
  ASSUME PanelIInv, HandlePhoto
  PROVE  PanelIInv'
<1> DEFINE s == StateOfChat
<1>1. /\ PanelTypes /\ Update \in Task /\ Refresh \subseteq Task /\ Update \notin Refresh
      /\ Task = Refresh \cup {Update}
  BY UpdateIsTask DEF PanelIInv
<1>2. PICK kept \in SUBSET botSession.stale, staying \in SUBSET {m \in chat : Stale(m)} :
        /\ chat' = {m \in chat : ~Stale(m)} \cup staying
        /\ panelState' = [StateOfChat EXCEPT !.timer = [botSession EXCEPT !.stale = kept]]
        /\ Finished(Update, [botSession EXCEPT !.stale = kept],
                    excused \cup ({m.id : m \in staying} \ kept))
  BY DEF HandlePhoto
<1> DEFINE session == [botSession EXCEPT !.stale = kept]
           known == excused \cup ({m.id : m \in staying} \ kept)
<1>3. /\ states' = Entries /\ sent' = sent /\ ~Awake(Update) /\ botSession.upload # 0
      /\ crossed' = crossed /\ Finished(Update, session, known)
  BY <1>2 DEF HandlePhoto, StartsUpdate, At, Awake
<1>3c. tasks' = tasks
  <2>1. tasks[Update] = Asleep /\ tasks' = [tasks EXCEPT ![Update] = Asleep]
    BY <1>1, <1>3, NotAwake DEF Finished
  <2> QED
    BY <1>1, <2>1 DEF PanelTypes
<1>5a. /\ session \in SessionRecord /\ session.upload = botSession.upload
       /\ session.panel = botSession.panel /\ session.prompt = botSession.prompt
       /\ session.stale = kept
  <2>1. botSession \in SessionRecord /\ kept \in SUBSET (1 .. sent)
    BY <1>1 DEF PanelTypes, SessionRecord
  <2> QED
    BY <2>1 DEF SessionRecord
<1>5b. known \subseteq 1 .. sent
  <2>1. {m.id : m \in staying} \subseteq 1 .. sent
    BY <1>1 DEF PanelTypes, ChatMessage
  <2>2. excused \subseteq 1 .. sent
    BY <1>1 DEF PanelTypes
  <2> QED
    BY <2>1, <2>2
<1>2a. /\ chat' = {m \in chat : ~Stale(m)} \cup staying
       /\ panelState' = [StateOfChat EXCEPT !.timer = session]
  BY <1>2
<1>2b. known = excused \cup ({m.id : m \in staying} \ kept)
  OBVIOUS
<1> HIDE DEF session, known
<1>3a. /\ (crossed' <=> crossed) /\ crossed' \in BOOLEAN /\ lost' \in BOOLEAN /\ (lost => lost')
  <2>1. crossed \in BOOLEAN /\ lost \in BOOLEAN
    BY <1>1 DEF PanelTypes
  <2>2. lost' = lost \/ lost' = TRUE
    BY <1>3 DEF Finished, Unwritten
  <2> QED
    BY <1>3, <2>1, <2>2
<1>5. /\ botSession' \in SessionRecord /\ botSession'.upload = botSession.upload
      /\ botSession'.panel = botSession.panel /\ botSession'.prompt = botSession.prompt
      /\ botSession'.stale \in {kept, botSession.stale} /\ excused' = known
  <2>1. CASE botSession' = session /\ excused' = known
    BY <1>5a, <2>1
  <2>2. CASE Unwritten(session, known)
    <3>1. session.stale \ botSession.stale = {}
      BY <1>5a
    <3>2. {m.id : m \in {n \in chat' : n.upload = session.upload
                                     /\ n.upload # botSession.upload}} = {}
      BY <1>5a
    <3>3. excused' = known /\ botSession' = botSession
      BY <2>2, <3>1, <3>2 DEF Unwritten
    <3> QED
      BY <1>1, <3>3 DEF PanelTypes
  <2> QED
    BY <1>3, <2>1, <2>2 DEF Finished
<1>3b. updates' \in Nat /\ updates' # 0 /\ sent \in Nat /\ states \in Nat
  BY <1>1 DEF HandlePhoto, NextUpdate, PanelTypes
<1>4. /\ s \in EntryRecord' /\ s # NoState /\ Grows
      /\ HasEntry => s = panelState
      /\ ~HasEntry => s.entry = states + 1 /\ s.panel = None /\ s.prompt = None
  BY <1>1, <1>3, ChatEntry
<1>6. SessionRecord' = SessionRecord
  BY <1>3 DEF SessionRecord
<1>7. panelState' = [s EXCEPT !.timer = session]
  BY <1>2a
<1> HIDE DEF s
<1>8. /\ panelState' \in EntryRecord' /\ panelState'.panel = s.panel
      /\ panelState'.prompt = s.prompt /\ panelState'.entry = s.entry
      /\ panelState'.turn = s.turn /\ panelState'.timer = session
  BY <1>4, <1>5a, <1>6, <1>7 DEF EntryRecord
<1>9. HasEntry'
  <2>1. s.entry \in 1 .. states' /\ s.entry # 0
    BY <1>4 DEF EntryRecord
  <2> QED
    BY <1>8, <2>1 DEF HasEntry
<1>10. /\ SessionNow = botSession /\ SessionNow' = botSession'
       /\ ~Clearing /\ ~Clearing' /\ ~Awake(Update)'
  BY <1>3, <1>3c DEF SessionNow, Awake, Clearing, ClearPc
<1>11. \A u \in Task : (Awake(u)' <=> Awake(u)) /\ (Refreshing(u)' <=> Refreshing(u))
  BY <1>3c DEF Awake, Refreshing
<1>12. ASSUME NEW u \in Task, Awake(u)
       PROVE  BelongsToEntry(u)' <=> BelongsToEntry(u) /\ HasEntry
  <2>1. tasks'[u].state = tasks[u].state /\ tasks[u].state \in 0 .. states
    BY <1>1, <1>3c, <1>12, TaskKinds
  <2> QED
    BY <1>3b, <1>4, <1>8, <2>1 DEF BelongsToEntry
<1>13. PanelTypes'
  <2>1. ChatMessage' = ChatMessage /\ 1 .. sent \subseteq 1 .. sent' /\ chat' \subseteq chat
    BY <1>2a, <1>3 DEF ChatMessage
  <2>2. chat' \subseteq ChatMessage' /\ \A m, n \in chat' : m.id = n.id => m = n
    BY <1>1, <2>1 DEF PanelTypes
  <2>3. session \in SessionRecord' /\ known \in SUBSET (1 .. sent')
    BY <1>5a, <1>5b, <1>6, <2>1
  <2> QED
    BY <1>1, <1>3, <1>3b, <1>4, <1>8, <2>2, <2>3, FinishedTypes
<1>14. SessionsFit'
  <2>1. tasks'[Update].pc \notin {"clear prompt", "send first"}
    BY <1>10 DEF Awake
  <2> QED
    BY <1>3, <1>5, <1>10, <2>1 DEF SessionsFit
<1>15. EntryFits'
  <2>1. ASSUME NEW u \in Refresh, Awake(u)', BelongsToEntry(u)'
        PROVE  tasks'[u].session.upload = SessionNow'.upload \/ (lost' /\ ~Refreshing(u)')
    <3>1. u \in Task /\ Awake(u)
      BY <1>1, <1>11, <2>1
    <3>2. BelongsToEntry(u)
      BY <1>12, <2>1, <3>1
    <3>3. tasks[u].session.upload = SessionNow.upload \/ (lost /\ ~Refreshing(u))
      BY <2>1, <3>1, <3>2 DEF PanelIInv, EntryFits
    <3> QED
      BY <1>3c, <1>3a, <1>5, <1>10, <1>11, <3>1, <3>3
  <2>2. ASSUME NEW u \in Task, tasks'[u].pc \in PromptPc, BelongsToEntry(u)', panelState'.turn = u
        PROVE  panelState'.prompt = None
    <3>1. Awake(u) /\ tasks[u].pc \in PromptPc
      BY <1>3c, <2>2 DEF Awake, PromptPc
    <3>2. BelongsToEntry(u) /\ HasEntry
      BY <1>12, <2>2, <3>1
    <3> QED
      BY <1>4, <1>8, <2>2, <3>1, <3>2 DEF PanelIInv, EntryFits
  <2>3. panelState'.timer.upload = SessionNow'.upload
    BY <1>5, <1>5a, <1>8, <1>10
  <2> QED
    BY <1>10, <2>1, <2>2, <2>3 DEF EntryFits
<1>16. PanelIsSafe'
  <2> SUFFICES ASSUME s.panel # None
               PROVE  PanelIsSafe'
    BY <1>8 DEF PanelIsSafe
  <2>1. HasEntry /\ s = panelState /\ panelState'.panel = panelState.panel
    BY <1>4, <1>8
  <2>2. /\ panelState.panel \notin botSession.stale \cup SessionNow.stale
        /\ panelState.panel \notin {panelState.prompt, panelState.timer.prompt, botSession.prompt}
        /\ \A u \in Task : Awake(u) =>
             panelState.panel \notin {tasks[u].message, tasks[u].session.prompt}
    BY <2>1 DEF PanelIInv, PanelIsSafe
  <2>3. tasks'[Update].pc # "clear panel"
    BY <1>10 DEF Awake
  <2> QED
    BY <1>3c, <1>5, <1>5a, <1>8, <1>10, <1>11, <2>1, <2>2, <2>3 DEF PanelIsSafe
<1>17. \A m \in chat' : m \in chat /\ (Live(m)' => Live(m))
  BY <1>2a, <1>2b, <1>5, <1>10 DEF Live, Stale
<1>18. PanelsKnown'
  <2>1. ASSUME NEW m \in chat', m.kind = "panel", Live(m)', ~crossed'
        PROVE  \/ panelState'.panel = m.id /\ m.upload = SessionNow'.upload
               \/ \E u \in Task : tasks'[u].pc = "drop panel" /\ tasks'[u].message = m.id
               \/ tasks'[Update].pc = "clear panel" /\ tasks'[Update].message = m.id
    <3>1. m \in chat /\ Live(m)
      BY <1>17, <2>1
    <3>2. HasEntry /\ panelState.panel = m.id => panelState'.panel = m.id
      BY <1>4, <1>8
    <3> QED
      BY <1>3, <1>3c, <1>3a, <1>5, <1>10, <2>1, <3>1, <3>2 DEF PanelIInv, PanelsKnown
  <2> QED
    BY <1>9, <2>1 DEF PanelsKnown
<1>19. PromptsKnown'
  <2>1. ASSUME NEW m \in chat', m.kind = "prompt", Live(m)'
        PROVE  \/ panelState'.prompt = m.id /\ (lost' \/ m.upload = SessionNow'.upload)
               \/ \E u \in Task : tasks'[u].pc = "drop prompt" /\ tasks'[u].message = m.id
    <3>1. m \in chat /\ Live(m)
      BY <1>17, <2>1
    <3>2. HasEntry /\ panelState.prompt = m.id => panelState'.prompt = m.id
      BY <1>4, <1>8
    <3>3. tasks[Update].pc \notin {"clear panel", "clear prompt"}
      BY <1>3 DEF Awake
    <3> QED
      BY <1>3, <1>3c, <1>3a, <1>5, <1>10, <2>1, <3>1, <3>2, <3>3 DEF PanelIInv, PromptsKnown
  <2> QED
    BY <1>9, <2>1 DEF PromptsKnown
<1>20. ASSUME NEW u \in Task
       PROVE  WillSend(u)' => WillSend(u) /\ HasEntry
  <2>1. Refreshing(u)' => Refreshing(u) /\ Awake(u) /\ u # Update
    BY <1>3, <1>3c, <1>10, <1>11 DEF Refreshing, Awake
  <2>2. Refreshing(u)' /\ BelongsToEntry(u)' => BelongsToEntry(u) /\ HasEntry
    BY <1>12, <2>1
  <2> QED
    BY <2>1, <2>2 DEF WillSend
<1>21. OneRefresh'
  <2> SUFFICES ASSUME ~crossed
               PROVE  OneRefresh'
    BY <1>3a DEF OneRefresh
  <2>1. /\ \A u, v \in Task : Refreshing(u) /\ Refreshing(v) => u = v
        /\ HasEntry => \A u \in Task : WillSend(u) => panelState.panel = None
    BY DEF PanelIInv, OneRefresh
  <2>2. \A u \in Task : WillSend(u)' => panelState'.panel = None
    BY <1>4, <1>8, <1>20, <2>1
  <2> QED
    BY <1>11, <2>1, <2>2 DEF OneRefresh
<1>22. UploadShown'
  <2> SUFFICES ASSUME ~lost, SessionNow.upload # 0, \A u \in Task : ~WillSend(u)'
               PROVE  \E m \in chat' : /\ m.kind = "panel" /\ m.id = panelState'.panel
                                       /\ m.upload = SessionNow.upload
    BY <1>3a, <1>5, <1>9, <1>10 DEF UploadShown
  <2>1. ASSUME NEW u \in Task
        PROVE  ~WillSend(u)
    <3>1. CASE Refreshing(u)
      <4>1. Awake(u) /\ u # Update
        BY <1>3, <3>1 DEF Refreshing, Awake
      <4>2. ~BelongsToEntry(u)'
        BY <1>11, <3>1 DEF WillSend
      <4>3. tasks[u] \in RefreshTask
        BY <1>1, <4>1 DEF PanelTypes
      <4>4. tasks[u].state # 0
        BY <4>3 DEF RefreshTask
      <4>5. BelongsToEntry(u) => HasEntry
        BY <4>4 DEF BelongsToEntry, HasEntry
      <4> QED
        BY <1>12, <4>1, <4>2, <4>5 DEF WillSend
    <3>2. CASE ~Refreshing(u)
      BY <3>2 DEF WillSend
    <3> QED
      BY <3>1, <3>2
  <2>2. HasEntry
    BY <1>10, <2>1 DEF PanelIInv, UploadShown
  <2>3. PICK m \in chat : /\ m.kind = "panel" /\ m.id = panelState.panel
                          /\ m.upload = SessionNow.upload
    BY <1>10, <2>1 DEF PanelIInv, UploadShown
  <2>4. panelState.panel # None
    BY <1>1, <2>3 DEF PanelTypes, ChatMessage, None
  <2>5. panelState.panel \notin botSession.stale
    BY <2>2, <2>4 DEF PanelIInv, PanelIsSafe
  <2>6. m \in chat'
    BY <1>2a, <2>3, <2>5 DEF Stale
  <2> QED
    BY <1>4, <1>8, <2>2, <2>3, <2>6
<1>23. UploadBegins'
  <2>1. tasks'[Update].pc = "asleep"
    BY <1>10 DEF Awake
  <2> QED
    BY <1>10, <2>1 DEF UploadBegins, ClearsTheLast
<1> QED
  BY <1>13, <1>14, <1>15, <1>16, <1>18, <1>19, <1>21, <1>22, <1>23 DEF PanelIInv

\* Clearing: the entry is given up, and its messages are deleted one by one.
LEMMA ClearPanelKeeps ==
  ASSUME PanelIInv, NEW ends \in BOOLEAN, ClearPanel(ends)
  PROVE  PanelIInv'
<1> DEFINE panel == Known(panelState, botSession, "panel")
           prompt == Known(panelState, botSession, "prompt")
           task == [pc |-> "clear panel", session |-> botSession, expected |-> FALSE, state |-> 0,
                    message |-> panel, prompt |-> prompt, ends |-> ends]
<1>1. /\ PanelTypes /\ Update \in Task /\ Refresh \subseteq Task /\ Update \notin Refresh
      /\ sent \in Nat /\ states \in Nat
  BY UpdateIsTask DEF PanelIInv, PanelTypes
<1>2. /\ ~Awake(Update) /\ tasks' = [tasks EXCEPT ![Update] = task] /\ panelState' = NoState
      /\ chat' = chat /\ sent' = sent /\ botSession' = botSession /\ states' = states
      /\ excused' = excused /\ (ends \/ botSession.upload = 0)
  BY DEF ClearPanel, StartsUpdate, At, Awake
<1>2a. /\ (crossed' <=> crossed) /\ (lost' <=> lost)
       /\ crossed' \in BOOLEAN /\ lost' \in BOOLEAN
  BY <1>1 DEF ClearPanel, PanelTypes
<1>2b. updates' \in Nat /\ updates' # 0
  <2>1. updates' = updates + 1 /\ updates \in Nat
    BY <1>1 DEF ClearPanel, NextUpdate, PanelTypes
  <2> QED
    BY <2>1
<1>3. /\ HasEntry /\ panelState.panel # None => panel = panelState.panel
      /\ HasEntry /\ panelState.prompt # None => prompt = panelState.prompt
  BY <1>1, EntryKinds, KnownPanel
<1>4. panel \in 0 .. sent /\ prompt \in 0 .. sent /\ botSession \in SessionRecord
  <2>1. HasEntry => panelState.panel \in 0 .. sent /\ panelState.prompt \in 0 .. sent
    BY <1>1, EntryKinds DEF EntryRecord
  <2>2. botSession.panel \in 0 .. sent /\ botSession.prompt \in 0 .. sent
          /\ botSession \in SessionRecord
    BY <1>1 DEF PanelTypes, SessionRecord
  <2>3. panel = IF panelState # NoState /\ panelState.panel # None
                THEN panelState.panel ELSE botSession.panel
    BY KnownPanel
  <2>4. prompt = IF panelState # NoState /\ panelState.prompt # None
                 THEN panelState.prompt ELSE botSession.prompt
    BY KnownPanel
  <2> QED
    BY <1>1, <2>1, <2>2, <2>3, <2>4, EntryKinds
<1> HIDE DEF panel, prompt
<1>5. SessionRecord' = SessionRecord /\ ChatMessage' = ChatMessage /\ Grows
  BY <1>2 DEF SessionRecord, ChatMessage, Grows
<1>6. task \in ClearTask'
  <2>1. 0 \in 0 .. states' /\ panel \in 0 .. sent' /\ prompt \in 0 .. sent'
    <3>1. sent' = sent /\ states' = states
      BY <1>2
    <3>2. states \in Nat
      BY <1>1
    <3> QED
      BY <1>4, <3>1, <3>2
  <2> QED
    BY <1>4, <1>5, <2>1 DEF ClearTask, ClearPc
<1>7. /\ tasks'[Update] = task /\ OthersWait(Update)
           /\ tasks' = [tasks EXCEPT ![Update] = tasks'[Update]]
      /\ tasks'[Update].pc = "clear panel" /\ tasks'[Update].session = botSession
      /\ tasks'[Update].message = panel /\ tasks'[Update].prompt = prompt
      /\ tasks'[Update].state = 0 /\ tasks'[Update].ends = ends
  BY <1>1, <1>2 DEF PanelTypes, OthersWait
<1> HIDE DEF task
<1>8. SessionNow = botSession /\ SessionNow' = botSession /\ Clearing' /\ ~HasEntry'
  BY <1>2, <1>7 DEF SessionNow, Awake, Clearing, ClearPc, HasEntry, NoState
<1>9. PanelTypes'
  <2>1. RestFits
    BY <1>1, TypesAreFits
  <2>2. RestFits'
    BY <1>2, <1>2a, <1>2b, <1>5, <2>1 DEF RestFits
  <2>3. TaskFits(Update)'
    BY <1>1, <1>6, <1>7 DEF TaskFits, Refreshing, PromptPc
  <2> QED
    BY <1>1, <1>5, <1>7, <2>2, <2>3, TypesKept
<1>10. SessionsFit'
  BY <1>2, <1>2b, <1>7 DEF PanelIInv, SessionsFit
<1>11. ASSUME NEW u \in Task \ {Update}
       PROVE  /\ tasks'[u] = tasks[u] /\ (Awake(u)' <=> Awake(u))
              /\ (Refreshing(u)' <=> Refreshing(u))
  BY <1>7 DEF OthersWait, Awake, Refreshing
<1>12. ASSUME NEW u \in Refresh, Awake(u)'
       PROVE  ~BelongsToEntry(u)'
  <2>1. u \in Task \ {Update} /\ Awake(u)
    BY <1>1, <1>11, <1>12
  <2>2. tasks'[u] = tasks[u] /\ tasks[u] \in RefreshTask
    BY <1>1, <1>11, <1>12, <2>1 DEF PanelTypes
  <2>3. tasks'[u].state # 0
    BY <2>2 DEF RefreshTask
  <2> QED
    BY <1>2, <2>3 DEF BelongsToEntry, NoState
<1>13. EntryFits'
  <2>1. \A u \in Refresh : Refreshing(u)' => ~BelongsToEntry(u)'
    BY <1>12 DEF Refreshing, Awake
  <2>2. \A u \in Task : tasks'[u].pc \in PromptPc => ~BelongsToEntry(u)'
    <3>1. ASSUME NEW u \in Task, tasks'[u].pc \in PromptPc
          PROVE  u \in Refresh /\ Awake(u)'
      BY <1>7, <3>1 DEF Task, PromptPc, Awake
    <3> QED
      BY <1>12, <3>1
  <2> QED
    BY <1>8, <1>12, <2>1, <2>2 DEF EntryFits
<1>14. PanelIsSafe'
  BY <1>8 DEF PanelIsSafe
<1>15. \A m \in chat : (Live(m)' => Live(m)) /\ m.id # None
  BY <1>1, <1>2, <1>8 DEF Live, PanelTypes, ChatMessage, None
<1>16. \A u \in Task : Awake(u) => tasks'[u] = tasks[u]
  BY <1>2, <1>11
<1>17. PanelsKnown'
  <2>1. ASSUME NEW m \in chat, m.kind = "panel", Live(m), ~crossed, m.id # None
        PROVE  \/ \E u \in Task : tasks'[u].pc = "drop panel" /\ tasks'[u].message = m.id
               \/ tasks'[Update].message = m.id
    <3>1. CASE HasEntry /\ panelState.panel = m.id
      BY <1>3, <1>7, <2>1, <3>1
    <3>2. \A u \in Task : tasks[u].pc = "drop panel" => tasks'[u] = tasks[u]
      BY <1>16 DEF Awake
    <3>3. tasks[Update].pc # "clear panel"
      BY <1>2 DEF Awake
    <3> QED
      BY <2>1, <3>1, <3>2, <3>3 DEF PanelIInv, PanelsKnown
  <2> QED
    BY <1>2, <1>2a, <1>7, <1>15, <2>1 DEF PanelsKnown
<1>18. PromptsKnown'
  <2>1. ASSUME NEW m \in chat, m.kind = "prompt", Live(m), m.id # None
        PROVE  \/ \E u \in Task : tasks'[u].pc = "drop prompt" /\ tasks'[u].message = m.id
               \/ tasks'[Update].prompt = m.id
    <3>1. CASE HasEntry /\ panelState.prompt = m.id
      BY <1>3, <1>7, <2>1, <3>1
    <3>2. \A u \in Task : tasks[u].pc = "drop prompt" => tasks'[u] = tasks[u]
      BY <1>16 DEF Awake
    <3>3. tasks[Update].pc \notin {"clear panel", "clear prompt"}
      BY <1>2 DEF Awake
    <3> QED
      BY <2>1, <3>1, <3>2, <3>3 DEF PanelIInv, PromptsKnown
  <2> QED
    BY <1>2, <1>7, <1>15, <2>1 DEF PromptsKnown
<1>19. OneRefresh'
  <2>1. ~Refreshing(Update)'
    BY <1>7 DEF Refreshing
  <2> QED
    BY <1>2a, <1>8, <1>11, <2>1 DEF PanelIInv, OneRefresh
<1>20. UploadShown'
  BY <1>8 DEF UploadShown
<1>21. UploadBegins'
  <2>1. tasks'[Update].ends \/ botSession'.upload = 0
    BY <1>2, <1>7
  <2>2. botSession' = botSession /\ SessionNow' = botSession
    BY <1>2, <1>8
  <2> QED
    BY <1>7, <2>1, <2>2 DEF UploadBegins, ClearsTheLast
<1> QED
  BY <1>9, <1>10, <1>13, <1>14, <1>17, <1>18, <1>19, <1>20, <1>21 DEF PanelIInv

\* What both steps of clearing have in common: the message of the handler is
\* given up, and the entry that may be there has no panel.
ClearStep(id) ==
  /\ Clearing /\ tasks[Update].pc # "send first" /\ OthersWait(Update) /\ PanelTypes'
  /\ SessionsFit' /\ ClearsTheLast'
  /\ id = tasks[Update].message /\ Dropped(id)
  /\ panelState' = panelState /\ (lost' <=> lost) /\ (crossed' <=> crossed)
  /\ tasks'[Update].pc \in {"clear prompt", "send first", "asleep"}
  /\ ~Clearing' => SessionNow'.upload = 0
  /\ tasks[Update].pc = "clear panel" =>
       tasks'[Update].pc = "clear prompt" /\ tasks'[Update].message = tasks[Update].prompt

LEMMA ClearStepKeeps ==
  ASSUME PanelIInv, NEW id, ClearStep(id)
  PROVE  PanelIInv'
<1>1. /\ PanelTypes /\ Update \in Task /\ Refresh \subseteq Task /\ Update \notin Refresh
      /\ Task = Refresh \cup {Update}
  BY UpdateIsTask DEF PanelIInv
<1>2. /\ Clearing /\ panelState' = panelState /\ (HasEntry' <=> HasEntry)
      /\ (lost' <=> lost) /\ (crossed' <=> crossed)
      /\ tasks'[Update].pc \in {"clear prompt", "send first", "asleep"}
      /\ tasks[Update].pc \in {"clear panel", "clear prompt"}
  BY DEF ClearStep, HasEntry, Clearing, ClearPc
<1>3. HasEntry => lost /\ panelState.panel = None /\ panelState.timer = NoUpload
  BY <1>2 DEF PanelIInv, EntryFits
<1>4. ASSUME NEW u \in Refresh
      PROVE  /\ u \in Task /\ tasks'[u] = tasks[u] /\ (Awake(u)' <=> Awake(u))
             /\ (Refreshing(u)' <=> Refreshing(u)) /\ (BelongsToEntry(u)' <=> BelongsToEntry(u))
             /\ Refreshing(u) => ~BelongsToEntry(u)
  <2>1. u \in Task \ {Update}
    BY <1>1
  <2>2. tasks'[u] = tasks[u]
    BY <2>1 DEF ClearStep, OthersWait
  <2> QED
    BY <1>2, <2>1, <2>2 DEF Awake, Refreshing, BelongsToEntry, PanelIInv, EntryFits
<1>5. ASSUME NEW u \in Refresh, Awake(u), BelongsToEntry(u)
      PROVE  HasEntry
  <2>1. tasks[u] \in RefreshTask
    BY <1>1, <1>5 DEF PanelTypes
  <2>2. tasks[u].state # 0
    BY <2>1 DEF RefreshTask
  <2> QED
    BY <1>5, <2>2 DEF BelongsToEntry, HasEntry
<1>6. ~Refreshing(Update)' /\ tasks'[Update].pc \notin PromptPc
  BY <1>2 DEF Refreshing, PromptPc
<1>7. EntryFits'
  <2>1. ASSUME NEW u \in Refresh, Awake(u)', BelongsToEntry(u)'
        PROVE  lost' /\ ~Refreshing(u)'
    BY <1>2, <1>3, <1>4, <1>5, <2>1
  <2>2. ASSUME NEW u \in Task, tasks'[u].pc \in PromptPc, BelongsToEntry(u)', panelState'.turn = u
        PROVE  panelState'.prompt = None
    <3>1. u \in Refresh
      BY <1>1, <1>6, <2>2
    <3>2. tasks[u].pc \in PromptPc /\ BelongsToEntry(u)
      BY <1>4, <2>2, <3>1
    <3> QED
      BY <1>1, <1>2, <2>2, <3>1, <3>2 DEF PanelIInv, EntryFits
  <2>3. HasEntry' => lost' /\ panelState'.panel = None /\ panelState'.timer = NoUpload
    BY <1>2, <1>3
  <2>4. \A u \in Refresh : Refreshing(u)' => ~BelongsToEntry(u)'
    BY <1>4
  <2> QED
    BY <2>1, <2>2, <2>3, <2>4 DEF EntryFits
<1>8. PanelIsSafe'
  BY <1>2, <1>3 DEF PanelIsSafe
<1>9. ASSUME NEW m \in chat', Live(m)'
      PROVE  m \in chat /\ Live(m) /\ m.id # id /\ m.id # None
  <2>1. m \in chat /\ Live(m) /\ m.id # id
    BY <1>9 DEF ClearStep, Dropped
  <2> QED
    BY <1>1, <2>1 DEF PanelTypes, ChatMessage, None
<1>10. \A u \in Task : tasks[u].pc \in {"drop panel", "drop prompt"} => tasks'[u] = tasks[u]
  <2>1. tasks[Update].pc \notin {"drop panel", "drop prompt"}
    BY <1>2
  <2> QED
    BY <1>1, <1>4, <2>1
<1>11. PanelsKnown'
  <2>1. ASSUME NEW m \in chat', m.kind = "panel", Live(m)', ~crossed'
        PROVE  \E u \in Task : tasks'[u].pc = "drop panel" /\ tasks'[u].message = m.id
    <3>1. m \in chat /\ Live(m) /\ m.id # id /\ m.id # None
      BY <1>9, <2>1
    <3>2. tasks[Update].message = id
      BY DEF ClearStep
    <3>3. \E u \in Task : tasks[u].pc = "drop panel" /\ tasks[u].message = m.id
      BY <1>2, <1>3, <2>1, <3>1, <3>2 DEF PanelIInv, PanelsKnown
    <3> QED
      BY <1>10, <3>3
  <2> QED
    BY <2>1 DEF PanelsKnown
<1>12. PromptsKnown'
  <2>1. ASSUME NEW m \in chat', m.kind = "prompt", Live(m)'
        PROVE  \/ HasEntry' /\ panelState'.prompt = m.id /\ lost'
               \/ \E u \in Task : tasks'[u].pc = "drop prompt" /\ tasks'[u].message = m.id
               \/ tasks'[Update].pc = "clear prompt" /\ tasks'[Update].message = m.id
    <3>1. m \in chat /\ Live(m) /\ m.id # id
      BY <1>9, <2>1
    <3>2. CASE HasEntry /\ panelState.prompt = m.id
      BY <1>2, <1>3, <3>2
    <3>3. CASE \E u \in Task : tasks[u].pc = "drop prompt" /\ tasks[u].message = m.id
      BY <1>10, <3>3
    <3>4. CASE tasks[Update].pc = "clear panel" /\ tasks[Update].prompt = m.id
      BY <3>4 DEF ClearStep
    <3>5. ~(tasks[Update].pc = "clear prompt" /\ tasks[Update].message = m.id)
      BY <3>1 DEF ClearStep
    <3> QED
      BY <2>1, <3>1, <3>2, <3>3, <3>4, <3>5 DEF PanelIInv, PromptsKnown
  <2> QED
    BY <2>1 DEF PromptsKnown
<1>13. OneRefresh'
  <2>1. \A u, v \in Task : ~crossed' /\ Refreshing(u)' /\ Refreshing(v)' => u = v
    BY <1>1, <1>2, <1>4, <1>6 DEF PanelIInv, OneRefresh
  <2>2. HasEntry' => panelState'.panel = None
    BY <1>2, <1>3
  <2> QED
    BY <2>1, <2>2 DEF OneRefresh
<1>14. UploadShown'
  BY DEF ClearStep, UploadShown
<1>15. UploadBegins'
  <2>1. \A u \in Refresh : Refreshing(u)' => ~BelongsToEntry(u)'
    BY <1>4
  <2> QED
    BY <1>2, <1>3, <2>1 DEF ClearStep, UploadBegins
<1> QED
  BY <1>7, <1>8, <1>11, <1>12, <1>13, <1>14, <1>15 DEF PanelIInv, ClearStep

LEMMA ClearingTask ==
  ASSUME PanelTypes, Clearing
  PROVE  /\ Awake(Update) /\ tasks[Update] \in ClearTask /\ SessionNow = tasks[Update].session
         /\ tasks[Update].session \in SessionRecord /\ tasks[Update].message \in 0 .. sent
         /\ tasks[Update].prompt \in 0 .. sent
<1>1. Awake(Update) /\ tasks[Update] \in ClearTask
  BY DEF Clearing, ClearPc, Awake, PanelTypes
<1> QED
  BY <1>1 DEF SessionNow, ClearTask

LEMMA DropClearedPanelKeeps ==
  ASSUME PanelIInv, DropClearedPanel
  PROVE  PanelIInv'
<1> DEFINE t == tasks[Update]
           id == t.message
<1>1. /\ PanelTypes /\ Update \in Task /\ t.pc = "clear panel" /\ Clearing
      /\ sent' = sent /\ botSession' = botSession /\ panelState' = panelState /\ states' = states
      /\ updates' = updates
  BY UpdateIsTask DEF PanelIInv, DropClearedPanel, At, Clearing, ClearPc
<1>1a. /\ (crossed' <=> crossed) /\ (lost' <=> lost) /\ crossed' \in BOOLEAN
       /\ lost' \in BOOLEAN
  BY <1>1 DEF DropClearedPanel, PanelTypes
<1>1b. sent \in Nat /\ states \in Nat
  BY <1>1 DEF PanelTypes
<1>2. PICK outcome \in Outcome :
        /\ Fits(outcome, id)
        /\ chat' = WithoutMessage(id, outcome)
        /\ excused' = ExcusedBy(Update, id, outcome)
        /\ tasks' = [tasks EXCEPT ![Update] =
             [t EXCEPT !.pc = "clear prompt", !.message = t.prompt,
                       !.session = ClearedSession(Delete(@, id, outcome))]]
  BY DEF DropClearedPanel
<1>3. /\ t \in ClearTask /\ SessionNow = t.session /\ t.session \in SessionRecord
      /\ id \in 0 .. sent /\ t.prompt \in 0 .. sent
  BY <1>1, ClearingTask
<1>4. SessionRecord' = SessionRecord /\ ChatMessage' = ChatMessage /\ EntryRecord' = EntryRecord
        /\ Grows
  BY <1>1 DEF SessionRecord, ChatMessage, EntryRecord, Grows
<1> DEFINE dropped == Delete(t.session, id, outcome)
           session == ClearedSession(dropped)
<1>5. dropped \in SessionRecord /\ SessionAfterDelete(dropped, t.session, id, outcome)
  BY <1>1b, <1>2, <1>3, DeleteFacts, SessionBounds
<1> HIDE DEF dropped
<1>6. /\ session \in SessionRecord /\ session.stale = dropped.stale
      /\ session.upload = t.session.upload
      /\ session.panel = None /\ session.prompt = None
  <2>1. None \in 0 .. sent
    BY <1>1b DEF None
  <2> QED
    BY <1>5, <2>1 DEF ClearedSession, SessionRecord, SessionAfterDelete
<1>7. tasks' = [tasks EXCEPT ![Update] =
        [t EXCEPT !.pc = "clear prompt", !.message = t.prompt, !.session = session]]
  BY <1>2 DEF dropped
<1> HIDE DEF session
<1>8. /\ tasks'[Update].pc = "clear prompt" /\ tasks'[Update].message = t.prompt
      /\ tasks'[Update].session = session /\ tasks'[Update] \in ClearTask'
      /\ tasks'[Update].ends = t.ends
      /\ OthersWait(Update) /\ tasks' = [tasks EXCEPT ![Update] = tasks'[Update]]
  <2> DEFINE task == [t EXCEPT !.pc = "clear prompt", !.message = t.prompt, !.session = session]
  <2>1. ClearTask' = ClearTask
    BY <1>1, <1>4 DEF ClearTask
  <2>2. /\ task \in ClearTask /\ task.pc = "clear prompt" /\ task.message = t.prompt
        /\ task.session = session /\ task.ends = t.ends
    BY <1>3, <1>6 DEF ClearTask, ClearPc
  <2>3. tasks' = [tasks EXCEPT ![Update] = task]
    BY <1>7
  <2> HIDE DEF task
  <2>4. tasks'[Update] = task /\ OthersWait(Update)
          /\ tasks' = [tasks EXCEPT ![Update] = tasks'[Update]]
    BY <1>1, <2>3 DEF PanelTypes, OthersWait
  <2> QED
    BY <2>1, <2>2, <2>4
<1>9. SessionNow' = session /\ Clearing'
  BY <1>8 DEF SessionNow, Awake, Clearing, ClearPc
<1>10. Dropped(id)
  <2>1. StaleAfter(Update, id, outcome)
    BY <1>2, <1>3, <1>5, <1>6, <1>9 DEF StaleAfter, SessionAfterDelete
  <2> QED
    BY <1>1, <1>2, <1>3, <2>1, DropFacts
<1>11. PanelTypes'
  <2>1. RestFits
    BY <1>1, TypesAreFits
  <2>2. chat' \subseteq chat
    BY <1>2 DEF WithoutMessage
  <2>3. RestFits'
    BY <1>1, <1>1a, <1>4, <1>10, <2>1, <2>2 DEF RestFits, Dropped
  <2>4. TaskFits(Update)'
    BY <1>1, <1>8, UpdateIsTask DEF TaskFits, Refreshing, PromptPc
  <2> QED
    BY <1>1, <1>4, <1>8, <2>3, <2>4, TypesKept
<1>12. SessionsFit'
  <2>1. updates # 0
    BY <1>1, ClearingTask DEF PanelIInv, SessionsFit
  <2> QED
    BY <1>1, <1>6, <1>8, <2>1 DEF PanelIInv, SessionsFit
<1>13. ClearsTheLast'
  BY <1>1, <1>6, <1>8 DEF PanelIInv, UploadBegins, ClearsTheLast
<1>14. ClearStep(id)
  BY <1>1, <1>1a, <1>8, <1>9, <1>10, <1>11, <1>12, <1>13 DEF ClearStep
<1> QED
  BY <1>14, ClearStepKeeps

LEMMA DropClearedPromptKeeps ==
  ASSUME PanelIInv, DropClearedPrompt
  PROVE  PanelIInv'
<1> DEFINE t == tasks[Update]
           id == t.message
<1>1. /\ PanelTypes /\ Update \in Task /\ t.pc = "clear prompt" /\ Clearing
      /\ sent' = sent /\ panelState' = panelState /\ states' = states /\ updates' = updates
  BY UpdateIsTask DEF PanelIInv, DropClearedPrompt, At, Clearing, ClearPc
<1>1a. crossed' = crossed
  BY DEF DropClearedPrompt
<1>1b. sent \in Nat /\ states \in Nat /\ updates \in Nat /\ updates # 0
  BY <1>1, ClearingTask DEF PanelIInv, PanelTypes, SessionsFit
<1>2. PICK outcome \in Outcome :
        LET session == Delete(t.session, id, outcome)
            known == ExcusedBy(Update, id, outcome) IN
        /\ Fits(outcome, id)
        /\ chat' = WithoutMessage(id, outcome)
        /\ \/ t.ends /\ Finished(Update, [session EXCEPT !.upload = 0], known)
           \/ /\ ~t.ends
              /\ tasks' = [tasks EXCEPT ![Update].pc = "send first",
                             ![Update].session = [session EXCEPT !.upload = updates]]
              /\ excused' = known
              /\ UNCHANGED <<botSession, lost>>
           \/ /\ ~t.ends
              /\ tasks' = [tasks EXCEPT ![Update] = Asleep]
              /\ Unwritten(session, known)
  BY DEF DropClearedPrompt
<1>3. /\ t \in ClearTask /\ SessionNow = t.session /\ t.session \in SessionRecord
      /\ id \in 0 .. sent /\ t.session.panel = None /\ t.session.prompt = None
  BY <1>1, ClearingTask DEF PanelIInv, SessionsFit
<1>4. SessionRecord' = SessionRecord /\ ChatMessage' = ChatMessage /\ EntryRecord' = EntryRecord
        /\ Grows
  BY <1>1 DEF SessionRecord, ChatMessage, EntryRecord, Grows
<1> DEFINE dropped == Delete(t.session, id, outcome)
           known == ExcusedBy(Update, id, outcome)
           ended == [dropped EXCEPT !.upload = 0]
           begun == [dropped EXCEPT !.upload = updates]
<1>5. dropped \in SessionRecord /\ SessionAfterDelete(dropped, t.session, id, outcome)
  BY <1>1b, <1>2, <1>3, DeleteFacts, SessionBounds
<1>5a. Fits(outcome, id) /\ chat' = WithoutMessage(id, outcome)
  BY <1>2
<1>5b. \/ t.ends /\ Finished(Update, ended, known)
       \/ /\ ~t.ends
          /\ tasks' = [tasks EXCEPT ![Update].pc = "send first", ![Update].session = begun]
          /\ excused' = known /\ botSession' = botSession /\ lost' = lost
       \/ /\ ~t.ends
          /\ tasks' = [tasks EXCEPT ![Update] = Asleep] /\ Unwritten(dropped, known)
  BY <1>2
<1>5c. /\ excused \subseteq known /\ known \subseteq 1 .. sent
       /\ outcome.stays => id \in known \/ outcome.remembered
  <2>1. excused \subseteq 1 .. sent
    BY <1>1 DEF PanelTypes
  <2> HIDE DEF id
  <2> QED
    BY <1>1b, <1>3, <1>5a, <2>1, ExcusedFacts
<1>5d. known = ExcusedBy(Update, id, outcome)
  OBVIOUS
<1> HIDE DEF dropped, known
<1>6. /\ ended \in SessionRecord /\ ended.stale = dropped.stale /\ ended.upload = 0
      /\ ended.panel = dropped.panel /\ ended.prompt = dropped.prompt
      /\ begun \in SessionRecord /\ begun.stale = dropped.stale /\ begun.upload = updates
      /\ begun.panel = dropped.panel /\ begun.prompt = dropped.prompt
  BY <1>1b, <1>5 DEF SessionRecord
<1>7. dropped.panel = None /\ dropped.prompt = None
  BY <1>3, <1>5 DEF SessionAfterDelete
<1> HIDE DEF ended, begun
<1>u. ASSUME NEW session \in {ended, dropped}, Finished(Update, session, known),
             Unwritten(session, known)
      PROVE  PanelIInv'
  <2>1. /\ session \in SessionRecord' /\ known \in SUBSET (1 .. sent')
        /\ chat' \subseteq chat
    BY <1>1, <1>4, <1>5, <1>5a, <1>5c, <1>6 DEF WithoutMessage
  <2>2. /\ chat' \subseteq ChatMessage' /\ \A m, n \in chat' : m.id = n.id => m = n
        /\ panelState' \in EntryRecord' \cup {NoState} /\ updates' \in Nat
    BY <1>1, <1>4, <2>1 DEF PanelTypes
  <2>3. PanelTypes' /\ tasks'[Update] = Asleep /\ OthersWait(Update)
    BY <1>1, <1>1a, <1>4, <1>u, <2>1, <2>2, FinishedTypes
  <2>4. SessionNow.upload = botSession.upload
    BY <1>1, <1>3 DEF PanelIInv, UploadBegins, ClearsTheLast
  <2>5. session.stale = IF outcome.remembered THEN t.session.stale \cup {id} ELSE t.session.stale
    BY <1>5, <1>6 DEF SessionAfterDelete
  <2>6. ASSUME NEW m \in chat'
        PROVE  m.id \in known \cup session.stale \/ LeftAlone(m)
    <3>1. CASE m.id = id
      BY <1>5a, <1>5c, <2>5, <2>6, <3>1 DEF WithoutMessage
    <3>2. CASE m.id # id
      BY <2>1, <2>6, <3>2 DEF LeftAlone
    <3> QED
      BY <3>1, <3>2
  <2>7. Awake(Update) /\ SessionNow.stale \subseteq session.stale
    BY <1>1, <1>3, <2>5, ClearingTask
  <2>8. EndsUnwritten(session, known)
    BY <1>1, <1>1a, <1>5c, <1>u, <2>3, <2>4, <2>6, <2>7 DEF EndsUnwritten
  <2> QED
    BY <2>3, <2>8, UnwrittenKeeps
<1>v. CASE /\ ~t.ends
           /\ tasks' = [tasks EXCEPT ![Update] = Asleep] /\ Unwritten(dropped, known)
  BY <1>u, <1>v DEF Finished
<1>w. CASE t.ends /\ Finished(Update, ended, known) /\ Unwritten(ended, known)
  BY <1>u, <1>w
<1> SUFFICES ASSUME /\ t.ends => tasks' = [tasks EXCEPT ![Update] = Asleep] /\ botSession' = ended
                    /\ ~t.ends => /\ tasks' = [tasks EXCEPT ![Update].pc = "send first",
                                                            ![Update].session = begun]
                                  /\ botSession' = botSession
                    /\ excused' = known /\ lost' = lost
             PROVE  PanelIInv'
  BY <1>5b, <1>v, <1>w DEF Finished
<1>7a. /\ (crossed' <=> crossed) /\ (lost' <=> lost)
       /\ crossed' \in BOOLEAN /\ lost' \in BOOLEAN
  BY <1>1, <1>1a DEF PanelTypes
<1>7b. /\ t.ends => tasks' = [tasks EXCEPT ![Update] = Asleep] /\ botSession' = ended
       /\ ~t.ends => /\ tasks' = [tasks EXCEPT ![Update].pc = "send first",
                                               ![Update].session = begun]
                     /\ botSession' = botSession
       /\ excused' = known
  OBVIOUS
<1> DEFINE Cleared ==
      /\ OthersWait(Update) /\ tasks' = [tasks EXCEPT ![Update] = tasks'[Update]]
      /\ TaskFits(Update)' /\ botSession' \in SessionRecord /\ SessionsFit'
      /\ tasks'[Update].pc \in {"send first", "asleep"} /\ SessionNow'.stale = dropped.stale
      /\ ~Clearing' => SessionNow'.upload = 0
      /\ ClearsTheLast'
<1>8. ASSUME t.ends PROVE Cleared
  <2>1. tasks'[Update] = Asleep /\ OthersWait(Update)
          /\ tasks' = [tasks EXCEPT ![Update] = tasks'[Update]]
    BY <1>1, <1>7b, <1>8 DEF PanelTypes, OthersWait
  <2>2. TaskFits(Update)' /\ ~Awake(Update)'
    BY <2>1, AsleepFits
  <2>3. botSession' = ended /\ SessionNow' = ended
    BY <1>7b, <1>8, <2>2 DEF SessionNow
  <2>4. tasks'[Update].pc = "asleep"
    BY <2>2 DEF Awake
  <2>5. SessionsFit'
    BY <1>6, <1>7, <2>3, <2>4 DEF SessionsFit, Awake
  <2>6. ClearsTheLast'
    BY <2>4 DEF ClearsTheLast
  <2> QED
    BY <1>6, <2>1, <2>2, <2>3, <2>4, <2>5, <2>6
<1>9. ASSUME ~t.ends PROVE Cleared
  <2> DEFINE task == [t EXCEPT !.pc = "send first", !.session = begun]
  <2>1. ClearTask' = ClearTask
    BY <1>1, <1>4 DEF ClearTask
  <2>2. task \in ClearTask /\ task.pc = "send first" /\ task.session = begun
    BY <1>3, <1>6 DEF ClearTask, ClearPc
  <2>3. tasks' = [tasks EXCEPT ![Update] = task] /\ botSession' = botSession
    BY <1>7b, <1>9
  <2> HIDE DEF task
  <2>4. tasks'[Update] = task /\ OthersWait(Update)
          /\ tasks' = [tasks EXCEPT ![Update] = tasks'[Update]]
    BY <1>1, <2>3 DEF PanelTypes, OthersWait
  <2>5. TaskFits(Update)'
    BY <1>1, <2>1, <2>2, <2>4, UpdateIsTask DEF TaskFits, Refreshing, PromptPc
  <2>6. SessionNow' = begun /\ Clearing'
    BY <2>2, <2>4 DEF SessionNow, Awake, Clearing, ClearPc
  <2>7. SessionsFit'
    BY <1>1, <1>1b, <1>6, <1>7, <2>2, <2>3, <2>4 DEF PanelIInv, SessionsFit
  <2>8. ClearsTheLast'
    BY <1>1, <1>9, <2>2, <2>3, <2>4 DEF PanelIInv, UploadBegins, ClearsTheLast
  <2> QED
    BY <1>1, <1>6, <2>2, <2>3, <2>4, <2>5, <2>6, <2>7, <2>8 DEF PanelTypes
<1>10. Cleared
  BY <1>8, <1>9
<1> HIDE DEF Cleared
<1>11. Dropped(id)
  <2>1. StaleAfter(Update, id, outcome)
    BY <1>3, <1>5, <1>5a, <1>10 DEF Cleared, StaleAfter, SessionAfterDelete
  <2>2. excused' = ExcusedBy(Update, id, outcome)
    BY <1>5d, <1>7b
  <2> QED
    BY <1>1, <1>3, <1>5a, <2>1, <2>2, DropFacts
<1>12. PanelTypes'
  <2>1. RestFits
    BY <1>1, TypesAreFits
  <2>2. chat' \subseteq chat
    BY <1>5a DEF WithoutMessage
  <2>3. RestFits'
    BY <1>1, <1>4, <1>7a, <1>10, <1>11, <2>1, <2>2 DEF Cleared, RestFits, Dropped
  <2> QED
    BY <1>1, <1>4, <1>10, <2>3, TypesKept DEF Cleared
<1>13. ClearStep(id)
  BY <1>1, <1>7a, <1>10, <1>11, <1>12 DEF Cleared, ClearStep
<1> QED
  BY <1>13, ClearStepKeeps

LEMMA BotRestartsKeeps ==
  ASSUME PanelIInv, BotRestarts
  PROVE  PanelIInv'
<1>1. /\ PanelTypes /\ Update \in Task /\ Refresh \subseteq Task
  BY UpdateIsTask DEF PanelIInv
<1>2. /\ panelState' = NoState /\ tasks' = [t \in Task |-> Asleep] /\ lost' = TRUE
      /\ excused' = excused \cup {m.id : m \in chat}
      /\ chat' = chat /\ sent' = sent /\ botSession' = botSession /\ states' = states
      /\ updates' = updates /\ crossed' = crossed
  BY DEF BotRestarts
<1>3. \A t \in Task : tasks'[t] = Asleep /\ tasks'[t].pc = "asleep"
  BY <1>2 DEF Asleep
<1>4. ~HasEntry'
  BY <1>2 DEF HasEntry, NoState
<1>5. \A t \in Task : ~Awake(t)' /\ ~Refreshing(t)' /\ ~WillSend(t)'
  BY <1>3 DEF Awake, Refreshing, WillSend
<1>6. \A m \in chat' : ~Live(m)'
  BY <1>2 DEF Live
<1>7. PanelTypes'
  <2>1. SessionRecord' = SessionRecord /\ ChatMessage' = ChatMessage
    BY <1>2 DEF SessionRecord, ChatMessage
  <2>2. \A m \in chat : m.id \in 1 .. sent
    BY <1>1 DEF PanelTypes, ChatMessage
  <2>3. excused' \subseteq 1 .. sent'
    <3>1. excused \subseteq 1 .. sent
      BY <1>1 DEF PanelTypes
    <3> QED
      BY <1>2, <2>2, <3>1
  <2>4. RestFits'
    BY <1>1, <1>2, <2>1, <2>3, TypesAreFits DEF RestFits
  <2>5. tasks' \in [Task -> RefreshTask' \cup ClearTask' \cup {Asleep}]
    BY <1>2
  <2>6. sent' \in Nat /\ states' \in Nat
    BY <1>1, <1>2 DEF PanelTypes
  <2> QED
    BY <1>1, <1>3, <1>5, <2>4, <2>5, <2>6 DEF RestFits, PanelTypes, ClearPc, PromptPc
<1>8. SessionsFit'
  BY <1>1, <1>2, <1>3, <1>5 DEF PanelIInv, SessionsFit
<1>9. EntryFits'
  BY <1>1, <1>3, <1>4, <1>5 DEF EntryFits, PromptPc, Clearing, ClearPc
<1>10. UploadBegins'
  BY <1>1, <1>2, <1>3, <1>5 DEF UploadBegins, ClearsTheLast, SessionNow
<1> QED
  BY <1>2, <1>4, <1>5, <1>6, <1>7, <1>8, <1>9, <1>10
  DEF PanelIInv, PanelIsSafe, PanelsKnown, OneRefresh, PromptsKnown, UploadShown

LEMMA PanelStart ==
  ASSUME PanelInit
  PROVE  PanelIInv
<1>1. /\ chat = {} /\ sent = 0 /\ botSession = NoUpload /\ panelState = NoState /\ states = 0
      /\ updates = 0 /\ excused = {} /\ crossed = FALSE /\ lost = FALSE
      /\ tasks = [t \in Task |-> Asleep]
  BY DEF PanelInit
<1>2. \A t \in Task : tasks[t] = Asleep /\ tasks[t].pc = "asleep"
  BY <1>1 DEF Asleep
<1>3. \A t \in Task : ~Awake(t) /\ ~Refreshing(t)
  BY <1>2 DEF Awake, Refreshing
<1>4. Update \in Task /\ Refresh \subseteq Task
  BY DEF Task
<1>5. NoUpload \in SessionRecord
  BY <1>1, NewSession
<1>6. PanelTypes
  BY <1>1, <1>2, <1>3, <1>4, <1>5 DEF PanelTypes, ClearPc, PromptPc
<1>7. SessionsFit
  BY <1>1, <1>2, <1>3, <1>4 DEF SessionsFit, NoUpload
<1>8. ~HasEntry
  BY <1>1 DEF HasEntry, NoState
<1>9. EntryFits
  BY <1>2, <1>3, <1>4, <1>8 DEF EntryFits, PromptPc, Clearing, ClearPc
<1>10. SessionNow.upload = 0
  BY <1>1, <1>3, <1>4 DEF SessionNow, NoUpload
<1>11. UploadBegins
  BY <1>2, <1>3, <1>4 DEF UploadBegins, ClearsTheLast, SessionNow
<1> QED
  BY <1>1, <1>3, <1>6, <1>7, <1>8, <1>9, <1>10, <1>11
  DEF PanelIInv, PanelIsSafe, PanelsKnown, OneRefresh, PromptsKnown, UploadShown

LEMMA PanelStep ==
  ASSUME PanelIInv, PanelNext
  PROVE  PanelIInv'
<1>1. ASSUME NEW t \in Task,
             \/ DropPanel(t) \/ SendPanel(t) \/ SendPanelFails(t)
             \/ DropPrompt(t) \/ SendPrompt(t) \/ SendPromptFails(t)
      PROVE  PanelIInv'
  <2>1. CASE DropPanel(t)
    BY <2>1, DropPanelKeeps
  <2>2. CASE SendPanel(t)
    BY <2>2, SendPanelInTime, SendPanelLate
  <2>3. CASE SendPanelFails(t)
    BY <2>3, SendPanelFailsKeeps
  <2>4. CASE DropPrompt(t)
    BY <2>4, DropPromptKeeps
  <2>5. CASE SendPrompt(t)
    BY <2>5, SendPromptInTurn, SendPromptLate
  <2>6. CASE SendPromptFails(t)
    BY <2>6, SendPromptFailsKeeps
  <2> QED
    BY <1>1, <2>1, <2>2, <2>3, <2>4, <2>5, <2>6
<1>2. CASE \E ends \in BOOLEAN : ClearPanel(ends)
  BY <1>2, ClearPanelKeeps
<1>3. CASE RefreshByUser \/ \E t \in Refresh : TimerFires(t)
  BY <1>3, RefreshBegins
<1>4. CASE HandlePhoto
  BY <1>4, HandlePhotoKeeps
<1>5. CASE DropClearedPanel
  BY <1>5, DropClearedPanelKeeps
<1>6. CASE DropClearedPrompt
  BY <1>6, DropClearedPromptKeeps
<1>7. CASE SendFirstPanel \/ SendFirstPanelFails
  BY <1>7, SendFirstPanelKeeps, SendFirstPanelFailsKeeps
<1>8. CASE BotRestarts
  BY <1>8, BotRestartsKeeps
<1> QED
  BY <1>1, <1>2, <1>3, <1>4, <1>5, <1>6, <1>7, <1>8 DEF PanelNext

LEMMA PanelStutters ==
  ASSUME PanelIInv, UNCHANGED panelVars
  PROVE  PanelIInv'
<1>1. /\ chat' = chat /\ sent' = sent /\ botSession' = botSession /\ panelState' = panelState
      /\ states' = states /\ tasks' = tasks /\ updates' = updates /\ excused' = excused
      /\ crossed' = crossed /\ lost' = lost
  BY DEF panelVars
<1>2. /\ SessionRecord' = SessionRecord /\ EntryRecord' = EntryRecord /\ RefreshTask' = RefreshTask
      /\ ClearTask' = ClearTask /\ ChatMessage' = ChatMessage
  BY <1>1 DEF SessionRecord, EntryRecord, RefreshTask, ClearTask, ChatMessage
<1>3. /\ SessionNow' = SessionNow /\ (HasEntry' <=> HasEntry) /\ (Clearing' <=> Clearing)
      /\ \A t : /\ Awake(t)' <=> Awake(t)
                /\ Refreshing(t)' <=> Refreshing(t)
                /\ BelongsToEntry(t)' <=> BelongsToEntry(t)
                /\ WillSend(t)' <=> WillSend(t)
      /\ \A m : Live(m)' <=> Live(m)
  BY <1>1 DEF SessionNow, HasEntry, Clearing, Awake, Refreshing, BelongsToEntry, WillSend, Live
<1>4. PanelTypes'
  BY <1>1, <1>2, <1>3 DEF PanelIInv, PanelTypes
<1>5. SessionsFit'
  BY <1>1, <1>3 DEF PanelIInv, SessionsFit
<1>6. EntryFits'
  BY <1>1, <1>3 DEF PanelIInv, EntryFits
<1>7. PanelIsSafe'
  BY <1>1, <1>3 DEF PanelIInv, PanelIsSafe
<1>8. PanelsKnown' /\ OneRefresh'
  BY <1>1, <1>3 DEF PanelIInv, PanelsKnown, OneRefresh
<1>9. PromptsKnown' /\ UploadShown'
  BY <1>1, <1>3 DEF PanelIInv, PromptsKnown, UploadShown
<1>10. UploadBegins'
  BY <1>1, <1>3 DEF PanelIInv, UploadBegins, ClearsTheLast
<1> QED
  BY <1>4, <1>5, <1>6, <1>7, <1>8, <1>9, <1>10 DEF PanelIInv

\* At rest nobody is about to delete anything, so what is shown is known.
LEMMA PanelImplies ==
  ASSUME PanelIInv
  PROVE  PanelInv
<1>1. PanelTypes /\ Update \in Task
  BY UpdateIsTask DEF PanelIInv
<1>2. HasEntry => /\ panelState \in EntryRecord /\ panelState.entry \in 1 .. states
                  /\ panelState.panel \in 0 .. sent /\ panelState.prompt \in 0 .. sent
  BY <1>1, EntryKinds DEF EntryRecord
<1>3. PanelTypeOK
  <2>1. \A m \in chat : m.id \in 1 .. sent /\ m.kind \in {"panel", "prompt"}
    BY <1>1 DEF PanelTypes, ChatMessage
  <2>2. botSession.stale \subseteq 1 .. sent
    BY <1>1 DEF PanelTypes, SessionRecord
  <2> QED
    BY <1>1, <1>2, <2>1, <2>2, EntryKinds DEF PanelIInv, PanelTypes, SessionsFit, PanelTypeOK
<1>4. ASSUME Quiet
      PROVE  /\ SessionNow = botSession /\ ~Clearing
             /\ \A t \in Task : tasks[t].pc = "asleep" /\ ~WillSend(t)
             /\ \A m \in chat : Live(m) <=> m.id \notin botSession.stale \cup excused
  <2>1. \A t \in Task : tasks[t].pc = "asleep"
    BY <1>4 DEF Quiet, At
  <2>2. SessionNow = botSession /\ ~Clearing
    BY <1>1, <2>1 DEF SessionNow, Awake, Clearing, ClearPc
  <2>3. \A t \in Task : ~WillSend(t)
    BY <2>1 DEF WillSend, Refreshing
  <2> QED
    BY <2>1, <2>2, <2>3 DEF Live
<1>5. ASSUME NEW m \in chat, HasEntry
      PROVE  /\ m.id = panelState.panel => m.id = Known(panelState, botSession, "panel")
             /\ m.id = panelState.prompt => m.id = Known(panelState, botSession, "prompt")
  <2>1. m.id # None
    BY <1>1 DEF PanelTypes, ChatMessage, None
  <2> QED
    BY <1>1, <1>5, <2>1, EntryKinds, KnownPanel
<1>6. OnePanel
  <2> SUFFICES ASSUME Quiet, ~crossed, NEW m \in chat, m.kind = "panel",
                      m.id \notin botSession.stale \cup excused
               PROVE  /\ m.upload = botSession.upload
                      /\ m.id = Known(panelState, botSession, "panel")
    BY DEF OnePanel, Shown
  <2>1. HasEntry /\ panelState.panel = m.id /\ m.upload = SessionNow.upload
    BY <1>1, <1>4 DEF PanelIInv, PanelsKnown
  <2> QED
    BY <1>4, <1>5, <2>1
<1>7. OnePrompt
  <2> SUFFICES ASSUME Quiet, NEW m \in chat, m.kind = "prompt",
                      m.id \notin botSession.stale \cup excused
               PROVE  /\ m.id = Known(panelState, botSession, "prompt")
                      /\ lost \/ m.upload = botSession.upload
    BY DEF OnePrompt, Shown
  <2>1. HasEntry /\ panelState.prompt = m.id /\ (lost \/ m.upload = SessionNow.upload)
    BY <1>1, <1>4 DEF PanelIInv, PromptsKnown
  <2> QED
    BY <1>4, <1>5, <2>1
<1>8. UploadHasPanel
  <2> SUFFICES ASSUME Quiet, ~lost, botSession.upload # 0
               PROVE  \E m \in chat : /\ m.kind = "panel" /\ m.upload = botSession.upload
                                      /\ m.id = Known(panelState, botSession, "panel")
    BY DEF UploadHasPanel
  <2>1. /\ HasEntry
        /\ \E m \in chat : /\ m.kind = "panel" /\ m.id = panelState.panel
                           /\ m.upload = botSession.upload
    BY <1>4 DEF PanelIInv, UploadShown
  <2> QED
    BY <1>5, <2>1
<1> QED
  BY <1>3, <1>6, <1>7, <1>8 DEF PanelInv

\* A chat at rest shows one panel and one prompt, those of the running upload,
\* for any number of refreshes from timers that overlap with updates, of calls
\* of Telegram that fail, of updates that throw and of restarts, up to what these
\* leave that nobody knows or can delete, and to an upload that runs on without
\* its panel (status.ts, new.ts, reset.ts).
THEOREM ChatShowsTheUpload == PanelSpec => []PanelInv
<1>1. PanelInit => PanelIInv
  BY PanelStart
<1>2. PanelIInv /\ [PanelNext]_panelVars => PanelIInv'
  BY PanelStep, PanelStutters
<1>3. PanelIInv => PanelInv
  BY PanelImplies
<1> QED
  BY <1>1, <1>2, <1>3, PTL DEF PanelSpec
=============================================================================
