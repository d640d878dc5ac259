-------------------------- MODULE CompositionStore --------------------------
(***************************************************************************)
(* One composition on the server: its row in PostgreSQL, its objects in    *)
(* the bucket, and the file ids of its preview in Redis. The editor saves  *)
(* and renders it and creates rooms from it over HTTP; the bot commits it, *)
(* shows it and deletes it. Requests run at the grain of their awaits and  *)
(* only share the render queue of the process; none of them looks again at *)
(* the row it has read, or asks for the status it expects when it writes.  *)
(* A layout stands for the picture it is rendered to.                      *)
(***************************************************************************)
EXTENDS Naturals, Sequences, FiniteSets

CONSTANTS
  Call,      \* places for requests that are handled at the same time
  Layout,    \* layouts, and the pictures rendered from them
  NoLayout,  \* no layout, no picture
  Format,    \* formats of the picture; rooms use "png"
  MaxCalls   \* bound: requests that are started

ASSUME StoreAssumption == NoLayout \notin Layout /\ "png" \in Format

VARIABLES
  row,       \* the row of compositions
  sources,   \* the source images are in the bucket
  images,    \* images[f]: the picture stored under the key of format f
  preview,   \* the picture stored as telegram preview
  fileIds,   \* Redis: the previews that Telegram knows, by the row's updatedAt
  calls,     \* calls[c]: the request in this place
  queue,     \* the requests in the render queue
  started,
  together,  \* history: two requests that write were handled at the same time
  deleted,   \* history: a deletion ended, and the sources were gone
  outrun,    \* history: a request had the sources in memory when they were deleted
  leftover,  \* history: pictures by which requests that failed may have left
             \* the bucket and the row different; NoLayout for a deletion
  stuck      \* history: a render ended without its last update of the row

storeVars == <<row, sources, images, preview, fileIds, calls, queue, started,
               together, deleted, outrun, leftover, stuck>>
objects == <<sources, images, preview>>

Status == {"collecting", "processing", "ready", "completed", "canceled", "failed"}
Listed == {"ready", "completed"}
Free == [kind |-> "free"]
Step(c) == IF calls[c] = Free THEN "free" ELSE calls[c].step
Writes(c) == calls[c] # Free /\ calls[c].kind # "show"
FromBot(c) == calls[c] # Free /\ calls[c].kind \in {"commit", "show", "delete", "reset"}

StoreInit ==
  /\ row = [status |-> "collecting", layout |-> NoLayout, format |-> "none", updatedAt |-> 0]
  /\ sources = TRUE
  /\ images = [f \in Format |-> NoLayout]
  /\ preview = NoLayout
  /\ fileIds = << >>
  /\ calls = [c \in Call |-> Free]
  /\ queue = << >>
  /\ started = 0
  /\ together = FALSE /\ deleted = FALSE /\ outrun = FALSE
  /\ leftover = {} /\ stuck = FALSE

-----------------------------------------------------------------------------
(* Steps that the requests share.                                          *)

\* A request is handled: it has looked for the row. The bot handles one update
\* after the other.
Start(c, kind, step, layout, format) ==
  /\ calls[c] = Free /\ started < MaxCalls
  /\ kind \in {"commit", "show", "delete", "reset"} => \A d \in Call : ~FromBot(d)
  /\ calls' = [calls EXCEPT ![c] = [kind |-> kind, step |-> step, layout |-> layout,
                                    format |-> format, seen |-> row.updatedAt]]
  /\ queue' = IF step = "render" THEN Append(queue, c) ELSE queue
  /\ started' = started + 1
  /\ together' = (together \/ (kind # "show" /\ \E d \in Call : Writes(d)))
  /\ UNCHANGED <<row, objects, fileIds, deleted, outrun, leftover, stuck>>

GoesOn(c, step) == calls' = [calls EXCEPT ![c].step = step]
Finishes(c) == calls' = [calls EXCEPT ![c] = Free]
faults == <<together, leftover, stuck>>
onlyCalls == UNCHANGED <<started, faults, deleted, outrun>>

\* An update of the row by composition id sets updatedAt, and the fields it names.
Updated(status, layout, format) ==
  [status |-> status, layout |-> layout, format |-> format, updatedAt |-> row.updatedAt + 1]

-----------------------------------------------------------------------------
(* What each request asks for.                                             *)

\* PATCH layout: the layout of the editor. Any status will do.
SaveLayout(c, layout) == row.layout # NoLayout /\ Start(c, "save", "render", layout, "none")

\* POST render: with the layout of the editor, or the one of the row.
PostRender(c, layout, format) ==
  row.layout # NoLayout /\ Start(c, "render", "mark", layout, format)

\* POST rooms: always the layout of the row.
CreateRoom(c) == row.layout # NoLayout /\ Start(c, "room", "render", row.layout, "png")

\* The bot makes the first layout; later it only answers with the link.
CommitComposition(c, layout) ==
  row.status = "collecting" /\ Start(c, "commit", "render", layout, "none")

ShowCard(c) == row.status \in Listed /\ Start(c, "show", "look up", NoLayout, "none")
DeleteComposition(c) ==
  row.status \in Listed /\ Start(c, "delete", "drop sources", NoLayout, row.format)
\* The active composition of the bot's session, whatever its row says.
ResetComposition(c) == Start(c, "reset", "drop sources", NoLayout, "none")

\* The row says that the picture is being made, before the request is queued.
MarkProcessing(c) ==
  /\ Step(c) = "mark"
  /\ row' = Updated("processing", calls[c].layout, row.format)
  /\ GoesOn(c, "render")
  /\ queue' = Append(queue, c)
  /\ UNCHANGED <<objects, fileIds>> /\ onlyCalls

\* The head of the render queue loads the sources and is rendered.
\* Mutant: an image whose source is missing is left out of the picture.
RenderedAnyway(c) == queue # << >> /\ Head(queue) = c
Rendered(c) == sources /\ queue # << >> /\ Head(queue) = c
RenderLayout(c) ==
  /\ Step(c) = "render" /\ Rendered(c)
  /\ queue' = Tail(queue)
  /\ GoesOn(c, IF calls[c].kind \in {"render", "room"} THEN "store image" ELSE "store preview")
  /\ UNCHANGED <<row, objects, fileIds>> /\ onlyCalls

StoreImage(c) ==
  /\ Step(c) = "store image"
  /\ images' = [images EXCEPT ![calls[c].format] = calls[c].layout]
  /\ GoesOn(c, IF calls[c].kind = "render" THEN "store preview" ELSE "update")
  /\ UNCHANGED <<row, sources, preview, fileIds, queue>> /\ onlyCalls

StorePreview(c) ==
  /\ Step(c) = "store preview"
  /\ preview' = calls[c].layout
  /\ GoesOn(c, "update")
  /\ UNCHANGED <<row, sources, images, fileIds, queue>> /\ onlyCalls

UpdatedRow(call) ==
  CASE call.kind \in {"save", "commit"} -> Updated("ready", call.layout, row.format)
    [] call.kind = "render" -> Updated("completed", call.layout, call.format)
    [] call.kind = "room" -> Updated("completed", row.layout, call.format)

UpdateRow(c) ==
  /\ Step(c) = "update"
  /\ row' = UpdatedRow(calls[c])
  /\ Finishes(c)
  /\ UNCHANGED <<objects, fileIds, queue>> /\ onlyCalls

-----------------------------------------------------------------------------
(* The bot's card: the preview from Telegram, if it has it, or from the    *)
(* bucket; what was sent is remembered under the updatedAt that was read.  *)

LookUpPreview(c) ==
  /\ Step(c) = "look up"
  /\ IF calls[c].seen \in DOMAIN fileIds
     THEN Finishes(c)
     ELSE /\ preview # NoLayout
          /\ calls' = [calls EXCEPT ![c].step = "send", ![c].layout = preview]
  /\ UNCHANGED <<row, objects, fileIds, queue>> /\ onlyCalls

\* Mutant: the file id is kept under the key that the row has by now.
SentUnderNewKey(c) == row.updatedAt
SentUnder(c) == calls[c].seen

SendPreview(c) ==
  /\ Step(c) = "send"
  /\ LET sent == [t \in {SentUnder(c)} |-> calls[c].layout] IN
       fileIds' = [t \in DOMAIN fileIds \cup DOMAIN sent |->
                     IF t \in DOMAIN sent THEN sent[t] ELSE fileIds[t]]
  /\ Finishes(c)
  /\ UNCHANGED <<row, objects, queue>> /\ onlyCalls

FileIdExpires ==
  /\ \E t \in DOMAIN fileIds : fileIds' = [u \in DOMAIN fileIds \ {t} |-> fileIds[u]]
  /\ UNCHANGED <<row, objects, calls, queue>> /\ onlyCalls

(* Deleting: the objects first, errors of the bucket are ignored; the row  *)
(* and its list of source images stay.                                     *)

\* A request that needs the sources no more.
HasLoaded(c) == Step(c) \in {"store image", "store preview", "update"}

DropSources(c) ==
  /\ Step(c) = "drop sources"
  /\ sources' \in {sources, FALSE}
  /\ outrun' = (outrun \/ (~sources' /\ \E d \in Call : HasLoaded(d)))
  /\ GoesOn(c, IF calls[c].kind = "delete" THEN "drop preview" ELSE "cancel")
  /\ UNCHANGED <<row, images, preview, fileIds, queue, started, faults, deleted>>

DropPreview(c) ==
  /\ Step(c) = "drop preview"
  /\ fileIds' = [t \in DOMAIN fileIds \ {calls[c].seen} |-> fileIds[t]]
  /\ preview' \in {preview, NoLayout}
  /\ GoesOn(c, "drop image")
  /\ UNCHANGED <<row, sources, images, queue>> /\ onlyCalls

DropImage(c) ==
  /\ Step(c) = "drop image"
  /\ IF calls[c].format = "none"
     THEN UNCHANGED images
     ELSE \E kept \in {images[calls[c].format], NoLayout} :
            images' = [images EXCEPT ![calls[c].format] = kept]
  /\ GoesOn(c, "cancel")
  /\ UNCHANGED <<row, sources, preview, fileIds, queue>> /\ onlyCalls

MarkCanceled(c) ==
  /\ Step(c) = "cancel"
  /\ row' = Updated("canceled", row.layout, row.format)
  /\ deleted' = (deleted \/ ~sources)
  /\ Finishes(c)
  /\ UNCHANGED <<objects, fileIds, queue, started, faults, outrun>>

-----------------------------------------------------------------------------
(* Failures.                                                               *)

\* A render that fails has to say so in the row.
FailureIsRecorded(c) ==
  calls[c].kind = "render" /\ calls[c].step \in {"render", "store image", "store preview"}

\* The queue goes on after an operation that was rejected.
Dequeued(c) == IF Step(c) = "render" THEN Tail(queue) ELSE queue

\* The layout of a save is in the bucket and not in the row, that of a render
\* in the row and not in the bucket, or a deletion has dropped an object.
LeftBy(c) ==
  (IF Step(c) \in {"store preview", "update", "drop image", "cancel"}
   THEN {calls[c].layout} ELSE {})
  \cup (IF calls[c] # Free /\ calls[c].kind = "render" THEN {preview} ELSE {})

\* An await of the request fails. A render that fails after its first update
\* still has to say so in the row.
CallFails(c) ==
  /\ Step(c) \notin {"free", "failing"}
  /\ Step(c) = "render" => queue # << >> /\ Head(queue) = c
  /\ queue' = Dequeued(c)
  /\ IF FailureIsRecorded(c) THEN GoesOn(c, "failing") ELSE Finishes(c)
  /\ stuck' = (stuck \/ (calls[c].kind = "render" /\ Step(c) = "update"))
  /\ leftover' = leftover \cup LeftBy(c)
  /\ UNCHANGED <<row, objects, fileIds, started, together, deleted, outrun>>

\* The failure of a render is written down; this update may fail as well.
MarkFailed(c) ==
  /\ Step(c) = "failing"
  /\ \/ row' = Updated("failed", row.layout, row.format) /\ UNCHANGED stuck
     \/ UNCHANGED row /\ stuck' = TRUE
  /\ Finishes(c)
  /\ UNCHANGED <<objects, fileIds, queue, started, together, leftover, deleted, outrun>>

\* The server stops and starts again.
ServerRestarts ==
  /\ \E c \in Call : calls[c] # Free
  /\ calls' = [c \in Call |-> Free]
  /\ queue' = << >>
  /\ stuck' = (stuck \/ row.status = "processing")
  /\ leftover' = leftover \cup UNION {LeftBy(c) : c \in Call}
  /\ UNCHANGED <<row, objects, fileIds, started, together, deleted, outrun>>

-----------------------------------------------------------------------------
CallStarts(c) ==
  \/ \E layout \in Layout : SaveLayout(c, layout) \/ CommitComposition(c, layout)
  \/ \E layout \in Layout, format \in Format : PostRender(c, layout, format)
  \/ CreateRoom(c)
  \/ ShowCard(c)
  \/ DeleteComposition(c)
  \/ ResetComposition(c)

CallGoesOn(c) ==
  \/ MarkProcessing(c) \/ RenderLayout(c) \/ StoreImage(c) \/ StorePreview(c) \/ UpdateRow(c)
  \/ LookUpPreview(c) \/ SendPreview(c)
  \/ DropSources(c) \/ DropPreview(c) \/ DropImage(c) \/ MarkCanceled(c)
  \/ CallFails(c) \/ MarkFailed(c)

StoreNext ==
  \/ \E c \in Call : CallStarts(c) \/ CallGoesOn(c)
  \/ FileIdExpires
  \/ ServerRestarts

StoreSpec == StoreInit /\ [][StoreNext]_storeVars

-----------------------------------------------------------------------------
(* Correctness.                                                            *)

StoreTypeOK ==
  /\ row \in [status : Status, layout : Layout \cup {NoLayout},
              format : Format \cup {"none"}, updatedAt : Nat]
  /\ row.status \in Listed \cup {"processing"} => row.layout # NoLayout
  /\ images \in [Format -> Layout \cup {NoLayout}]
  /\ preview \in Layout \cup {NoLayout}
  /\ \A t \in DOMAIN fileIds : t <= row.updatedAt /\ fileIds[t] \in Layout
  /\ {queue[i] : i \in DOMAIN queue} = {c \in Call : Step(c) = "render"}
  /\ Len(queue) = Cardinality({queue[i] : i \in DOMAIN queue})

Deleting(c) == calls[c] # Free /\ calls[c].kind \in {"delete", "reset"}

\* Unless requests overlap, the picture of a completed composition is the one
\* of its layout, whatever failed or stopped before: the row names a picture
\* only after the bucket has it, and a render says that it is under way before
\* it replaces one (routes.ts, POST render and POST rooms). Only a deletion
\* takes it away first.
CompletedShowsLayout ==
  ~together /\ row.status = "completed" =>
    /\ row.format \in Format
    /\ \/ images[row.format] = row.layout
       \/ /\ images[row.format] = NoLayout
          /\ NoLayout \in leftover \/ \E c \in Call : Deleting(c)

\* Unless requests overlap, a card of a listed composition shows its layout,
\* or one that a failed request left behind: the key of the remembered file id
\* changes with the row (list.ts, loadPreview). (A render that fails leaves the
\* old preview with the new layout, and a room made from it completes it so.)
CardShowsLayout ==
  (~together /\ row.status \in Listed /\ \A c \in Call : ~Writes(c)) =>
    /\ preview \in {row.layout, NoLayout} \cup leftover
    /\ row.updatedAt \in DOMAIN fileIds => fileIds[row.updatedAt] \in {row.layout} \cup leftover

\* A composition is only left in the state "processing" by a render that could
\* not write its outcome, although anybody may overwrite the row meanwhile.
ProcessingIsTemporary ==
  row.status = "processing" =>
    \/ stuck
    \/ \E c \in Call : /\ calls[c] # Free /\ calls[c].kind = "render"
                       /\ calls[c].step # "mark"

\* The row, the pictures and the cards of a composition agree, although saves,
\* renders, rooms and deletions wait for each other and fail half way.
StoreInv ==
  /\ StoreTypeOK
  /\ CompletedShowsLayout
  /\ CardShowsLayout
  /\ ProcessingIsTemporary

\* A composition that was deleted with its source images is never listed again,
\* however many saves, renders and rooms are asked for, or wait in the queue,
\* while it is deleted and after: nothing asks for its status, and a render takes
\* the row out of "canceled", but without the sources none of them can end well
\* (list.ts, deleteComposition; routes.ts, POST render). The exception is a
\* request that had loaded the sources before they went: it lists a composition
\* which cannot be rendered again.
DeletedStaysHidden == deleted /\ ~outrun => row.status \notin Listed
=============================================================================
