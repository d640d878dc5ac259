---------------------------- MODULE UploadImages ----------------------------
(***************************************************************************)
(* The pictures of an upload in the bot: photos that are sent to the chat, *)
(* the viewer that shows one of them at a time and removes it, the buttons *)
(* of the panel that remove the latest or all, and the build, which takes  *)
(* the rows of the pictures that are left. Updates of the chat follow each *)
(* other, and one is an action that may end in two ways: what it has done  *)
(* to rows and messages stays, while its session, which is written last,   *)
(* is lost when that fails or the process stops before.                    *)
(***************************************************************************)
EXTENDS Integers, Sequences, FiniteSets

CONSTANTS
  Photo,          \* pictures of Telegram, told apart by file_unique_id
  MaxImages,      \* LIMITS.photosPerComposition
  MaxRows         \* bound: rows that are written

Nothing == 0

VARIABLES
  pictures,       \* session.upload.images: [row, photo, active]
  seen,           \* seenFileUniqueIds
  rows,           \* composition_source_images: [id, order]
  selected,       \* viewerImageId, the row of a picture or Nothing
  viewer,         \* the row of the picture in the viewer's message, or Nothing
  built,          \* the pictures of the layout, or << >>
  ahead           \* history: an update has edited the viewer and its session was
                  \* not written, nor was the viewer shown again since

imagesVars == <<pictures, seen, rows, selected, viewer, built, ahead>>

ImagesInit ==
  /\ pictures = << >> /\ seen = {} /\ rows = {}
  /\ selected = Nothing /\ viewer = Nothing /\ built = << >> /\ ahead = FALSE

\* Upload is over once the pictures are built into a layout.
Uploading == built = << >>

-----------------------------------------------------------------------------
(* The viewer, viewer.ts.                                                  *)

IsActive(picture) == picture.active
Active(list) == SelectSeq(list, IsActive)

\* The position of the selected picture among the active ones: the first one
\* if it is none of them.
CurrentIndex(list, choice) ==
  LET at == {i \in DOMAIN Active(list) : Active(list)[i].row = choice} IN
    IF at = {} THEN 1 ELSE CHOOSE i \in at : TRUE

\* getViewerImage, as the row of the picture.
ViewerImage(list, choice) ==
  IF Active(list) = << >> THEN Nothing ELSE Active(list)[CurrentIndex(list, choice)].row

Without(list, row) ==
  [i \in DOMAIN list |-> IF list[i].row = row THEN [list[i] EXCEPT !.active = FALSE] ELSE list[i]]

\* After the current picture is removed, the one that has taken its place is
\* selected, or the last one.
SelectedAfter(list, index) ==
  IF Active(list) = << >> THEN Nothing
  ELSE Active(list)[IF index <= Len(Active(list)) THEN index ELSE Len(Active(list))].row

\* sendViewer edits the message, or sends a new one if that fails; if both fail
\* there is no viewer. Nothing is done without a picture. When the session is not
\* written an edit stays, and a message that was sent anew is not the session's:
\* its buttons are refused.
ShownOrNothing(image) == {image, Nothing}
SendViewer(list, choice) ==
  LET image == ViewerImage(list, choice) IN
    \/ /\ pictures' = list /\ selected' = choice
       /\ IF image = Nothing THEN UNCHANGED <<viewer, ahead>>
          ELSE viewer' \in ShownOrNothing(image) /\ ahead' = FALSE
    \/ /\ viewer # Nothing /\ image # Nothing
       /\ viewer' = image /\ ahead' = TRUE
       /\ UNCHANGED <<pictures, selected>>

-----------------------------------------------------------------------------
(* Photos.                                                                 *)

\* handlePhoto's early returns: too many pictures, or one that was sent before
\* (removed pictures count for both), and the sortOrder of the row.
RoomForPhoto == Len(pictures) < MaxImages
\* Mutant of RowOrder: only active pictures count.
RowOrderOfActive == Len(Active(pictures))
RowOrder == Len(pictures)

ReceivePhoto(photo) ==
  /\ Uploading
  /\ RoomForPhoto /\ photo \notin seen
  /\ Cardinality(rows) < MaxRows
  /\ LET row == Cardinality(rows) + 1 IN
       /\ rows' = rows \cup {[id |-> row, order |-> RowOrder]}
       /\ \/ /\ pictures' = Append(pictures, [row |-> row, photo |-> photo, active |-> TRUE])
             /\ seen' = seen \cup {photo}
          \/ UNCHANGED <<pictures, seen>>    \* the session is not written
  /\ UNCHANGED <<selected, viewer, built, ahead>>

-----------------------------------------------------------------------------
(* Buttons.                                                                *)

OpenViewer ==
  /\ Uploading /\ Active(pictures) # << >>
  /\ SendViewer(pictures, IF selected = Nothing THEN Active(pictures)[1].row ELSE selected)
  /\ UNCHANGED <<seen, rows, built>>

\* "back" and "next": the neighbor is selected if there is one.
Neighbor(step) ==
  LET index == CurrentIndex(pictures, selected) + step IN
    IF index \in DOMAIN Active(pictures) THEN Active(pictures)[index].row ELSE selected

Browse(step) ==
  /\ Uploading /\ viewer # Nothing
  /\ SendViewer(pictures, Neighbor(step))
  /\ UNCHANGED <<seen, rows, built>>

RemoveShown ==
  /\ Uploading /\ viewer # Nothing /\ Active(pictures) # << >>
  /\ LET left == Without(pictures, ViewerImage(pictures, selected)) IN
       SendViewer(left, SelectedAfter(left, CurrentIndex(pictures, selected)))
  /\ UNCHANGED <<seen, rows, built>>

\* The message is deleted, or its buttons are refused from now on; without its
\* session a deletion stays.
CloseViewer ==
  /\ Uploading /\ viewer # Nothing
  /\ viewer' = Nothing
  /\ UNCHANGED <<pictures, seen, rows, selected, built, ahead>>

\* "remove latest" on the panel leaves the viewer as it is. Like "remove all" it
\* has removed nothing if its session is not written.
RemoveLatest ==
  /\ Uploading /\ Active(pictures) # << >>
  /\ pictures' = Without(pictures, Active(pictures)[Len(Active(pictures))].row)
  /\ UNCHANGED <<seen, rows, selected, viewer, built, ahead>>

\* "remove all" selects nothing, and leaves the viewer as it is as well.
RemoveAll ==
  /\ Uploading /\ Active(pictures) # << >>
  /\ pictures' = [i \in DOMAIN pictures |-> [pictures[i] EXCEPT !.active = FALSE]]
  /\ selected' = Nothing
  /\ UNCHANGED <<seen, rows, viewer, built, ahead>>

\* handleCommit: the rows in their order, those of active pictures only.
BuildRows == {r \in rows : \E i \in DOMAIN pictures : pictures[i].row = r.id /\ pictures[i].active}

Build ==
  /\ Uploading /\ BuildRows # {}
  /\ built' \in {s \in [1..Cardinality(BuildRows) -> BuildRows] :
                   \A i, j \in DOMAIN s : i < j => s[i] # s[j] /\ s[i].order <= s[j].order}
  /\ viewer' = Nothing
  /\ UNCHANGED <<pictures, seen, rows, selected, ahead>>

ImagesNext ==
  \/ \E photo \in Photo : ReceivePhoto(photo)
  \/ OpenViewer \/ Browse(1) \/ Browse(-1) \/ RemoveShown \/ CloseViewer
  \/ RemoveLatest \/ RemoveAll \/ Build

ImagesSpec == ImagesInit /\ [][ImagesNext]_imagesVars

-----------------------------------------------------------------------------
(* Correctness.                                                            *)

ImagesTypeOK ==
  /\ \A i \in DOMAIN pictures : /\ pictures[i].row \in {r.id : r \in rows}
                                /\ pictures[i].photo \in seen
  /\ Len(pictures) <= MaxImages
  /\ Cardinality({pictures[i].photo : i \in DOMAIN pictures}) = Len(pictures)
  /\ selected \in {Nothing} \cup {r.id : r \in rows}
  /\ viewer \in {Nothing} \cup {r.id : r \in rows} /\ ahead \in BOOLEAN

\* The build has exactly the pictures that were left, in the order in which they
\* were sent, although rows of photos stay behind whose session was not written,
\* and have the same sortOrder as later ones (commit.ts, activeIds).
BuiltAsSent ==
  built # << >> =>
    [i \in DOMAIN built |-> built[i].id] = [i \in DOMAIN Active(pictures) |-> Active(pictures)[i].row]

\* As long as the picture in the viewer has not been removed by other buttons,
\* the viewer's buttons mean that picture, whatever was removed or sent in between
\* and whether edits of the viewer succeeded (viewer.ts, getCurrentViewerIndex).
\* The exception is a session that was not written after an edit: the viewer then
\* shows one picture and its buttons mean another, until a button shows it again.
ViewerMeansShown ==
  Uploading /\ ~ahead /\ (\E i \in DOMAIN pictures : pictures[i].row = viewer /\ pictures[i].active) =>
    ViewerImage(pictures, selected) = viewer

\* The pictures of an upload are the ones that were sent and not removed, in
\* their order, in the viewer as in the build.
ImagesInv ==
  /\ ImagesTypeOK
  /\ BuiltAsSent
  /\ ViewerMeansShown
=============================================================================
