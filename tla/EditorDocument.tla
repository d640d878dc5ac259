--------------------------- MODULE EditorDocument ---------------------------
(***************************************************************************)
(* The document of the composition editor: a canvas with images on it, the *)
(* selection, the undo history, and the transactions in which a drag of    *)
(* the pointer or a number field previews an edit before it is committed   *)
(* or rolled back.  Places and sizes are those of one axis.  The scale of  *)
(* an image is how often updateScale has multiplied it by 10^12, until it  *)
(* is infinite.                                                            *)
(***************************************************************************)
EXTENDS Integers, Sequences, FiniteSets, SequencesExt

CONSTANTS
  Loads,         \* the layouts that compositions are loaded with
  MinCanvas, MaxCanvas, MinItem,
  HistoryLimit,
  Offsets,       \* how far the pointer and the keys move, in half units: on a
                 \* canvas that is zoomed a drag ends between two units
  Values,        \* what is typed into a number field
  Ratios,        \* canvas widths that the ratio presets give
  InfiniteScale, \* bound: updates after which a scale is infinite
  MaxToken       \* bound: transactions

ASSUME CanvasAssumption ==
  /\ {MinCanvas, MaxCanvas, MinItem, InfiniteScale} \subseteq Nat \ {0}
  /\ MinItem <= MinCanvas /\ MinCanvas <= MaxCanvas
ASSUME LimitAssumption == HistoryLimit \in Nat /\ MaxToken \in Nat
ASSUME LoadsAssumption ==
  \A l \in Loads : /\ l.canvas \in MinCanvas..MaxCanvas
                   /\ \A i \in DOMAIN l.items :
                        LET item == l.items[i] IN
                        item.x >= 0 /\ item.width > 0 /\ item.x + item.width <= l.canvas

NoTransaction == [token |-> 0]

VARIABLES
  layout,          \* the canvas and its items, in the order of the composition
  originalCanvas,
  selectedIds,
  past, future,    \* the layouts to undo to and to redo to, nearest last
  transaction,
  nextToken,
  drag,            \* the token that the pointer holds, or 0
  field            \* the token that the focused number field holds, or 0

documentVars == <<layout, originalCanvas, selectedIds, past, future, transaction,
                  nextToken>>
editorVars == <<documentVars, drag, field>>

-----------------------------------------------------------------------------
(***************************************************************************)
(* The geometry of layout.ts and the order of layers.ts.                   *)
(***************************************************************************)
Least(a, b) == IF a < b THEN a ELSE b
Greatest(a, b) == IF a > b THEN a ELSE b
Clamp(value, least, greatest) == Least(Greatest(value, least), greatest)
Rounded(a, b) == (2 * a + b) \div (2 * b)

ClampCanvasSize(size) == Clamp(size, MinCanvas, MaxCanvas)
UpdateScale(item) == [item EXCEPT !.scale = Least(@ + 1, InfiniteScale)]
ClampItem(item, canvas) ==
  LET width == Clamp(item.width, MinItem, canvas)
  IN  [item EXCEPT !.width = width, !.x = Clamp(@, 0, canvas - width)]

Mapped(items, Op(_)) == [i \in DOMAIN items |-> Op(items[i])]
Ids(items) == {items[i].id : i \in DOMAIN items}
Targets(items, ids) == {i \in DOMAIN items : items[i].id \in ids}
Left(items, is) == CHOOSE x \in {items[i].x : i \in is} :
                     \A i \in is : x <= items[i].x
Right(items, is) == CHOOSE x \in {items[i].x + items[i].width : i \in is} :
                      \A i \in is : x >= items[i].x + items[i].width

ScaleItemsToCanvas(from, items, to) ==
  LET Scaled(item) ==
        LET x == Clamp(Rounded(item.x * to, from), 0, to - 1)
            width == Clamp(Greatest(1, Rounded(item.width * to, from)), 1, to - x)
        IN  UpdateScale([item EXCEPT !.x = x, !.width = width])
  IN  Mapped(items, Scaled)

MoveItemsWithinCanvas(items, is, canvas, dx) ==
  LET move == Clamp(Rounded(dx, 2), -Left(items, is), canvas - Right(items, is))
  IN  [i \in DOMAIN items |-> IF i \in is THEN [items[i] EXCEPT !.x = @ + move]
                              ELSE items[i]]

\* The edges in half units; the place and the width are rounded on their own.
ResizeItemFromEdge(item, canvas, dx, edge) ==
  LET right == 2 * (item.x + item.width)
      newLeft == IF edge = "w" THEN Clamp(2 * item.x + dx, 0, right - 2 * MinItem)
                 ELSE 2 * item.x
      newRight == IF edge = "e" THEN Clamp(right + dx, 2 * (item.x + MinItem), 2 * canvas)
                  ELSE right
  IN  UpdateScale([item EXCEPT !.x = Rounded(newLeft, 2),
                               !.width = Rounded(newRight - newLeft, 2)])

\* Several images share the resized bounds, which are any that the canvas holds,
\* in half units; bounds wider than the canvas begin before it.
GroupBounds(items, is, canvas) ==
  LET first == 2 * Least(0, canvas - (Right(items, is) - Left(items, is)))
  IN  {b \in (first..2 * canvas) \X (first..2 * canvas) : b[2] - b[1] >= 2 * MinItem}

ResizeItemsFromEdge(items, is, canvas, newLeft, newRight) ==
  LET left == Left(items, is)
      size == 2 * (Right(items, is) - left)
      Resized(item) == ClampItem(UpdateScale(
        [item EXCEPT !.x = Rounded(newLeft * (size \div 2) + (@ - left) * (newRight - newLeft), size),
                     !.width = Rounded(@ * (newRight - newLeft), size)]), canvas)
  IN  [i \in DOMAIN items |-> IF i \in is THEN Resized(items[i]) ELSE items[i]]

\* normalizeItemLayers: the rank of each item in the order of layers.
NormalizedLayers(items) ==
  [i \in DOMAIN items |-> [items[i] EXCEPT !.z = Cardinality(
     {j \in DOMAIN items : \/ items[j].z < items[i].z
                           \/ items[j].z = items[i].z /\ j < i})]]

\* The items from the lowest layer to the highest, and an order put back.
LayerOrder(items) ==
  [k \in DOMAIN items |-> CHOOSE i \in DOMAIN items : items[i].z = k - 1]
ApplyLayerOrder(items, order) ==
  [i \in DOMAIN items |->
     [items[i] EXCEPT !.z = (CHOOSE k \in DOMAIN order : order[k] = i) - 1]]
MoveLayer(items, i, target) ==
  LET others == Remove(LayerOrder(items), i)
  IN  ApplyLayerOrder(items, InsertAt(others, Clamp(target, 0, Len(items) - 1) + 1, i))
ReorderLayer(items, i, j, placement) ==
  LET others == Remove(LayerOrder(items), i)
      at == CHOOSE k \in DOMAIN others : others[k] = j
  IN  ApplyLayerOrder(items, InsertAt(others, IF placement = "above" THEN at + 1
                                              ELSE at, i))

\* normalizeCanvasLayout.
Normalized(loaded) ==
  LET canvas == ClampCanvasSize(loaded.canvas)
      items == NormalizedLayers(loaded.items)
  IN  [canvas |-> canvas,
       items |-> IF canvas = loaded.canvas THEN items
                 ELSE ScaleItemsToCanvas(loaded.canvas, items, canvas)]

-----------------------------------------------------------------------------
(***************************************************************************)
(* The transitions of the document.                                        *)
(***************************************************************************)
IdSet == {selectedIds[k] : k \in DOMAIN selectedIds}
SelectedItems == Targets(layout.items, IdSet)
Focused(id) == <<id>> \o SelectSeq(selectedIds, LAMBDA s : s # id)
Recent(line) == IF Len(line) > HistoryLimit THEN Tail(line) ELSE line

Loaded(loaded) ==
  LET normalized == Normalized(loaded) IN
  /\ layout' = normalized /\ originalCanvas' = normalized.canvas
  /\ selectedIds' = IF normalized.items = <<>> THEN <<>> ELSE <<normalized.items[1].id>>
  /\ past' = <<>> /\ future' = <<>>
  /\ transaction' = NoTransaction /\ UNCHANGED nextToken

\* commitEdit, together with the selection that the edit leaves.
\* Mutant: what was undone can still be redone.
CommitEditKeepingRedo(edited, selected) ==
  /\ transaction = NoTransaction
  /\ selectedIds' = selected /\ layout' = edited
  /\ past' = IF edited = layout THEN past ELSE Recent(Append(past, layout))
  /\ UNCHANGED <<originalCanvas, future, transaction, nextToken, drag, field>>
CommitEdit(edited, selected) ==
  /\ transaction = NoTransaction
  /\ selectedIds' = selected
  /\ IF edited = layout THEN UNCHANGED <<layout, past, future>>
     ELSE layout' = edited /\ past' = Recent(Append(past, layout)) /\ future' = <<>>
  /\ UNCHANGED <<originalCanvas, transaction, nextToken, drag, field>>

Begins(interaction, selected) ==
  LET targets == IF interaction.type = "primary-field"
                 THEN {i \in DOMAIN layout.items : layout.items[i].id = selected[1]}
                 ELSE Targets(layout.items, {selected[k] : k \in DOMAIN selected})
  IN  /\ transaction = NoTransaction /\ nextToken <= MaxToken
      /\ selectedIds' = selected
      /\ transaction' = [token |-> nextToken, interaction |-> interaction,
                         baseline |-> layout, targets |-> targets]
      /\ nextToken' = nextToken + 1
      /\ UNCHANGED <<layout, originalCanvas, past, future>>

\* previewLayout: the layouts that the edits of an interaction give.
Previews(t) ==
  LET l == t.baseline IN
  CASE t.interaction.type = "move-selection" ->
         {[l EXCEPT !.items = MoveItemsWithinCanvas(@, t.targets, l.canvas, dx)] :
            dx \in Offsets}
    [] t.interaction.type = "resize-selection" /\ Cardinality(t.targets) = 1 ->
         {[l EXCEPT !.items = [i \in DOMAIN @ |-> IF i \in t.targets
             THEN ResizeItemFromEdge(@[i], l.canvas, dx, t.interaction.edge)
             ELSE @[i]]] : dx \in Offsets}
    [] t.interaction.type = "resize-selection" /\ Cardinality(t.targets) > 1 ->
         {[l EXCEPT !.items = ResizeItemsFromEdge(@, t.targets, l.canvas, b[1], b[2])] :
            b \in GroupBounds(l.items, t.targets, l.canvas)}
    [] t.interaction.type = "resize-canvas" ->
         {LET size == ClampCanvasSize(Rounded(2 * l.canvas + dx, 2))
              canvas == IF t.interaction.scaleItems \/ l.items = <<>> THEN size
                        ELSE ClampCanvasSize(Greatest(size,
                               Right(l.items, DOMAIN l.items)))
          IN  [canvas |-> canvas,
               items |-> IF t.interaction.scaleItems
                         THEN ScaleItemsToCanvas(l.canvas, l.items, canvas)
                         ELSE l.items] : dx \in Offsets}
    [] t.interaction.type = "primary-field" ->
         {[l EXCEPT !.items = [i \in DOMAIN @ |-> IF i \in t.targets
             THEN ClampItem(UpdateScale([@[i] EXCEPT ![t.interaction.field] = v]),
                            l.canvas)
             ELSE @[i]]] : v \in Values}
    [] t.interaction.type = "canvas-dimension" ->
         {[canvas |-> ClampCanvasSize(v),
           items |-> ScaleItemsToCanvas(l.canvas, l.items, ClampCanvasSize(v))] :
            v \in Values}

\* A stale token changes nothing.
PreviewTransaction(token) ==
  /\ token # 0 /\ transaction.token = token
  /\ layout' \in Previews(transaction)
  /\ UNCHANGED <<originalCanvas, selectedIds, past, future, transaction, nextToken>>

FinishTransaction(token, disposition) ==
  IF transaction.token # token THEN UNCHANGED documentVars
  ELSE /\ LET commits == disposition = "commit" /\ layout # transaction.baseline IN
          /\ layout' = IF disposition = "rollback" THEN transaction.baseline ELSE layout
          /\ past' = IF commits THEN Recent(Append(past, transaction.baseline)) ELSE past
          /\ future' = IF commits THEN <<>> ELSE future
       /\ transaction' = NoTransaction
       /\ UNCHANGED <<originalCanvas, selectedIds, nextToken>>

-----------------------------------------------------------------------------
EditorInit ==
  /\ layout = [canvas |-> MaxCanvas, items |-> <<>>] /\ originalCanvas = MaxCanvas
  /\ selectedIds = <<>> /\ past = <<>> /\ future = <<>>
  /\ transaction = NoTransaction /\ nextToken = 1
  /\ drag = 0 /\ field = 0

\* The answer to a load may come during a drag.  A field is blurred, and so
\* committed, by what starts the load, and hidden until the answer.
ApplyLayout == /\ field = 0
               /\ \E loaded \in Loads : Loaded(loaded)
               /\ UNCHANGED <<drag, field>>

SelectItem ==
  \E i \in DOMAIN layout.items, mode \in {"replace", "add", "toggle", "focus"} :
    LET id == layout.items[i].id
        others == SelectSeq(selectedIds, LAMBDA s : s # id)
    IN  CommitEdit(layout,
          CASE mode = "add" -> <<id>> \o others
            [] mode = "toggle" /\ id \in IdSet -> others
            [] mode = "toggle" /\ id \notin IdSet -> <<id>> \o selectedIds
            [] mode = "focus" /\ id \in IdSet -> <<id>> \o others
            [] OTHER -> <<id>>)
ClearSelection == CommitEdit(layout, <<>>)

NudgeSelection ==
  /\ SelectedItems # {}
  /\ \E dx \in Offsets :
       CommitEdit([layout EXCEPT !.items =
         MoveItemsWithinCanvas(@, SelectedItems, layout.canvas, dx)], selectedIds)

ChangeLayer ==
  \E i \in DOMAIN layout.items :
    \/ \E target \in {0, Len(layout.items)} :
         CommitEdit([layout EXCEPT !.items = MoveLayer(@, i, target)],
                    Focused(layout.items[i].id))
    \/ \E j \in DOMAIN layout.items \ {i}, placement \in {"above", "below"} :
         CommitEdit([layout EXCEPT !.items = ReorderLayer(@, i, j, placement)],
                    Focused(layout.items[i].id))

ChangeCanvas ==
  \E canvas \in Ratios \cup {originalCanvas} :
    CommitEdit([canvas |-> ClampCanvasSize(canvas),
                items |-> ScaleItemsToCanvas(layout.canvas, layout.items,
                                             ClampCanvasSize(canvas))], <<>>)

\* The images of a composition never change, so the selection stays.
UndoEdit ==
  /\ transaction = NoTransaction /\ past # <<>>
  /\ layout' = past[Len(past)] /\ past' = Front(past) /\ future' = Append(future, layout)
  /\ UNCHANGED <<originalCanvas, selectedIds, transaction, nextToken, drag, field>>
RedoEdit ==
  /\ transaction = NoTransaction /\ future # <<>>
  /\ layout' = future[Len(future)] /\ future' = Front(future)
  /\ past' = Append(past, layout)
  /\ UNCHANGED <<originalCanvas, selectedIds, transaction, nextToken, drag, field>>

\* The pointer goes down on a selected image, on a handle of any image, or on
\* the border of the canvas.
StartDrag ==
  /\ drag' = nextToken /\ UNCHANGED field
  /\ \/ \E i \in SelectedItems :
          Begins([type |-> "move-selection"], Focused(layout.items[i].id))
     \/ \E i \in DOMAIN layout.items, edge \in {"e", "w"} :
          LET id == layout.items[i].id IN
          Begins([type |-> "resize-selection", edge |-> edge],
                 IF id \in IdSet THEN Focused(id) ELSE <<id>>)
     \/ \E scaleItems \in BOOLEAN :
          Begins([type |-> "resize-canvas", scaleItems |-> scaleItems], <<>>)
DragMoves == PreviewTransaction(drag) /\ UNCHANGED <<drag, field>>
DragEnds == /\ drag # 0 /\ drag' = 0 /\ UNCHANGED field
            /\ \E disposition \in {"commit", "rollback"} :
                 FinishTransaction(drag, disposition)

FocusField ==
  /\ field = 0 /\ field' = nextToken /\ UNCHANGED drag
  /\ \/ /\ SelectedItems # {}
        /\ \E name \in {"x", "width"} :
             Begins([type |-> "primary-field", field |-> name], selectedIds)
     \/ Begins([type |-> "canvas-dimension"], selectedIds)
TypeValue == PreviewTransaction(field) /\ UNCHANGED <<drag, field>>
LeaveField == /\ field # 0 /\ field' = 0 /\ UNCHANGED drag
              /\ \E disposition \in {"commit", "rollback"} :
                   FinishTransaction(field, disposition)

EditorNext ==
  \/ ApplyLayout \/ SelectItem \/ ClearSelection \/ NudgeSelection \/ ChangeLayer
  \/ ChangeCanvas \/ UndoEdit \/ RedoEdit \/ StartDrag \/ DragMoves \/ DragEnds
  \/ FocusField \/ TypeValue \/ LeaveField

EditorSpec == EditorInit /\ [][EditorNext]_editorVars

-----------------------------------------------------------------------------
Layouts == {layout} \cup {past[k] : k \in DOMAIN past}
           \cup {future[k] : k \in DOMAIN future}

EditorTypeOK ==
  /\ \A l \in Layouts : l.canvas \in MinCanvas..MaxCanvas
  /\ originalCanvas \in MinCanvas..MaxCanvas
  /\ IdSet \subseteq Ids(layout.items) /\ IsInjective(selectedIds)
  /\ nextToken \in 1..MaxToken + 1
  /\ {transaction.token, drag, field} \subseteq 0..MaxToken
  /\ Len(past) + Len(future) <= HistoryLimit

(***************************************************************************)
(* Whatever is dragged, resized, typed, scaled and undone, an image reaches *)
(* past the right edge of its canvas by no more units than it was resized, *)
(* and past the left edge by no more than all images were. isValidLayout,  *)
(* and the server on a save, ask for less: no unit, and a finite scale.    *)
(* But a left edge that is dragged to half a unit adds one, as the place   *)
(* and the width are both rounded up (layout.ts, resizeItemFromEdge); a    *)
(* move of several images then pushes the others off to the left; and the  *)
(* scale becomes infinite (updateScale), after which nothing is counted.   *)
(***************************************************************************)
Resizes(l) == FoldSeq(LAMBDA item, n : n + item.scale, 0, l.items)

LayoutsAlmostFit ==
  \A l \in Layouts :
    (\A i \in DOMAIN l.items : l.items[i].scale < InfiniteScale) =>
      \A i \in DOMAIN l.items :
        LET item == l.items[i] IN
        /\ item.width > 0 /\ item.x >= -Resizes(l)
        /\ item.x + item.width <= l.canvas + item.scale

\* The layers of every layout are a permutation, so that moving an image up
\* or down by one layer always changes the order (normalizeItemLayers).
LayersAreOrdered ==
  \A l \in Layouts : {l.items[i].z : i \in DOMAIN l.items} = 0..Len(l.items) - 1

(***************************************************************************)
(* An open transaction can always be finished: the pointer or a field      *)
(* holds its token, and no two of them hold the same, even when a load has *)
(* superseded the transaction of one of them (nextTransactionToken).       *)
(***************************************************************************)
TransactionsHaveHolders ==
  /\ transaction # NoTransaction => transaction.token \in {drag, field}
  /\ drag # 0 => drag # field


(***************************************************************************)
(* Undo and redo: the document implements one line of time, in which the   *)
(* present is the layout from before the open transaction.                 *)
(***************************************************************************)
Present == IF transaction = NoTransaction THEN layout ELSE transaction.baseline
Timeline == INSTANCE EditorTimeline WITH
  Limit <- HistoryLimit,
  timeline <- past \o <<Present>> \o Reverse(future),
  point <- Len(past) + 1
ImplementsTimeline == Timeline!Spec

\* An edit that leaves every image where it is, as large as it is and on its
\* layer is no step of the history (sameLayout, commitEdit).
Geometry(l) ==
  [canvas |-> l.canvas,
   items |-> [i \in DOMAIN l.items |-> <<l.items[i].x, l.items[i].width, l.items[i].z>>]]
NoOpsAreNotRecorded ==
  [][past' # past /\ past' # <<>> /\ future' = <<>> /\ layout' # past'[Len(past')]
       => Geometry(layout') # Geometry(past'[Len(past')])]_editorVars
=============================================================================
