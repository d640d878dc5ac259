---------------------------- MODULE PieceScatter ----------------------------
(***************************************************************************)
(* Where packages/core puts the pieces that are not solved: the scatter of *)
(* a new room and the button that arranges the loose groups on a side of   *)
(* the board.  Pieces lie in the plane, in whole units; what a player's    *)
(* drop does to the groups is that of JigsawGroups, reduced to where it    *)
(* leaves them.  The seeded shuffles are any order.                        *)
(***************************************************************************)
EXTENDS Integers, FiniteSets, FiniteSetsExt, SequencesExt, TLC

CONSTANTS
  Rows, Columns,             \* of the puzzle
  PieceWidth, PieceHeight,
  Margin,                    \* getScatterVisualMargin: what tabs may stick out
  ScatterGap,
  Modes,                     \* ArrangeLoosePiecesMode
  DropSpots,                 \* bound: where players drop pieces
  MaxMoves                   \* bound: drops and arrangements

ASSUME SizesAssumption ==
  /\ {Rows, Columns, PieceWidth, PieceHeight} \subseteq Nat \ {0}
  /\ {Margin, ScatterGap} \subseteq Nat
ASSUME SpotsAssumption == DropSpots \subseteq Int \X Int /\ MaxMoves \in Nat
ASSUME ModesAssumption == Modes \subseteq {"perimeter", "top", "right", "bottom", "left"}

VARIABLES
  at,        \* at[p]: the corner <<x, y>> of piece p
  clusters,  \* the groups, as the sets of their pieces
  solved,    \* the groups that are locked at their place
  slotted,   \* history: the groups that are where they were put last
  side,      \* history: the mode of the last arrangement, or scatter
  moves      \* drops and arrangements so far

scatterVars == <<at, clusters, solved, slotted, side, moves>>

Pieces == (0 .. Columns - 1) \X (0 .. Rows - 1)
Sides == {"top", "right", "bottom", "left"}

-----------------------------------------------------------------------------
(***************************************************************************)
(* Geometry.                                                               *)
(***************************************************************************)
CorrectAt(p) == <<p[1] * PieceWidth, p[2] * PieceHeight>>
Rect(x, y, width, height) == [x |-> x, y |-> y, width |-> width, height |-> height]
BoardRect == Rect(0, 0, Columns * PieceWidth, Rows * PieceHeight)
Widened(r, gap) == Rect(r.x - gap, r.y - gap, r.width + 2 * gap, r.height + 2 * gap)

RectsOverlap(r, s) ==
  /\ r.x < s.x + s.width /\ s.x < r.x + r.width
  /\ r.y < s.y + s.height /\ s.y < r.y + r.height

\* getGroupBounds
Bounds(g) ==
  LET minX == Min({at[p][1] : p \in g})
      minY == Min({at[p][2] : p \in g})
  IN  Rect(minX - Margin, minY - Margin,
           Max({at[p][1] : p \in g}) - minX + PieceWidth + 2 * Margin,
           Max({at[p][2] : p \in g}) - minY + PieceHeight + 2 * Margin)

\* translateGroup
Translated2D(p, shift) == <<at[p][1] + shift[1], at[p][2] + shift[2]>>

-----------------------------------------------------------------------------
(***************************************************************************)
(* The slots around the board, ring by ring.                               *)
(***************************************************************************)
\* A group of n pieces in a row, with its tabs and the gap to the next one.
SlotSize(n, pieceSize) == n * pieceSize + 2 * Margin + ScatterGap

CeilDiv(n, d) == -((-n) \div d)
SlotsAlong(length, slot) == Max({1, CeilDiv(length, slot)})

FirstRing == 1

\* The slots of a ring, in the grid that slots of this size make.
Ring(ring, width, height) ==
  LET columns == SlotsAlong(BoardRect.width, width)
      rows == SlotsAlong(BoardRect.height, height)
  IN  {[ring |-> ring, gridX |-> x, gridY |-> y, x |-> x * width, y |-> y * height] :
         x \in -ring .. columns + ring - 1, y \in -ring .. rows + ring - 1}
      \ {[ring |-> ring, gridX |-> x, gridY |-> y, x |-> x * width, y |-> y * height] :
         x \in 1 - ring .. columns + ring - 2, y \in 1 - ring .. rows + ring - 2}

\* What is kept of the rings up to the first at which that is enough.
SlotsOf(kept, enough) ==
  LET upTo[ring \in FirstRing - 1 .. FirstRing + enough] ==
        IF ring < FirstRing THEN {}
        ELSE LET inner == upTo[ring - 1]
             IN  IF Cardinality(inner) >= enough THEN inner
                 ELSE inner \cup kept[ring]
  IN  upTo[FirstRing + enough]

\* createScatterSlots: slots that keep clear of the board and the gap around it.
ScatterSlots(count, width, height) ==
  LET KeepsClear(s) == ~RectsOverlap(Rect(s.x, s.y, width, height),
                                     Widened(BoardRect, ScatterGap))
  IN  SlotsOf([ring \in FirstRing .. FirstRing + count |->
                 {s \in Ring(ring, width, height) : KeepsClear(s)}], count)

Above0(n) == IF n > 0 THEN n ELSE 0

\* How far a slot of this size reaches beyond a side of the board.
Beyond(s, width, height) ==
  [top |-> Above0(-s.y), left |-> Above0(-s.x),
   right |-> Above0(s.x + width - BoardRect.width),
   bottom |-> Above0(s.y + height - BoardRect.height)]

Opposite == [top |-> "bottom", bottom |-> "top", left |-> "right", right |-> "left"]

\* getSideScore, in twentieths: close to the side, not around its corners.
SideScore(beyond, mode) ==
  LET beside == Sides \ {mode, Opposite[mode]}
  IN  (IF beyond[mode] = 0 THEN 200000 ELSE 0)
      + 7 * beyond[mode] + 40 * beyond[Opposite[mode]]
      + 14 * Min({beyond[s] : s \in beside})

\* perimeterScore and getCornerPenalty: the nearest ring, corners last.
PerimeterScore(ring, beyond) ==
  20 * ring + (IF Cardinality({s \in Sides : beyond[s] > 0}) > 1 THEN 7 ELSE 0)

\* createBalancedPerimeterSlots for groups of so many columns and rows of
\* pieces, with the scores that createArrangeSlots sorts the slots by.
ArrangeSlots ==
  [count \in 1 .. Cardinality(Pieces), columns \in 1 .. Columns, rows \in 1 .. Rows,
   mode \in Modes |->
     LET width == SlotSize(columns, PieceWidth)
         height == SlotSize(rows, PieceHeight)
         Outside(s) == LET beyond == Beyond(s, width, height)
                       IN  beyond.top + beyond.right + beyond.bottom + beyond.left
                             > ScatterGap
         Score(s) == LET beyond == Beyond(s, width, height)
                     IN  IF mode = "perimeter" THEN PerimeterScore(s.ring, beyond)
                         ELSE SideScore(beyond, mode)
         kept == [ring \in FirstRing .. FirstRing + 4 * count |->
                    {s \in Ring(ring, width, height) : Outside(s)}]
     IN  {[slot |-> s, score |-> Score(s)] : s \in SlotsOf(kept, 4 * count)}]

\* The sort keeps slots of one score in the order they were made in.
Earlier(s, t) ==
  \/ s.ring < t.ring
  \/ s.ring = t.ring /\ s.gridY < t.gridY
  \/ s.ring = t.ring /\ s.gridY = t.gridY /\ s.gridX < t.gridX

BestSlot(candidates) ==
  LET least == Min({c.score : c \in candidates})
      best == {c.slot : c \in {d \in candidates : d.score = least}}
  IN  CHOOSE s \in best : \A t \in best \ {s} : Earlier(s, t)

\* What a group takes at a slot.
Taken(bounds, s) == Rect(s.x, s.y, bounds.width + ScatterGap, bounds.height + ScatterGap)

\* Mutant of IsFree: only the slot itself has to be free.
SlotIsFree(rect, taken) == \A other \in taken : rect.x # other.x \/ rect.y # other.y
IsFree(rect, taken) == \A other \in taken : ~RectsOverlap(rect, other)

\* packGroupsIntoSlots: each group in turn takes the best slot that is free
\* for it; a group without one stays, and what it covers does not count.
Packed(order, candidates) ==
  LET Pack(packed, g) ==
        LET bounds == Bounds(g)
            taken == {packed[h] : h \in DOMAIN packed}
            free == {c \in candidates : IsFree(Taken(bounds, c.slot), taken)}
        IN  IF free = {} THEN packed
            ELSE packed @@ (g :> Taken(bounds, BestSlot(free)))
  IN  FoldLeft(Pack, <<>>, order)

-----------------------------------------------------------------------------
(***************************************************************************)
(* What moves the pieces.                                                  *)
(***************************************************************************)
OnePiece == {{p} : p \in Pieces}

\* shuffle: any order, whatever the seed.
Orders(groups) == SetToSeqs(groups)

\* scatterAllPieces: every piece in a slot of its own.
Scattered ==
  LET slots == ScatterSlots(Cardinality(Pieces), SlotSize(1, PieceWidth),
                            SlotSize(1, PieceHeight))
  IN  {[p \in Pieces |-> <<slot[p].x + Margin, slot[p].y + Margin>>] :
         slot \in {f \in [Pieces -> slots] : IsInjective(f)}}

ScatterInit ==
  /\ at \in Scattered
  /\ clusters = OnePiece
  /\ solved = {}
  /\ slotted = OnePiece
  /\ side = "scatter"
  /\ moves = 0

\* getBaseBounds, in columns or rows of pieces: the middle of the sorted
\* sizes, of two the larger.
Length(g, axis) == Max({p[axis] : p \in g}) - Min({p[axis] : p \in g}) + 1
Middle(groups, axis) ==
  CHOOSE n \in {Length(g, axis) : g \in groups} :
    /\ 2 * Cardinality({g \in groups : Length(g, axis) < n}) <= Cardinality(groups)
    /\ 2 * Cardinality({g \in groups : Length(g, axis) <= n}) > Cardinality(groups)

\* arrangeLoosePieces: groups over the board stay, but count for the slots.
Arrange(mode) ==
  LET loose == clusters \ solved
      arranged == {g \in loose : ~RectsOverlap(Bounds(g), BoardRect)}
      candidates == ArrangeSlots[Cardinality(arranged), Middle(loose, 1),
                                 Middle(loose, 2), mode]
  IN  /\ arranged # {}
      /\ \E order \in Orders(arranged) :
           LET packed == Packed(order, candidates)
               Shift(g) == <<packed[g].x - Bounds(g).x, packed[g].y - Bounds(g).y>>
           IN  /\ at' = [p \in Pieces |->
                          IF \E g \in DOMAIN packed : p \in g
                          THEN LET g == CHOOSE h \in DOMAIN packed : p \in h
                               IN  Translated2D(p, Shift(g))
                          ELSE at[p]]
               /\ slotted' = DOMAIN packed
      /\ side' = mode
      /\ UNCHANGED <<clusters, solved>>

Adjacent(p, q) ==
  <<p[1] - q[1], p[2] - q[2]>> \in {<<1, 0>>, <<-1, 0>>, <<0, 1>>, <<0, -1>>}
Fits(p, q, place) ==
  /\ Adjacent(p, q)
  /\ place[p][1] - place[q][1] = CorrectAt(p)[1] - CorrectAt(q)[1]
  /\ place[p][2] - place[q][2] = CorrectAt(p)[2] - CorrectAt(q)[2]

\* A drop that brings piece p to a spot, its place or a neighboring piece's
\* side; the snap distances are less than a unit.
Targets(p) ==
  DropSpots \cup {CorrectAt(p)}
  \cup {<<at[q][1] + CorrectAt(p)[1] - CorrectAt(q)[1],
          at[q][2] + CorrectAt(p)[2] - CorrectAt(q)[2]>> :
            q \in {r \in Pieces : Adjacent(p, r)}}

Drop(g, p, target) ==
  LET shift == <<target[1] - at[p][1], target[2] - at[p][2]>>
      moved == [q \in Pieces |-> IF q \in g THEN Translated2D(q, shift) ELSE at[q]]
      fitting == {h \in clusters \ {g} : \E q \in g, r \in h : Fits(q, r, moved)}
      isSolved == \E q \in g : moved[q] = CorrectAt(q)
  IN  /\ at' = moved
      /\ solved' = IF isSolved THEN solved \cup {g} ELSE solved
      /\ \/ /\ isSolved \/ fitting = {}
            /\ slotted' = slotted \ {g}
            /\ UNCHANGED clusters
         \/ /\ ~isSolved
            /\ \E h \in fitting :
                 /\ clusters' = (clusters \ {g, h}) \cup {g \cup h}
                 /\ slotted' = slotted \ {g, h}
      /\ UNCHANGED side

ScatterNext ==
  /\ moves < MaxMoves /\ moves' = moves + 1
  /\ \/ \E mode \in Modes : Arrange(mode)
     \/ \E g \in clusters \ solved : \E p \in g : \E target \in Targets(p) :
          Drop(g, p, target)

ScatterSpec == ScatterInit /\ [][ScatterNext]_scatterVars

-----------------------------------------------------------------------------
(***************************************************************************)
(* Properties.                                                             *)
(***************************************************************************)
\* The groups part the pieces, no arrangement shifts pieces of a group
\* against each other, and solved groups lie at their place.
ScatterTypeOK ==
  /\ UNION clusters = Pieces /\ {} \notin clusters
  /\ \A g, h \in clusters : g = h \/ g \cap h = {}
  /\ \A g \in clusters : \A p, q \in g :
       \A i \in 1 .. 2 : at[p][i] - at[q][i] = CorrectAt(p)[i] - CorrectAt(q)[i]
  /\ solved \cup slotted \subseteq clusters
  /\ \A p \in UNION solved : at[p] = CorrectAt(p)
  /\ side \in Modes \cup {"scatter"}
  /\ moves \in 0 .. MaxMoves

\* Groups of any size that were put into slots of one size lie apart, with
\* the gap between them, tabs included: packGroupsIntoSlots measures what a
\* group takes, not the slot, although a wide group takes several slots.
SlotsAreApart ==
  LET taken == {[group |-> g, place |-> Taken(Bounds(g), Bounds(g))] : g \in slotted}
  IN  \A s, t \in taken : s = t \/ ~RectsOverlap(s.place, t.place)

\* A single piece that is put into a slot leaves the board free: the slots
\* are as large as the median group, so the grid of the slots beyond the board
\* begins where a single piece cannot reach back into it.
SinglesLeaveTheBoard ==
  \A g \in slotted \cap OnePiece : ~RectsOverlap(Bounds(g), BoardRect)

\* Single pieces arranged on a side lie beyond that side (getSideScore), as long
\* as it has slots for them, whatever the larger groups beside them took.
SideIsKept ==
  side \in Sides =>
    \A g \in slotted \cap OnePiece :
      Beyond(Bounds(g), Bounds(g).width, Bounds(g).height)[side] > 0

\* Scattered and arranged groups lie apart, off the board, and on the side that
\* was chosen, over any series of scatters, drops and arrangements.
ScatterInv ==
  /\ ScatterTypeOK
  /\ SlotsAreApart
  /\ SinglesLeaveTheBoard
  /\ SideIsKept

=============================================================================
