---------------------------- MODULE JigsawGroups ----------------------------
(***************************************************************************)
(* The puzzle state of packages/core: pieces, the groups they are joined   *)
(* into, and the two ways a dropped group snaps.                           *)
(*                                                                         *)
(* Geometry is reduced to one axis: offset[p] is the displacement of piece *)
(* p from its correct position, so two neighbors fit exactly when their    *)
(* offsets are equal and a piece is at its place when its offset is zero.  *)
(* A group keeps the identifier it was created with, and its first piece   *)
(* (the anchor) never changes, so a group is named by that piece.  A group *)
(* that mergeGroups deleted has no pieces.                                 *)
(***************************************************************************)
EXTENDS Integers, FiniteSets

CONSTANTS
  Piece,           \* the pieces of the puzzle
  Neighbor,        \* the pairs of pieces that share an edge
  Offset,          \* the displacements a group can be dropped at
  OnBoard,         \* the displacements at which a group overlaps the board
  SnapToCorrect,   \* config.snapToCorrectDistance
  SnapToNeighbor   \* config.snapToNeighborDistance

ASSUME PieceAssumption == IsFiniteSet(Piece) /\ Piece # {}
ASSUME NeighborAssumption == Neighbor \subseteq Piece \X Piece
ASSUME OffsetAssumption ==
  /\ Offset \subseteq Int
  /\ OnBoard \subseteq Offset
  /\ Offset \ OnBoard # {}
ASSUME SnapAssumption == SnapToCorrect \in Nat /\ SnapToNeighbor \in Nat

VARIABLES
  offset,        \* offset[p]: displacement of p from its correct position
  pieceIds,      \* pieceIds[g]: the pieces of group g, {} once g is deleted
  groupOf,       \* groupOf[p]: the groupId stored in piece p
  lockedGroups,  \* the groups whose locked flag is set
  placed,        \* the pieces whose placed flag is set
  lockedPieces,  \* the pieces whose locked flag is set
  snapCount      \* state.snapCount

puzzleVars ==
  <<offset, pieceIds, groupOf, lockedGroups, placed, lockedPieces, snapCount>>

Group == Piece

PuzzleTypeOK ==
  /\ offset \in [Piece -> Int]
  /\ pieceIds \in [Group -> SUBSET Piece]
  /\ groupOf \in [Piece -> Group]
  /\ lockedGroups \subseteq Group
  /\ placed \subseteq Piece
  /\ lockedPieces \subseteq Piece
  /\ snapCount \in Nat

\* createJigsawState gives every piece a group of its own and scatterAllPieces
\* spreads the groups around the board.
PuzzleInit ==
  /\ offset \in [Piece -> Offset \ OnBoard]
  /\ pieceIds = [g \in Group |-> {g}]
  /\ groupOf = [p \in Piece |-> p]
  /\ lockedGroups = {}
  /\ placed = {}
  /\ lockedPieces = {}
  /\ snapCount = 0

-----------------------------------------------------------------------------
(* Groups *)

Exists(g) == pieceIds[g] # {}

Abs(n) == IF n < 0 THEN -n ELSE n

\* Mutant of Translated: a locked group moves like any other.
TranslatedEvenLocked(g, delta) ==
  [p \in Piece |-> IF p \in pieceIds[g] THEN offset[p] + delta ELSE offset[p]]

\* The offsets after translateGroup: a locked or deleted group stays put.
Translated(g, delta) ==
  [p \in Piece |->
     IF p \in pieceIds[g] /\ g \notin lockedGroups
     THEN offset[p] + delta ELSE offset[p]]

\* The offsets after moveGroupToAnchor put the group's first piece at t.
MovedTo(g, t) == Translated(g, t - offset[g])

\* Every piece that translateGroup moves loses its placed flag.
PlacedAfterMove(g) ==
  IF g \in lockedGroups THEN placed ELSE placed \ pieceIds[g]

\* Mutant of MergedPieceIds: the merged group is not deleted.
MergedPieceIdsKept(keep, merge) ==
  [pieceIds EXCEPT ![keep] = @ \cup pieceIds[merge]]

\* The pieces of every group after mergeGroups(keep, merge).
MergedPieceIds(keep, merge) ==
  IF keep = merge \/ ~Exists(merge)
  THEN pieceIds
  ELSE [pieceIds EXCEPT ![keep] = @ \cup pieceIds[merge], ![merge] = {}]

\* The groupId of every piece after mergeGroups(keep, merge).
MergedGroupOf(keep, merge) ==
  [p \in Piece |-> IF p \in pieceIds[merge] THEN keep ELSE groupOf[p]]

-----------------------------------------------------------------------------
(* Snapping *)

\* findCorrectSnap: some piece of the unlocked group lies near its place.
SnapsToCorrect(g, off) ==
  /\ g \notin lockedGroups
  /\ \E p \in pieceIds[g] : Abs(off[p]) <= SnapToCorrect

Gap(pair, off) == off[pair[2]] - off[pair[1]]

\* Mutant of NeighborCandidates: a neighbor may be in the group itself.
CandidatesWithin(g, off) ==
  {pair \in Neighbor :
     /\ g \notin lockedGroups
     /\ pair[1] \in pieceIds[g]
     /\ Abs(Gap(pair, off)) <= SnapToNeighbor}

\* findNeighborSnap's candidates: a piece of the unlocked group and a neighbor
\* outside the group that lies nearly where it fits.
NeighborCandidates(g, off) ==
  {pair \in Neighbor :
     /\ g \notin lockedGroups
     /\ pair[1] \in pieceIds[g]
     /\ pair[2] \notin pieceIds[g]
     /\ Abs(Gap(pair, off)) <= SnapToNeighbor}

\* findNeighborSnap takes a closest candidate.
NeighborSnaps(g, off) ==
  {pair \in NeighborCandidates(g, off) :
     \A other \in NeighborCandidates(g, off) :
        Abs(Gap(pair, off)) <= Abs(Gap(other, off))}

\* A moved group: MOVE messages while it is dragged.
MoveGroupToAnchor(g, t) ==
  /\ offset' = MovedTo(g, t)
  /\ placed' = PlacedAfterMove(g)
  /\ UNCHANGED <<pieceIds, groupOf, lockedGroups, lockedPieces, snapCount>>

\* A drop that snaps to the board: lockGroupToCorrectPositions.
DropCorrect(g, t) ==
  /\ SnapsToCorrect(g, MovedTo(g, t))
  /\ offset' = [p \in Piece |-> IF p \in pieceIds[g] THEN 0 ELSE offset[p]]
  /\ placed' = placed \cup pieceIds[g]
  /\ lockedPieces' = lockedPieces \cup pieceIds[g]
  /\ lockedGroups' = lockedGroups \cup {g}
  /\ snapCount' = snapCount + 1
  /\ UNCHANGED <<pieceIds, groupOf>>

\* A drop that snaps to a neighbor: the dropped group is aligned and absorbs
\* the neighbor's group, and lockGroupIfSolved locks a result that lies
\* exactly at its place.
JoinNeighbor(g, t, pair) ==
  LET moved   == MovedTo(g, t)
      aligned == MovedTo(g, t + Gap(pair, moved))
      target  == groupOf[pair[2]]
      merged  == MergedPieceIds(g, target)
      solved  == \A p \in merged[g] : aligned[p] = 0
      fixed   == IF solved THEN merged[g] ELSE {}
      kept    == {g2 \in Group : merged[g2] # {}}
  IN  /\ offset' = aligned
      /\ pieceIds' = merged
      /\ groupOf' = MergedGroupOf(g, target)
      /\ placed' = PlacedAfterMove(g) \cup fixed
      /\ lockedPieces' = lockedPieces \cup fixed
      /\ lockedGroups' = {g2 \in (lockedGroups \cup {g}) \cap kept :
                            g2 = g => merged[g] \subseteq lockedPieces \cup fixed}
      /\ snapCount' = snapCount + 1

DropNeighbor(g, t) ==
  /\ ~SnapsToCorrect(g, MovedTo(g, t))
  /\ \E pair \in NeighborSnaps(g, MovedTo(g, t)) : JoinNeighbor(g, t, pair)

\* A drop that snaps to nothing only moves the group.
DropLoose(g, t) ==
  /\ ~SnapsToCorrect(g, MovedTo(g, t))
  /\ NeighborCandidates(g, MovedTo(g, t)) = {}
  /\ MoveGroupToAnchor(g, t)

\* moveGroupToAnchor and snapDroppedGroup, as RoomCommands.dropGroup calls
\* them in one go.
SnapDroppedGroup(g, t) ==
  DropCorrect(g, t) \/ DropNeighbor(g, t) \/ DropLoose(g, t)

\* Mutant of LooseGroups: every group is arranged.
AllGroups == {g \in Group : Exists(g)}

\* arrangeLoosePieces moves every unlocked group that is not over the board to
\* a slot of its own.
LooseGroups ==
  {g \in Group : /\ Exists(g)
                 /\ g \notin lockedGroups
                 /\ \E p \in pieceIds[g] : p \notin placed
                 /\ offset[g] \notin OnBoard}

\* A piece's own group is read from groupOf, which names the group that lists
\* it (GroupIndex).
ArrangeLoosePieces ==
  /\ LooseGroups # {}
  /\ \E slot \in [Group -> Offset] :
       offset' = [p \in Piece |->
                    IF groupOf[p] \in LooseGroups
                    THEN offset[p] + slot[groupOf[p]] - offset[groupOf[p]]
                    ELSE offset[p]]
  /\ placed' = placed \ UNION {pieceIds[g] : g \in LooseGroups}
  /\ UNCHANGED <<pieceIds, groupOf, lockedGroups, lockedPieces, snapCount>>

-----------------------------------------------------------------------------

PuzzleNext ==
  \/ \E g \in Group, t \in Offset : MoveGroupToAnchor(g, t)
  \/ \E g \in Group, t \in Offset : SnapDroppedGroup(g, t)
  \/ ArrangeLoosePieces

PuzzleSpec == PuzzleInit /\ [][PuzzleNext]_puzzleVars

-----------------------------------------------------------------------------
(* Properties *)

\* The two records of membership agree: the group that lists a piece is the
\* one the piece names, although mergeGroups updates them separately, and a
\* group that exists still holds the piece it is anchored at.
GroupIndex ==
  /\ \A p \in Piece, g \in Group : p \in pieceIds[g] <=> groupOf[p] = g
  /\ \A g \in Group : Exists(g) => g \in pieceIds[g]

\* The pieces of a group fit exactly: no series of moves, drops, merges and
\* arrangements shifts one piece of a group against another.
RigidGroups ==
  \A g \in Group : \A p \in pieceIds[g] : offset[p] = offset[g]

\* The locked flag of a group, the locked flags of its pieces and their placed
\* flags tell the same story, and a placed piece is exactly at its place.
SolvedTogether ==
  /\ lockedPieces = placed
  /\ lockedGroups = {g \in Group : Exists(g) /\ pieceIds[g] \subseteq placed}
  /\ \A g \in Group \ lockedGroups : pieceIds[g] \cap placed = {}
  /\ \A p \in placed : offset[p] = 0

\* The groups part the pieces, rigidly and with flags that agree, after every
\* series of operations. The parts need each other: the partition says what a
\* group's pieces are, rigidity that aligning one pair aligns the group, and
\* the flags that a group that moves is not placed.
PuzzleInv == PuzzleTypeOK /\ GroupIndex /\ RigidGroups /\ SolvedTogether

\* Every counted snap is progress that is never counted twice: it removes a
\* group or locks one, so the count is bounded by the size of the puzzle.
SnapsAreProgress ==
  LET existing == {g \in Group : Exists(g)}
  IN  snapCount + Cardinality(existing) + Cardinality(existing \ lockedGroups)
        <= 2 * Cardinality(Piece)

\* A placed piece stays placed and does not move again.
PlacedForGood ==
  [][/\ placed \subseteq placed'
     /\ \A p \in placed : offset'[p] = offset[p]]_puzzleVars

\* Seen as blocks and placed pieces, every operation on the groups is a step
\* of the abstract puzzle, or changes nothing in it.
Board == INSTANCE JigsawBoard
           WITH blocks <- {pieceIds[g] : g \in {h \in Group : Exists(h)}}

ImplementsBoard == Board!Spec

=============================================================================
