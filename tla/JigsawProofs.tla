---------------------------- MODULE JigsawProofs ----------------------------
(***************************************************************************)
(* Proofs about the puzzle and about the room around it.                   *)
(***************************************************************************)
EXTENDS JigsawRoom, FiniteSetTheorems, TLAPS

-----------------------------------------------------------------------------
(***************************************************************************)
(* The groups of the puzzle stay a partition, rigid and consistently       *)
(* flagged, for every puzzle and every choice of snap distances.           *)
(***************************************************************************)

\* Moving a loose group to t puts all of its pieces at t and no other piece
\* anywhere else.
LEMMA MovedOffsets ==
  ASSUME PuzzleInv, NEW g \in Group, NEW t \in Int
  PROVE  /\ MovedTo(g, t) \in [Piece -> Int]
         /\ \A p \in Piece :
              MovedTo(g, t)[p] = IF p \in pieceIds[g] /\ g \notin lockedGroups
                                 THEN t ELSE offset[p]
<1>1. /\ offset \in [Piece -> Int]
      /\ offset[g] \in Int
      /\ \A p \in pieceIds[g] : offset[p] = offset[g]
  BY DEF PuzzleInv, PuzzleTypeOK, RigidGroups, Group
<1>2. MovedTo(g, t) = [p \in Piece |-> IF p \in pieceIds[g] /\ g \notin lockedGroups
                                       THEN offset[p] + (t - offset[g]) ELSE offset[p]]
  BY DEF MovedTo, Translated
<1>3. \A p \in Piece : offset[p] \in Int
  BY <1>1
<1>4. ASSUME NEW p \in Piece
      PROVE  /\ MovedTo(g, t)[p] = IF p \in pieceIds[g] /\ g \notin lockedGroups
                                   THEN t ELSE offset[p]
             /\ MovedTo(g, t)[p] \in Int
  BY <1>1, <1>2, <1>3
<1>5. QED
  BY <1>2, <1>4, <1>1, <1>3

\* What a dropped or dragged group keeps: moving it changes neither the groups
\* nor the flags, and leaves the group at the target.
LEMMA MovePreserves ==
  ASSUME PuzzleInv, NEW g \in Group, NEW t \in Int, MoveGroupToAnchor(g, t)
  PROVE  PuzzleInv' /\ placed' = placed
<1> USE DEF Group
<1>1. /\ offset' \in [Piece -> Int]
      /\ \A p \in Piece : offset'[p] = IF p \in pieceIds[g] /\ g \notin lockedGroups
                                       THEN t ELSE offset[p]
  BY MovedOffsets DEF MoveGroupToAnchor
<1>2. placed' = placed
  BY DEF MoveGroupToAnchor, PlacedAfterMove, PuzzleInv, SolvedTogether
<1>3. UNCHANGED <<pieceIds, groupOf, lockedGroups, lockedPieces, snapCount>>
  BY DEF MoveGroupToAnchor
<1>4. PuzzleTypeOK'
  BY <1>1, <1>2, <1>3 DEF PuzzleInv, PuzzleTypeOK
<1>5. GroupIndex'
  BY <1>3 DEF PuzzleInv, GroupIndex, Exists
<1>6. RigidGroups'
  BY <1>1, <1>3 DEF PuzzleInv, PuzzleTypeOK, RigidGroups, GroupIndex, Exists
<1>7. SolvedTogether'
  BY <1>1, <1>2, <1>3 DEF PuzzleInv, PuzzleTypeOK, SolvedTogether, Exists
<1>8. QED
  BY <1>2, <1>4, <1>5, <1>6, <1>7 DEF PuzzleInv

\* A group that reaches the board is placed as a whole.
LEMMA CorrectPreserves ==
  ASSUME PuzzleInv, NEW g \in Group, NEW t \in Int, DropCorrect(g, t)
  PROVE  /\ PuzzleInv'
         /\ g \notin lockedGroups
         /\ Exists(g)
         /\ placed' = placed \cup pieceIds[g]
         /\ \A p \in placed : offset'[p] = offset[p]
<1> USE DEF Group
<1>1. /\ g \notin lockedGroups
      /\ Exists(g)
  BY DEF DropCorrect, SnapsToCorrect, Exists
<1>2. /\ offset' \in [Piece -> Int]
      /\ \A p \in Piece : offset'[p] = IF p \in pieceIds[g] THEN 0 ELSE offset[p]
  BY DEF DropCorrect, PuzzleInv, PuzzleTypeOK
<1>3. /\ placed' = placed \cup pieceIds[g]
      /\ lockedPieces' = lockedPieces \cup pieceIds[g]
      /\ lockedGroups' = lockedGroups \cup {g}
      /\ UNCHANGED <<pieceIds, groupOf>>
      /\ snapCount' = snapCount + 1
  BY DEF DropCorrect
<1>4. PuzzleTypeOK'
  BY <1>2, <1>3 DEF PuzzleInv, PuzzleTypeOK
<1>5. GroupIndex'
  BY <1>3 DEF PuzzleInv, GroupIndex, Exists
<1>6. RigidGroups'
  BY <1>2, <1>3 DEF PuzzleInv, PuzzleTypeOK, RigidGroups, GroupIndex, Exists
<1>7. SolvedTogether'
  <2>1. \A h \in Group : pieceIds[h] \cap pieceIds[g] # {} => h = g
    BY DEF PuzzleInv, PuzzleTypeOK, GroupIndex
  <2>2. \A p \in placed' : offset'[p] = 0
    BY <1>2, <1>3 DEF PuzzleInv, PuzzleTypeOK, SolvedTogether
  <2>3. lockedGroups' = {h \in Group : pieceIds[h] # {} /\ pieceIds[h] \subseteq placed'}
    BY <1>1, <1>3, <2>1 DEF PuzzleInv, PuzzleTypeOK, SolvedTogether, Exists
  <2>4. \A h \in Group \ lockedGroups' : pieceIds[h] \cap placed' = {}
    BY <1>3, <2>1 DEF PuzzleInv, PuzzleTypeOK, SolvedTogether
  <2>5. QED
    BY <1>3, <2>2, <2>3, <2>4 DEF PuzzleInv, SolvedTogether, Exists
<1>8. QED
  BY <1>1, <1>2, <1>3, <1>4, <1>5, <1>6, <1>7 DEF PuzzleInv, SolvedTogether, PuzzleTypeOK

\* Group g, dropped, has absorbed the group h of a pair and stands where h stood.
Absorbs(g, h, pair) ==
  /\ h \in Group /\ h # g /\ Exists(h) /\ Exists(g)
  /\ g \notin lockedGroups
  /\ pair[1] \in pieceIds[g] /\ pair[2] \in pieceIds[h]
  /\ pieceIds' = [pieceIds EXCEPT ![g] = pieceIds[g] \cup pieceIds[h], ![h] = {}]
  /\ groupOf' = [p \in Piece |-> IF p \in pieceIds[h] THEN g ELSE groupOf[p]]
  /\ offset' \in [Piece -> Int]
  /\ \A p \in Piece : offset'[p] = IF p \in pieceIds[g] THEN offset[h]
                                   ELSE offset[p]

\* The facts about a pair that a dropped group snaps to: the target group is
\* another existing group, the aligned group ends at the target's offset and
\* the joined group is the union of both.
LEMMA JoinFacts ==
  ASSUME PuzzleInv, NEW g \in Group, NEW t \in Int,
         NEW pair \in NeighborCandidates(g, MovedTo(g, t)),
         NEW h, h = groupOf[pair[2]],
         JoinNeighbor(g, t, pair)
  PROVE  Absorbs(g, h, pair)
<1> USE DEF Group
<1>1. /\ pair \in Piece \X Piece
      /\ pair[1] \in pieceIds[g]
      /\ pair[2] \in Piece \ pieceIds[g]
      /\ g \notin lockedGroups
  BY NeighborAssumption DEF NeighborCandidates
<1>2. /\ h \in Piece
      /\ pair[2] \in pieceIds[h]
      /\ h # g
      /\ Exists(h)
      /\ Exists(g)
  BY <1>1 DEF PuzzleInv, PuzzleTypeOK, GroupIndex, Exists
<1>3. MergedPieceIds(g, h) =
        [pieceIds EXCEPT ![g] = pieceIds[g] \cup pieceIds[h], ![h] = {}]
  BY <1>2 DEF MergedPieceIds, PuzzleInv, PuzzleTypeOK
<1>4. /\ MovedTo(g, t)[pair[1]] = t
      /\ MovedTo(g, t)[pair[2]] = offset[pair[2]]
  BY <1>1, MovedOffsets DEF PuzzleInv, PuzzleTypeOK
<1>5. offset[pair[2]] = offset[h] /\ offset[h] \in Int
  BY <1>2 DEF PuzzleInv, PuzzleTypeOK, RigidGroups
<1>6. t + Gap(pair, MovedTo(g, t)) = offset[h]
  BY <1>4, <1>5 DEF Gap
<1>7. offset' = MovedTo(g, offset[h])
  BY <1>6 DEF JoinNeighbor
<1>8. /\ offset' \in [Piece -> Int]
      /\ \A p \in Piece : offset'[p] = IF p \in pieceIds[g] THEN offset[h]
                                       ELSE offset[p]
  <2>1. PICK o : o = offset[h]
    OBVIOUS
  <2>2. o \in Int /\ offset' = MovedTo(g, o)
    BY <1>5, <1>7, <2>1
  <2>3. /\ MovedTo(g, o) \in [Piece -> Int]
        /\ \A p \in Piece :
             MovedTo(g, o)[p] = IF p \in pieceIds[g] /\ g \notin lockedGroups
                                THEN o ELSE offset[p]
    BY <2>2, MovedOffsets
  <2>4. QED
    BY <1>1, <2>1, <2>2, <2>3
<1>9. groupOf' = [p \in Piece |-> IF p \in pieceIds[h] THEN g ELSE groupOf[p]]
  BY DEF JoinNeighbor, MergedGroupOf
<1>10. pieceIds' = [pieceIds EXCEPT ![g] = pieceIds[g] \cup pieceIds[h], ![h] = {}]
  BY <1>3 DEF JoinNeighbor
<1>11. QED
  BY <1>1, <1>2, <1>8, <1>9, <1>10 DEF Absorbs

\* A join leaves the partition, the rigidity and the flags intact, whether the
\* target is loose, placed, or lies at its place without being placed.
LEMMA JoinPreserves ==
  ASSUME PuzzleInv, NEW g \in Group, NEW t \in Int,
         NEW pair \in NeighborCandidates(g, MovedTo(g, t)),
         NEW h, h = groupOf[pair[2]],
         JoinNeighbor(g, t, pair)
  PROVE  /\ PuzzleInv'
         /\ placed' = placed \/ placed' = placed \cup pieceIds[g] \cup pieceIds[h]
         /\ h \in lockedGroups => placed' = placed \cup pieceIds[g] \cup pieceIds[h]
         /\ \A p \in placed : offset'[p] = offset[p]
<1> USE DEF Group
<1> DEFINE J == pieceIds[g] \cup pieceIds[h]
           solved == \A p \in J : offset'[p] = 0
           fixed == IF solved THEN J ELSE {}
<1>1. /\ h \in Group /\ h # g /\ Exists(h) /\ Exists(g)
      /\ g \notin lockedGroups
      /\ pair[1] \in pieceIds[g] /\ pair[2] \in pieceIds[h]
      /\ pieceIds' = [pieceIds EXCEPT ![g] = J, ![h] = {}]
      /\ groupOf' = [p \in Piece |-> IF p \in pieceIds[h] THEN g ELSE groupOf[p]]
      /\ offset' \in [Piece -> Int]
      /\ \A p \in Piece : offset'[p] = IF p \in pieceIds[g] THEN offset[h]
                                       ELSE offset[p]
  <2>1. Absorbs(g, h, pair)
    BY JoinFacts
  <2>2. QED
    BY <2>1 DEF Absorbs
<1>2. /\ pieceIds \in [Piece -> SUBSET Piece]
      /\ groupOf \in [Piece -> Piece]
      /\ offset \in [Piece -> Int]
  BY DEF PuzzleInv, PuzzleTypeOK
<1>3. /\ pieceIds'[g] = J
      /\ pieceIds'[h] = {}
      /\ \A k \in Piece \ {g, h} : pieceIds'[k] = pieceIds[k]
      /\ pieceIds' \in [Piece -> SUBSET Piece]
  BY <1>1, <1>2
<1>4. /\ MergedPieceIds(g, h) = pieceIds'
      /\ offset' = MovedTo(g, t + Gap(pair, MovedTo(g, t)))
  BY DEF JoinNeighbor
<1>5. /\ PlacedAfterMove(g) = placed
      /\ placed' = placed \cup fixed
      /\ lockedPieces' = lockedPieces \cup fixed
      /\ snapCount' = snapCount + 1
  <2>1. PlacedAfterMove(g) = placed
    BY <1>1 DEF PlacedAfterMove, PuzzleInv, SolvedTogether
  <2>2. QED
    BY <1>3, <1>4, <2>1 DEF JoinNeighbor
<1>6. lockedGroups' = {k \in (lockedGroups \cup {g}) \cap {k2 \in Piece : pieceIds'[k2] # {}} :
                         k = g => J \subseteq lockedPieces \cup fixed}
  BY <1>3, <1>4 DEF JoinNeighbor
<1>7. \A p \in J : offset'[p] = offset[h]
  BY <1>1, <1>2 DEF PuzzleInv, RigidGroups
<1>8. \A k \in Piece : k # g /\ k # h => pieceIds[k] \cap J = {}
  BY <1>1, <1>2 DEF PuzzleInv, GroupIndex
<1>9. PuzzleTypeOK'
  BY <1>1, <1>2, <1>3, <1>5, <1>6 DEF PuzzleInv, PuzzleTypeOK
<1>10. GroupIndex'
  <2>1. \A p \in Piece, k \in Piece : p \in pieceIds'[k] <=> groupOf'[p] = k
    BY <1>1, <1>2, <1>3 DEF PuzzleInv, GroupIndex
  <2>2. \A k \in Piece : pieceIds'[k] # {} => k \in pieceIds'[k]
    BY <1>1, <1>2, <1>3 DEF PuzzleInv, GroupIndex, Exists
  <2>3. QED
    BY <2>1, <2>2 DEF GroupIndex, Exists
<1>11. RigidGroups'
  <2>1. g \in J
    BY <1>1 DEF PuzzleInv, GroupIndex
  <2>2. ASSUME NEW k \in Piece, NEW p \in pieceIds'[k]
        PROVE  offset'[p] = offset'[k]
    <3>1. CASE k = g
      BY <3>1, <2>1, <1>3, <1>7
    <3>2. CASE k # g /\ k # h
      <4>1. p \in pieceIds[k] /\ k \in pieceIds[k] /\ p \notin pieceIds[g] /\ k \notin pieceIds[g]
        BY <3>2, <1>1, <1>2, <1>3, <1>8 DEF PuzzleInv, GroupIndex, Exists
      <4>2. QED
        BY <4>1, <1>1, <1>2 DEF PuzzleInv, RigidGroups
    <3>3. QED
      BY <3>1, <3>2, <1>3
  <2>3. QED
    BY <2>2 DEF RigidGroups
<1>12. h \in lockedGroups => solved
  BY <1>1, <1>7, <1>2 DEF PuzzleInv, SolvedTogether
<1>13. ~solved => J \cap placed = {}
  BY <1>1, <1>12 DEF PuzzleInv, SolvedTogether
<1>14. \A p \in placed : offset'[p] = offset[p]
  BY <1>1, <1>2 DEF PuzzleInv, PuzzleTypeOK, SolvedTogether
<1>15. SolvedTogether'
  <2>1. \A p \in placed' : offset'[p] = 0
    BY <1>5, <1>14 DEF PuzzleInv, PuzzleTypeOK, SolvedTogether
  <2>2. lockedPieces' = placed'
    BY <1>5 DEF PuzzleInv, SolvedTogether
  <2>3. J \subseteq placed' <=> solved
    BY <1>1, <1>5, <1>13 DEF Exists
  <2>4. \A k \in Piece : k # g /\ k # h =>
          pieceIds'[k] = pieceIds[k] /\ pieceIds[k] \cap placed' = pieceIds[k] \cap placed
    BY <1>3, <1>5, <1>8
  <2>5. ASSUME NEW k \in Piece
        PROVE  k \in lockedGroups' <=> pieceIds'[k] # {} /\ pieceIds'[k] \subseteq placed'
    <3>1. CASE k = g
      BY <3>1, <1>1, <1>3, <1>5, <1>6, <2>2, <2>3 DEF Exists
    <3>2. CASE k = h
      BY <3>2, <1>1, <1>3, <1>6
    <3>3. CASE k # g /\ k # h
      BY <3>3, <2>4, <1>6, <1>3 DEF PuzzleInv, PuzzleTypeOK, SolvedTogether, Exists
    <3>4. QED
      BY <3>1, <3>2, <3>3
  <2>6. ASSUME NEW k \in Piece \ lockedGroups'
        PROVE  pieceIds'[k] \cap placed' = {}
    <3>1. CASE k = g
      BY <3>1, <1>3, <1>5, <1>13, <2>3, <2>5, <1>1 DEF Exists
    <3>2. CASE k = h
      BY <3>2, <1>3
    <3>3. CASE k # g /\ k # h
      BY <3>3, <2>4, <2>5, <1>3 DEF PuzzleInv, PuzzleTypeOK, SolvedTogether, Exists
    <3>4. QED
      BY <3>1, <3>2, <3>3
  <2>7. lockedGroups' \subseteq Piece
    BY <1>6, <1>1
  <2>8. lockedGroups' = {k \in Piece : pieceIds'[k] # {} /\ pieceIds'[k] \subseteq placed'}
    BY <2>5, <2>7
  <2>9. QED
    BY <2>1, <2>2, <2>6, <2>8 DEF SolvedTogether, Exists
<1>16. QED
  BY <1>5, <1>9, <1>10, <1>11, <1>12, <1>14, <1>15 DEF PuzzleInv

\* Arranging moves whole groups, and only groups without a placed piece.
LEMMA ArrangePreserves ==
  ASSUME PuzzleInv, ArrangeLoosePieces
  PROVE  /\ PuzzleInv'
         /\ UNCHANGED <<pieceIds, placed>>
         /\ \A p \in placed : offset'[p] = offset[p]
<1> USE DEF Group
<1>1. PICK slot \in [Piece -> Offset] :
        offset' = [p \in Piece |->
                     IF groupOf[p] \in LooseGroups
                     THEN offset[p] + slot[groupOf[p]] - offset[groupOf[p]]
                     ELSE offset[p]]
  BY DEF ArrangeLoosePieces
<1>2. UNCHANGED <<pieceIds, groupOf, lockedGroups, lockedPieces, snapCount>>
  BY DEF ArrangeLoosePieces
<1>3. \A g \in LooseGroups : pieceIds[g] \cap placed = {}
  BY DEF LooseGroups, PuzzleInv, SolvedTogether
<1>4. placed' = placed
  BY <1>3 DEF ArrangeLoosePieces, PuzzleInv, PuzzleTypeOK
<1>5. \A p \in Piece : groupOf[p] \in Piece /\ offset[p] \in Int /\ slot[p] \in Int
  BY OffsetAssumption DEF PuzzleInv, PuzzleTypeOK
<1>6. offset' \in [Piece -> Int]
  BY <1>1, <1>5
<1>7. PuzzleTypeOK'
  BY <1>2, <1>4, <1>6 DEF PuzzleInv, PuzzleTypeOK
<1>8. GroupIndex'
  BY <1>2 DEF PuzzleInv, GroupIndex, Exists
<1>9. \A p \in placed : offset'[p] = offset[p]
  BY <1>1, <1>3, <1>5 DEF PuzzleInv, PuzzleTypeOK, GroupIndex
<1>10. RigidGroups'
  <2>1. ASSUME NEW g \in Piece, NEW p \in pieceIds[g]
        PROVE  offset'[p] = offset'[g]
    <3>1. p \in Piece /\ g \in pieceIds[g] /\ groupOf[p] = g /\ groupOf[g] = g
      BY DEF PuzzleInv, PuzzleTypeOK, GroupIndex, Exists
    <3>2. offset[p] = offset[g]
      BY DEF PuzzleInv, RigidGroups
    <3>3. QED
      BY <1>1, <3>1, <3>2
  <2>2. QED
    BY <1>2, <2>1 DEF RigidGroups
<1>11. SolvedTogether'
  BY <1>2, <1>4, <1>9 DEF PuzzleInv, PuzzleTypeOK, SolvedTogether, Exists
<1>12. QED
  BY <1>2, <1>4, <1>7, <1>8, <1>9, <1>10, <1>11 DEF PuzzleInv

\* The best candidate that DropNeighbor takes is a candidate, and its join is
\* an abstract join.
LEMMA DropNeighborPair ==
  ASSUME PuzzleInv, NEW g \in Group, NEW t \in Int, DropNeighbor(g, t)
  PROVE  \E pair \in NeighborCandidates(g, MovedTo(g, t)) : JoinNeighbor(g, t, pair)
BY DEF DropNeighbor, NeighborSnaps

\* Every operation of the puzzle keeps the invariant, and keeps the placed
\* pieces where they are.
LEMMA PuzzleStep ==
  ASSUME PuzzleInv, [PuzzleNext]_puzzleVars
  PROVE  /\ PuzzleInv'
         /\ placed \subseteq placed'
         /\ \A p \in placed : offset'[p] = offset[p]
<1> DEFINE Goal == /\ PuzzleInv'
                   /\ placed \subseteq placed'
                   /\ \A p \in placed : offset'[p] = offset[p]
<1>1. ASSUME NEW g \in Group, NEW t \in Int, MoveGroupToAnchor(g, t)
      PROVE  Goal
  <2>1. PuzzleInv' /\ placed' = placed
    BY <1>1, MovePreserves
  <2>2. \A p \in placed : p \in Piece /\ offset[p] = 0 /\ offset'[p] = 0
    BY <2>1 DEF PuzzleInv, PuzzleTypeOK, SolvedTogether
  <2>3. QED
    BY <2>1, <2>2
<1>2. ASSUME NEW g \in Group, NEW t \in Int, SnapDroppedGroup(g, t)
      PROVE  Goal
  <2>1. CASE DropCorrect(g, t)
    BY <2>1, CorrectPreserves
  <2>2. CASE DropNeighbor(g, t)
    <3>1. PICK pair \in NeighborCandidates(g, MovedTo(g, t)) : JoinNeighbor(g, t, pair)
      BY <2>2, DropNeighborPair
    <3>2. /\ PuzzleInv'
          /\ placed' = placed \/ placed' = placed \cup pieceIds[g] \cup pieceIds[groupOf[pair[2]]]
          /\ \A p \in placed : offset'[p] = offset[p]
      BY <3>1, JoinPreserves
    <3>3. QED
      BY <3>2
  <2>3. CASE DropLoose(g, t)
    BY <2>3, <1>1 DEF DropLoose
  <2>4. QED
    BY <1>2, <2>1, <2>2, <2>3 DEF SnapDroppedGroup
<1>3. CASE ArrangeLoosePieces
  BY <1>3, ArrangePreserves
<1>4. CASE UNCHANGED puzzleVars
  BY <1>4 DEF puzzleVars, PuzzleInv, PuzzleTypeOK, GroupIndex, RigidGroups,
              SolvedTogether, Exists
<1>5. QED
  BY <1>1, <1>2, <1>3, <1>4, OffsetAssumption DEF PuzzleNext

\* Freshly cut pieces satisfy the invariant.
LEMMA PuzzleInitial == PuzzleInit => PuzzleInv
<1> SUFFICES ASSUME PuzzleInit
             PROVE  PuzzleInv
  OBVIOUS
<1> USE DEF PuzzleInit, Group
<1>1. \A p \in Piece : offset[p] \in Int /\ pieceIds[p] = {p} /\ groupOf[p] = p
  BY OffsetAssumption
<1>2. offset \in [Piece -> Int]
  BY OffsetAssumption
<1>3. PuzzleTypeOK
  BY <1>2 DEF PuzzleTypeOK
<1>4. GroupIndex /\ RigidGroups
  BY <1>1 DEF GroupIndex, RigidGroups, Exists
<1>5. SolvedTogether
  BY <1>1 DEF SolvedTogether, Exists
<1>6. QED
  BY <1>3, <1>4, <1>5 DEF PuzzleInv

\* The pieces always form a partition into rigid groups whose flags agree.
THEOREM PuzzleInvariant == PuzzleSpec => []PuzzleInv
<1>1. PuzzleInv /\ [PuzzleNext]_puzzleVars => PuzzleInv'
  BY PuzzleStep
<1>2. QED
  BY <1>1, PuzzleInitial, PTL DEF PuzzleSpec

\* A placed piece is never unplaced and never moved.
THEOREM PlacedStaysPlaced == PuzzleSpec => PlacedForGood
<1>1. PuzzleInv /\ [PuzzleNext]_puzzleVars => PuzzleInv'
  BY PuzzleStep
<1>2. PuzzleInv /\ [PuzzleNext]_puzzleVars =>
        [/\ placed \subseteq placed'
         /\ \A p \in placed : offset'[p] = offset[p]]_puzzleVars
  BY PuzzleStep
<1>3. QED
  BY <1>1, <1>2, PuzzleInitial, PTL DEF PuzzleSpec, PlacedForGood

-----------------------------------------------------------------------------
(* Refinement *)

Blocks == {pieceIds[g] : g \in {h \in Group : Exists(h)}}

\* A drop that snaps to the board places one loose block.
LEMMA CorrectPlaces ==
  ASSUME PuzzleInv, NEW g \in Group, NEW t \in Int, DropCorrect(g, t)
  PROVE  Board!Next
<1>1. /\ g \notin lockedGroups
      /\ Exists(g)
      /\ placed' = placed \cup pieceIds[g]
  BY CorrectPreserves
<1>2. pieceIds[g] \cap placed = {}
  BY <1>1 DEF PuzzleInv, SolvedTogether
<1>3. UNCHANGED Blocks
  BY DEF Blocks, DropCorrect, Exists
<1>4. Board!Place(pieceIds[g])
  BY <1>1, <1>2, <1>3 DEF Board!Place, Blocks
<1>5. QED
  BY <1>1, <1>4 DEF Board!Next

\* A drop that snaps to a neighbor joins two adjacent blocks.
LEMMA JoinJoins ==
  ASSUME PuzzleInv, NEW g \in Group, NEW t \in Int, DropNeighbor(g, t)
  PROVE  Board!Next
<1> USE DEF Group
<1>1. PICK pair \in NeighborCandidates(g, MovedTo(g, t)) : JoinNeighbor(g, t, pair)
  BY DropNeighborPair
<1> DEFINE h == groupOf[pair[2]]
           A == pieceIds[g]
           B == pieceIds[h]
<1>2. /\ h \in Piece /\ h # g /\ Exists(h) /\ Exists(g)
      /\ g \notin lockedGroups
      /\ pair[1] \in A /\ pair[2] \in B
      /\ pieceIds' = [pieceIds EXCEPT ![g] = A \cup B, ![h] = {}]
  <2>1. Absorbs(g, h, pair)
    BY <1>1, JoinFacts
  <2>2. QED
    BY <2>1 DEF Absorbs
<1>3. /\ placed' = placed \/ placed' = placed \cup A \cup B
      /\ h \in lockedGroups => placed' = placed \cup A \cup B
  BY <1>1, JoinPreserves
<1>4. A \cap placed = {} /\ (h \notin lockedGroups => B \cap placed = {})
  BY <1>2 DEF PuzzleInv, SolvedTogether
<1>5. pair = <<pair[1], pair[2]>> /\ pair \in Neighbor
  BY NeighborAssumption DEF NeighborCandidates
<1>6. A \in Blocks /\ B \in Blocks
  BY <1>2 DEF Blocks
<1>7. \A k1, k2 \in Piece : k1 # k2 => pieceIds[k1] \cap pieceIds[k2] = {}
  BY DEF PuzzleInv, PuzzleTypeOK, GroupIndex
<1>8. A # B
  BY <1>2, <1>7 DEF Exists
<1>9. Blocks' = (Blocks \ {A, B}) \cup {A \cup B}
  <2>1. pieceIds \in [Piece -> SUBSET Piece]
    BY DEF PuzzleInv, PuzzleTypeOK
  <2>2. /\ pieceIds'[g] = A \cup B
        /\ pieceIds'[h] = {}
        /\ \A k \in Piece \ {g, h} : pieceIds'[k] = pieceIds[k]
    BY <1>2, <2>1
  <2>3. \A k \in Piece \ {g, h} : pieceIds[k] # {} => pieceIds[k] # A /\ pieceIds[k] # B
    BY <1>2, <1>7
  <2>4. ASSUME NEW X \in Blocks'
        PROVE  X \in (Blocks \ {A, B}) \cup {A \cup B}
    <3>1. PICK k \in Piece : pieceIds'[k] # {} /\ X = pieceIds'[k]
      BY <2>4 DEF Blocks, Exists
    <3>2. QED
      BY <3>1, <2>2, <2>3 DEF Blocks, Exists
  <2>5. ASSUME NEW X \in (Blocks \ {A, B}) \cup {A \cup B}
        PROVE  X \in Blocks'
    <3>1. CASE X = A \cup B
      BY <3>1, <1>2, <2>2 DEF Blocks, Exists
    <3>2. CASE X \in Blocks \ {A, B}
      <4>1. PICK k \in Piece : pieceIds[k] # {} /\ X = pieceIds[k]
        BY <3>2 DEF Blocks, Exists
      <4>2. QED
        BY <4>1, <3>2, <2>2 DEF Blocks, Exists
    <3>3. QED
      BY <2>5, <3>1, <3>2
  <2>6. QED
    BY <2>4, <2>5
<1>10. \E x \in A, y \in B : <<x, y>> \in Neighbor
  BY <1>2, <1>5
<1>11. placed' = placed \cup A \cup B \/ (B \cap placed = {} /\ placed' = placed)
  BY <1>3, <1>4
<1>12. Board!Next
  <2> HIDE DEF A, B, h
  <2>1. PICK X, Y : X = A /\ Y = B
    OBVIOUS
  <2>2. X \in Blocks /\ Y \in Blocks /\ Y \in Blocks \ {X} /\ X \cap placed = {}
    BY <2>1, <1>4, <1>6, <1>8
  <2>3. Board!Join(X, Y)
    BY <2>1, <2>2, <1>9, <1>10, <1>11 DEF Board!Join, Blocks
  <2>4. \E X2, Y2 \in Blocks : Board!Join(X2, Y2)
    BY <2>2, <2>3
  <2>5. QED
    BY <2>4 DEF Board!Next, Blocks
<1>13. QED
  BY <1>12

\* Every step on the groups is a step of the abstract puzzle or a stutter.
THEOREM GroupsImplementBoard == PuzzleSpec => ImplementsBoard
<1>1. PuzzleInit => Board!Init
  <2> SUFFICES ASSUME PuzzleInit PROVE Board!Init
    OBVIOUS
  <2>1. Blocks = {{p} : p \in Piece}
    BY DEF PuzzleInit, Blocks, Exists, Group
  <2>2. QED
    BY <2>1 DEF PuzzleInit, Board!Init, Blocks
<1>2. PuzzleInv /\ [PuzzleNext]_puzzleVars => PuzzleInv'
  BY PuzzleStep
<1>3. PuzzleInv /\ [PuzzleNext]_puzzleVars => [Board!Next]_Board!boardVars
  <2> SUFFICES ASSUME PuzzleInv, [PuzzleNext]_puzzleVars
               PROVE  [Board!Next]_Board!boardVars
    OBVIOUS
  <2>1. ASSUME UNCHANGED <<pieceIds, placed>>
        PROVE  UNCHANGED Board!boardVars
    BY <2>1 DEF Board!boardVars, Exists
  <2>2. ASSUME NEW g \in Group, NEW t \in Int, MoveGroupToAnchor(g, t)
        PROVE  UNCHANGED Board!boardVars
    BY <2>1, <2>2, MovePreserves DEF MoveGroupToAnchor
  <2>3. ASSUME NEW g \in Group, NEW t \in Int, SnapDroppedGroup(g, t)
        PROVE  [Board!Next]_Board!boardVars
    BY <2>2, <2>3, CorrectPlaces, JoinJoins DEF SnapDroppedGroup, DropLoose
  <2>4. CASE ArrangeLoosePieces
    BY <2>1, <2>4, ArrangePreserves
  <2>5. CASE UNCHANGED puzzleVars
    BY <2>1, <2>5 DEF puzzleVars
  <2>6. QED
    BY <2>2, <2>3, <2>4, <2>5, OffsetAssumption DEF PuzzleNext
<1>4. QED
  BY <1>1, <1>2, <1>3, PuzzleInitial, PTL DEF PuzzleSpec, ImplementsBoard, Board!Spec
-----------------------------------------------------------------------------
(* Progress *)

\* Every operation that counts a snap takes a group out of those that exist, or
\* out of the loose ones among them.
LEMMA ProgressStep ==
  ASSUME PuzzleInv, SnapsAreProgress, [PuzzleNext]_puzzleVars
  PROVE  SnapsAreProgress'
<1> USE DEF Group
<1> DEFINE E == {g \in Group : Exists(g)}
           L == E \ lockedGroups
<1>1. /\ IsFiniteSet(E) /\ IsFiniteSet(L) /\ IsFiniteSet(E') /\ IsFiniteSet(L')
      /\ Cardinality(E) \in Nat /\ Cardinality(L) \in Nat /\ Cardinality(Piece) \in Nat
      /\ Cardinality(E') \in Nat /\ Cardinality(L') \in Nat
  <2>1. \A S \in SUBSET Piece : IsFiniteSet(S) /\ Cardinality(S) \in Nat
    BY PieceAssumption, FS_Subset, FS_CardinalityType
  <2>2. E \in SUBSET Piece /\ L \in SUBSET Piece /\ E' \in SUBSET Piece /\ L' \in SUBSET Piece
    OBVIOUS
  <2> HIDE DEF E, L
  <2>3. QED
    BY <2>1, <2>2, PieceAssumption
<1>2. snapCount \in Nat /\ snapCount + Cardinality(E) + Cardinality(L) <= 2 * Cardinality(Piece)
  BY DEF SnapsAreProgress, PuzzleInv, PuzzleTypeOK
<1>3. SUFFICES snapCount' + Cardinality(E') + Cardinality(L') <= 2 * Cardinality(Piece)
  BY DEF SnapsAreProgress
<1>4. ASSUME UNCHANGED <<pieceIds, lockedGroups, snapCount>>
      PROVE  snapCount' + Cardinality(E') + Cardinality(L') <= 2 * Cardinality(Piece)
  <2>1. E' = E /\ L' = L
    BY <1>4 DEF Exists
  <2>2. QED
    BY <1>2, <1>4, <2>1
<1>5. ASSUME NEW g \in Group, NEW t \in Int, DropCorrect(g, t)
      PROVE  snapCount' + Cardinality(E') + Cardinality(L') <= 2 * Cardinality(Piece)
  <2>1. g \in L
    BY <1>5, CorrectPreserves
  <2>2. E' = E /\ L' = L \ {g} /\ snapCount' = snapCount + 1
    BY <1>5 DEF DropCorrect, Exists
  <2> HIDE DEF E, L
  <2>3. Cardinality(L') = Cardinality(L) - 1
    BY <1>1, <2>1, <2>2, FS_RemoveElement
  <2>4. QED
    BY <1>1, <1>2, <2>2, <2>3
<1>6. ASSUME NEW g \in Group, NEW t \in Int, DropNeighbor(g, t)
      PROVE  snapCount' + Cardinality(E') + Cardinality(L') <= 2 * Cardinality(Piece)
  <2>1. PICK pair \in NeighborCandidates(g, MovedTo(g, t)) : JoinNeighbor(g, t, pair)
    BY <1>6, DropNeighborPair
  <2> DEFINE h == groupOf[pair[2]]
  <2>2. /\ h \in Group /\ h # g /\ Exists(h) /\ Exists(g) /\ g \notin lockedGroups
        /\ pieceIds' = [pieceIds EXCEPT ![g] = pieceIds[g] \cup pieceIds[h], ![h] = {}]
    <3>1. Absorbs(g, h, pair)
      BY <2>1, JoinFacts
    <3>2. QED
      BY <3>1 DEF Absorbs
  <2> HIDE DEF h
  <2>3. E' = E \ {h} /\ h \in E
    BY <2>2 DEF Exists, PuzzleInv, PuzzleTypeOK
  <2>4. snapCount' = snapCount + 1 /\ \A k \in lockedGroups \ {g} : Exists(k)' => k \in lockedGroups'
    <3>1. /\ pieceIds' = MergedPieceIds(g, groupOf[pair[2]]) /\ snapCount' = snapCount + 1
          /\ \A k \in (lockedGroups \ {g}) \cap
                      {k2 \in Group : MergedPieceIds(g, groupOf[pair[2]])[k2] # {}} :
               k \in lockedGroups'
      BY <2>1 DEF JoinNeighbor
    <3>2. lockedGroups \subseteq Group
      BY DEF PuzzleInv, PuzzleTypeOK
    <3>3. QED
      BY <3>1, <3>2 DEF Exists
  <2>5. L' \in SUBSET L
    BY <2>2, <2>3, <2>4
  <2> HIDE DEF E, L
  <2>6. Cardinality(E') = Cardinality(E) - 1
    BY <1>1, <2>3, FS_RemoveElement
  <2>7. Cardinality(L') <= Cardinality(L)
    BY <1>1, <2>5, FS_Subset
  <2>8. QED
    BY <1>1, <1>2, <2>4, <2>6, <2>7
<1>7. QED
  BY <1>4, <1>5, <1>6, OffsetAssumption
     DEF PuzzleNext, MoveGroupToAnchor, SnapDroppedGroup, DropLoose, ArrangeLoosePieces, puzzleVars

\* A counted snap is progress that is never counted again, so the count of a room
\* stays below twice the number of its pieces (snapDroppedGroup and mergeGroups).
THEOREM SnapsMakeProgress == PuzzleSpec => []SnapsAreProgress
<1>1. PuzzleInit => SnapsAreProgress
  <2> SUFFICES ASSUME PuzzleInit PROVE SnapsAreProgress
    OBVIOUS
  <2>1. {g \in Group : Exists(g)} = Piece /\ lockedGroups = {} /\ snapCount = 0
    BY DEF PuzzleInit, Exists, Group
  <2>2. Cardinality(Piece) \in Nat
    BY PieceAssumption, FS_CardinalityType
  <2>3. QED
    BY <2>1, <2>2 DEF SnapsAreProgress
<1>2. PuzzleInv /\ SnapsAreProgress /\ [PuzzleNext]_puzzleVars => SnapsAreProgress'
  BY ProgressStep
<1>3. QED
  BY <1>1, <1>2, PuzzleStep, PuzzleInitial, PTL DEF PuzzleSpec

-----------------------------------------------------------------------------
(***************************************************************************)
(* The safety of a room in memory, for any number of players, connections  *)
(* and pieces: locks always have a holder in the room, a group that has    *)
(* been fixed is in nobody's hand, a pause frees every lock, completion is *)
(* the placement of the last piece, and the timer counts active time.      *)
(***************************************************************************)

\* An operation on the puzzle that fixes no piece leaves the rest alone.
LEMMA PuzzleOnly ==
  ASSUME RoomInv, PuzzleInv', UNCHANGED <<placed, lockedGroups, roomVars>>
  PROVE  RoomInv'
BY DEF RoomInv, TypeOK, PuzzleInv, ConnectionsHavePlayers, PlayersHaveConnections,
       StillConnected, LocksHaveHolders, DraggedGroupsAreLoose, PauseFreesLocks,
       CompletedIffSolved, TimerPast, TimerIsActiveTime, ElapsedMs, roomVars

LEMMA RoomInitial == Init => RoomInv
<1> SUFFICES ASSUME Init
             PROVE  RoomInv
  OBVIOUS
<1>1. PuzzleInv
  BY PuzzleInitial DEF Init
<1>2. TypeOK
  BY <1>1 DEF Init, TypeOK, PuzzleInv, Timer, NotCompleted
<1>3. PlayersHaveConnections /\ ConnectionsHavePlayers
  BY DEF Init, PlayersHaveConnections, ConnectionsHavePlayers
<1>4. LocksHaveHolders /\ DraggedGroupsAreLoose /\ PauseFreesLocks
  BY DEF Init, LocksHaveHolders, DraggedGroupsAreLoose, PauseFreesLocks
<1>5. CompletedIffSolved
  BY PieceAssumption DEF Init, PuzzleInit, CompletedIffSolved
<1>6. TimerPast /\ TimerIsActiveTime
  BY DEF Init, TimerPast, TimerIsActiveTime, ElapsedMs, Max0
<1>7. QED
  BY <1>1, <1>2, <1>3, <1>4, <1>5, <1>6 DEF RoomInv

\* Steps of the room that leave the puzzle alone keep the puzzle's invariant.
LEMMA PuzzleUntouched ==
  ASSUME RoomInv, UNCHANGED puzzleVars
  PROVE  PuzzleInv' /\ PuzzleTypeOK' /\ UNCHANGED <<placed, lockedGroups>>
BY PuzzleStep DEF RoomInv, puzzleVars, PuzzleInv

\* A player enters with its connection.
LEMMA JoinKeeps == ASSUME RoomInv, NEW c \in Connection, Join(c) PROVE RoomInv'
<1>1. PuzzleInv' /\ PuzzleTypeOK' /\ UNCHANGED <<placed, lockedGroups>>
  BY PuzzleUntouched DEF Join
<1>2. TypeOK'
  BY <1>1, OwnerAssumption DEF RoomInv, TypeOK, Join, lockVars, timeVars
<1>3. ConnectionsHavePlayers'
  BY DEF RoomInv, Join, ConnectionsHavePlayers
<1>4. PlayersHaveConnections'
  BY DEF RoomInv, Join, PlayersHaveConnections, StillConnected
<1>5. LocksHaveHolders'
  BY DEF RoomInv, Join, LocksHaveHolders, lockVars
<1>6. (DraggedGroupsAreLoose /\ PauseFreesLocks /\ CompletedIffSolved /\ TimerPast
        /\ TimerIsActiveTime)'
  BY <1>1 DEF RoomInv, Join, DraggedGroupsAreLoose, PauseFreesLocks, CompletedIffSolved,
              TimerPast, TimerIsActiveTime, ElapsedMs, lockVars, timeVars
<1>7. QED
  BY <1>1, <1>2, <1>3, <1>4, <1>5, <1>6 DEF RoomInv

\* A connection takes its toggle locks with it; its player stays until the
\* disconnect has been recorded.
LEMMA StartDisconnectKeeps ==
  ASSUME RoomInv, NEW c \in Connection, StartDisconnect(c)
  PROVE  RoomInv'
<1>1. PuzzleInv' /\ PuzzleTypeOK' /\ UNCHANGED <<placed, lockedGroups>>
  BY PuzzleUntouched DEF StartDisconnect
<1>2. TypeOK'
  BY <1>1 DEF RoomInv, TypeOK, StartDisconnect, timeVars
<1>3. (ConnectionsHavePlayers /\ PlayersHaveConnections)'
  BY NoneAssumption DEF RoomInv, StartDisconnect, ConnectionsHavePlayers,
                        PlayersHaveConnections, StillConnected
<1>4. LocksHaveHolders'
  BY DEF RoomInv, StartDisconnect, LocksHaveHolders
<1>5. PauseFreesLocks'
  BY DEF RoomInv, StartDisconnect, PauseFreesLocks, timeVars
<1>6. (DraggedGroupsAreLoose /\ CompletedIffSolved /\ TimerPast /\ TimerIsActiveTime)'
  BY <1>1 DEF RoomInv, StartDisconnect, DraggedGroupsAreLoose, CompletedIffSolved,
              TimerPast, TimerIsActiveTime, ElapsedMs, timeVars
<1>7. QED
  BY <1>1, <1>2, <1>3, <1>4, <1>5, <1>6 DEF RoomInv

\* The player leaves only without connections, and takes the locks along.
LEMMA FinishDisconnectKeeps == ASSUME RoomInv, FinishDisconnect PROVE RoomInv'
<1> DEFINE p == Owner[leaving]
<1>1. PuzzleInv' /\ PuzzleTypeOK' /\ UNCHANGED <<placed, lockedGroups>>
  BY PuzzleUntouched DEF FinishDisconnect
<1>2. leaving \in Connection /\ p \in Player
  BY OwnerAssumption DEF FinishDisconnect, RoomInv, TypeOK
<1>3. UNCHANGED <<connections, timer, completedAt, clock, activeTime>> /\ leaving' = NoConnection
  BY DEF FinishDisconnect, timeVars
<1>4. CASE StillConnected(p)
  <2>1. UNCHANGED <<players, dragLocks, toggleLocks>>
    BY <1>4 DEF FinishDisconnect, lockVars
  <2>2. PlayersHaveConnections'
    BY <1>3, <1>4, <2>1 DEF RoomInv, PlayersHaveConnections, StillConnected
  <2>3. QED
    BY <1>1, <1>3, <2>1, <2>2
       DEF RoomInv, TypeOK, ConnectionsHavePlayers, LocksHaveHolders,
           DraggedGroupsAreLoose, PauseFreesLocks, CompletedIffSolved,
           TimerPast, TimerIsActiveTime, ElapsedMs
<1>5. CASE ~StillConnected(p)
  <2>1. /\ players' = players \ {p}
        /\ dragLocks' = [g \in Group |-> IF dragLocks[g] = p THEN NoPlayer ELSE dragLocks[g]]
        /\ toggleLocks' = [k \in LockKey |->
                             IF toggleLocks[k] \in Connection /\ Owner[toggleLocks[k]] = p
                             THEN NoConnection ELSE toggleLocks[k]]
    BY <1>5 DEF FinishDisconnect, PlayerLocksReleased
  <2>2. TypeOK'
    BY <1>1, <1>3, <2>1 DEF RoomInv, TypeOK
  <2>3. ConnectionsHavePlayers'
    BY <1>3, <1>5, <2>1 DEF RoomInv, ConnectionsHavePlayers, StillConnected
  <2>4. PlayersHaveConnections'
    BY <1>3, <2>1 DEF RoomInv, PlayersHaveConnections, StillConnected
  <2>5. LocksHaveHolders'
    BY <1>3, <2>1 DEF RoomInv, LocksHaveHolders
  <2>6. DraggedGroupsAreLoose' /\ PauseFreesLocks'
    BY <1>1, <1>3, <2>1 DEF RoomInv, DraggedGroupsAreLoose, PauseFreesLocks
  <2>7. QED
    BY <1>1, <1>3, <2>2, <2>3, <2>4, <2>5, <2>6
       DEF RoomInv, CompletedIffSolved, TimerPast, TimerIsActiveTime, ElapsedMs
<1>6. QED
  BY <1>4, <1>5

\* Only a group that exists and is not fixed can be taken in hand.
LEMMA GrabKeeps ==
  ASSUME RoomInv, NEW c \in Connection, NEW g \in Group, GrabGroup(c, g)
  PROVE  RoomInv'
<1>1. PuzzleInv' /\ PuzzleTypeOK' /\ UNCHANGED <<placed, lockedGroups>>
  BY PuzzleUntouched DEF GrabGroup
<1>2. /\ Owner[c] \in players /\ Owner[c] \in Player
      /\ ~timer.paused
      /\ g \notin lockedGroups
      /\ dragLocks' = [dragLocks EXCEPT ![g] = Owner[c]]
      /\ UNCHANGED <<connections, players, leaving, toggleLocks, timer, completedAt,
                     clock, activeTime>>
  BY OwnerAssumption DEF GrabGroup, Joined, peopleVars, timeVars
<1>3. TypeOK'
  BY <1>1, <1>2 DEF RoomInv, TypeOK
<1>4. LocksHaveHolders' /\ DraggedGroupsAreLoose' /\ PauseFreesLocks'
  BY <1>1, <1>2 DEF RoomInv, TypeOK, LocksHaveHolders, DraggedGroupsAreLoose, PauseFreesLocks
<1>5. QED
  BY <1>1, <1>2, <1>3, <1>4
     DEF RoomInv, ConnectionsHavePlayers, PlayersHaveConnections, StillConnected,
         CompletedIffSolved, TimerPast, TimerIsActiveTime, ElapsedMs

\* Giving a drag lock back.
LEMMA ReleaseKeeps ==
  ASSUME RoomInv, NEW p, NEW g \in Group, dragLocks' = Released(g, p),
         UNCHANGED <<puzzleVars, peopleVars, toggleLocks, timeVars>>
  PROVE  RoomInv'
<1>1. PuzzleInv' /\ PuzzleTypeOK' /\ UNCHANGED <<placed, lockedGroups>>
  BY PuzzleUntouched
<1>2. \A h \in Group : dragLocks'[h] \in {dragLocks[h], NoPlayer}
  BY DEF Released, RoomInv, TypeOK
<1>3. TypeOK'
  BY <1>1 DEF RoomInv, TypeOK, Released, peopleVars, timeVars
<1>4. QED
  BY <1>1, <1>2, <1>3
     DEF RoomInv, ConnectionsHavePlayers, PlayersHaveConnections, StillConnected,
         LocksHaveHolders, DraggedGroupsAreLoose, PauseFreesLocks,
         CompletedIffSolved, TimerPast, TimerIsActiveTime, ElapsedMs, peopleVars, timeVars

\* A toggle lock is set by a connection in the room, in a running session.
LEMMA ToggleKeeps ==
  ASSUME RoomInv, NEW c \in Connection, NEW k \in LockTarget, ToggleLock(c, k)
  PROVE  RoomInv'
<1>1. PuzzleInv' /\ PuzzleTypeOK' /\ UNCHANGED <<placed, lockedGroups>>
  BY PuzzleUntouched DEF ToggleLock
<1>2. /\ c \in connections
      /\ ~timer.paused
      /\ UNCHANGED <<connections, players, leaving, dragLocks, timer, completedAt,
                     clock, activeTime>>
      /\ k \in LockKey
  BY LockTargetAssumption DEF ToggleLock, Joined, peopleVars, timeVars, LockKey
<1>3. \/ toggleLocks' = [toggleLocks EXCEPT ![k] = c]
      \/ toggleLocks' = [toggleLocks EXCEPT ![k] = NoConnection]
  BY DEF ToggleLock
<1>4. TypeOK'
  BY <1>1, <1>2, <1>3 DEF RoomInv, TypeOK
<1>5. LocksHaveHolders'
  BY <1>2, <1>3 DEF RoomInv, TypeOK, LocksHaveHolders
<1>6. QED
  BY <1>1, <1>2, <1>4, <1>5
     DEF RoomInv, ConnectionsHavePlayers, PlayersHaveConnections, StillConnected,
         DraggedGroupsAreLoose, PauseFreesLocks, CompletedIffSolved,
         TimerPast, TimerIsActiveTime, ElapsedMs

\* Moving a group places nothing and fixes nothing.
LEMMA MoveKeeps ==
  ASSUME RoomInv, NEW c \in Connection, NEW g \in Group, NEW t \in Int, MoveGroup(c, g, t)
  PROVE  RoomInv'
<1>1. MoveGroupToAnchor(g, t) /\ UNCHANGED roomVars
  BY DEF MoveGroup
<1>2. PuzzleInv' /\ UNCHANGED <<placed, lockedGroups>>
  BY <1>1, MovePreserves DEF RoomInv, MoveGroupToAnchor
<1>3. QED
  BY <1>1, <1>2, PuzzleOnly

LEMMA ArrangeKeeps ==
  ASSUME RoomInv, NEW c \in Connection, ArrangeGroups(c)
  PROVE  RoomInv'
<1>1. ArrangeLoosePieces /\ UNCHANGED roomVars
  BY DEF ArrangeGroups
<1>2. PuzzleInv' /\ UNCHANGED <<placed, lockedGroups>>
  BY <1>1, ArrangePreserves DEF RoomInv, ArrangeLoosePieces
<1>3. QED
  BY <1>1, <1>2, PuzzleOnly

\* What a drop does to the puzzle, as far as the room's invariant can tell:
\* only the dropped group may become fixed.
LEMMA DropPuzzle ==
  ASSUME PuzzleInv, NEW g \in Group, NEW t \in Int, SnapDroppedGroup(g, t)
  PROVE  PuzzleInv' /\ placed \subseteq placed' /\ lockedGroups' \subseteq lockedGroups \cup {g}
<1>1. CASE DropCorrect(g, t)
  BY <1>1, CorrectPreserves DEF DropCorrect
<1>2. CASE DropNeighbor(g, t)
  <2>1. PICK pair \in NeighborCandidates(g, MovedTo(g, t)) : JoinNeighbor(g, t, pair)
    BY <1>2, DropNeighborPair
  <2>2. PuzzleInv' /\ placed \subseteq placed'
    BY <2>1, JoinPreserves
  <2>3. lockedGroups' \subseteq lockedGroups \cup {g}
    BY <2>1 DEF JoinNeighbor
  <2>4. QED
    BY <2>2, <2>3
<1>3. CASE DropLoose(g, t)
  BY <1>3, MovePreserves DEF DropLoose, MoveGroupToAnchor
<1>4. QED
  BY <1>1, <1>2, <1>3 DEF SnapDroppedGroup

\* The locks that a merge transfers are locks that were set before.
LEMMA TransferKeepsHolders ==
  ASSUME TypeOK, NEW g \in Group
  PROVE  /\ TransferredLocks(g) \in [LockKey -> Connection \cup {NoConnection}]
         /\ \A k \in LockKey :
              TransferredLocks(g)[k] \in {toggleLocks[j] : j \in LockKey} \cup {NoConnection}
<1> DEFINE removed == {h \in Group : Exists(h) /\ pieceIds'[h] = {}}
           moving == {toggleLocks[<<"group", h>>] : h \in removed} \ {NoConnection}
<1>1. \A h \in Group : <<"group", h>> \in LockKey
  BY DEF LockKey, Group
<1>2. moving \subseteq {toggleLocks[j] : j \in LockKey}
  BY <1>1
<1>3. moving # {} => (CHOOSE lock \in moving : TRUE) \in {toggleLocks[j] : j \in LockKey}
  BY <1>2
<1>4. TransferredLocks(g) =
        [k \in LockKey |->
           CASE k[1] = "group" /\ k[2] \in removed -> NoConnection
             [] k = <<"group", g>> /\ toggleLocks[k] = NoConnection /\ moving # {} ->
                  CHOOSE lock \in moving : TRUE
             [] OTHER -> toggleLocks[k]]
  BY DEF TransferredLocks
<1> HIDE DEF removed, moving
<1>5. ASSUME NEW k \in LockKey
      PROVE  TransferredLocks(g)[k] \in {toggleLocks[j] : j \in LockKey} \cup {NoConnection}
  BY <1>3, <1>4
<1>6. {toggleLocks[j] : j \in LockKey} \subseteq Connection \cup {NoConnection}
  BY DEF TypeOK
<1>7. QED
  BY <1>4, <1>5, <1>6

\* A drop gives back the dropped group's lock in the step that may fix the
\* group, and completes the room in the step that places the last piece.
LEMMA DropKeeps ==
  ASSUME RoomInv, NEW c \in Connection, NEW g \in Group, NEW t \in Int, DropGroup(c, g, t)
  PROVE  RoomInv'
<1>1. /\ ~timer.paused
      /\ dragLocks[g] = Owner[c]
      /\ toggleLocks' = TransferredLocks(g)
      /\ dragLocks' = [dragLocks EXCEPT ![g] = NoPlayer]
      /\ CompleteIfSolved
      /\ UNCHANGED <<connections, players, leaving, clock, activeTime>>
  BY DEF DropGroup, Released, peopleVars
<1>2. PuzzleInv' /\ placed \subseteq placed' /\ lockedGroups' \subseteq lockedGroups \cup {g}
  BY DropPuzzle DEF DropGroup, RoomInv
<1>3. /\ toggleLocks' \in [LockKey -> Connection \cup {NoConnection}]
      /\ \A k \in LockKey :
           toggleLocks'[k] \in {toggleLocks[j] : j \in LockKey} \cup {NoConnection}
  BY <1>1, TransferKeepsHolders DEF RoomInv
<1>4. ElapsedMs \in Nat
  BY DEF RoomInv, TypeOK, Timer, ElapsedMs, Max0
<1>5. \/ /\ completedAt = NotCompleted /\ placed' = Piece
         /\ completedAt' = clock
         /\ timer' = [elapsedMs |-> ElapsedMs, paused |-> TRUE, updatedAt |-> clock]
      \/ /\ ~(completedAt = NotCompleted /\ placed' = Piece)
         /\ UNCHANGED <<completedAt, timer>>
  BY <1>1 DEF CompleteIfSolved
<1>6. TypeOK'
  <2>1. timer \in Timer /\ clock \in Nat /\ completedAt \in Nat \cup {NotCompleted}
    BY DEF RoomInv, TypeOK
  <2>2. [elapsedMs |-> ElapsedMs, paused |-> TRUE, updatedAt |-> clock] \in Timer
    BY <1>4, <2>1 DEF Timer
  <2>3. timer' \in Timer
    BY <1>5, <2>1, <2>2
  <2>4. completedAt' \in Nat \cup {NotCompleted}
    BY <1>5, <2>1
  <2>5. QED
    BY <1>1, <1>2, <1>3, <2>3, <2>4 DEF RoomInv, TypeOK, PuzzleInv
<1>7. (ConnectionsHavePlayers /\ PlayersHaveConnections)'
  BY <1>1 DEF RoomInv, ConnectionsHavePlayers, PlayersHaveConnections, StillConnected
<1>8. LocksHaveHolders'
  BY <1>1, <1>3 DEF RoomInv, TypeOK, LocksHaveHolders
<1>9. DraggedGroupsAreLoose'
  BY <1>1, <1>2 DEF RoomInv, TypeOK, DraggedGroupsAreLoose
<1>10. CompletedIffSolved'
  <2>1. placed' \subseteq Piece /\ clock \in Nat
    BY <1>2 DEF PuzzleInv, PuzzleTypeOK, RoomInv, TypeOK
  <2>2. completedAt # NotCompleted <=> placed = Piece
    BY DEF RoomInv, CompletedIffSolved
  <2>3. clock # NotCompleted
    BY <2>1 DEF NotCompleted
  <2>4. QED
    BY <1>2, <1>5, <2>1, <2>2, <2>3 DEF CompletedIffSolved
<1>11. PauseFreesLocks'
  BY <1>1, <1>5 DEF RoomInv, TypeOK, PauseFreesLocks, NotCompleted
<1>12. TimerPast' /\ TimerIsActiveTime'
  BY <1>1, <1>4, <1>5 DEF RoomInv, TypeOK, Timer, TimerPast, TimerIsActiveTime, ElapsedMs, Max0
<1>13. QED
  BY <1>2, <1>6, <1>7, <1>8, <1>9, <1>10, <1>11, <1>12 DEF RoomInv

\* A pause frees every lock and stores the elapsed time; a resume continues
\* from it; a tick adds to it only while the timer runs.
LEMMA TimerKeeps ==
  ASSUME RoomInv, \/ \E c \in Connection : Pause(c) \/ Resume(c)
                  \/ Tick
  PROVE  RoomInv'
<1>1. UNCHANGED puzzleVars
  BY DEF Pause, Resume, Tick
<1>2. PuzzleInv' /\ PuzzleTypeOK' /\ UNCHANGED <<placed, lockedGroups>>
  BY <1>1, PuzzleUntouched
<1>3. UNCHANGED <<connections, players, leaving, completedAt>>
  BY DEF Pause, Resume, Tick, peopleVars
<1>4. (ConnectionsHavePlayers /\ PlayersHaveConnections /\ CompletedIffSolved)'
  BY <1>2, <1>3 DEF RoomInv, ConnectionsHavePlayers, PlayersHaveConnections,
                    StillConnected, CompletedIffSolved
<1>5. timer \in Timer /\ clock \in Nat /\ activeTime \in Nat /\ timer.updatedAt <= clock
  BY DEF RoomInv, TypeOK, TimerPast
<1>6. ASSUME NEW c \in Connection, Pause(c)
      PROVE  RoomInv'
  <2>1. (LocksHaveHolders /\ DraggedGroupsAreLoose /\ PauseFreesLocks)'
    BY <1>6 DEF Pause, AllLocksReleased, LocksHaveHolders, DraggedGroupsAreLoose, PauseFreesLocks
  <2>2. (TimerPast /\ TimerIsActiveTime)'
    BY <1>5, <1>6 DEF RoomInv, Pause, Timer, TimerPast, TimerIsActiveTime, ElapsedMs, Max0
  <2>3. TypeOK'
    BY <1>2, <1>3, <1>5, <1>6
       DEF RoomInv, TypeOK, Pause, AllLocksReleased, Timer, ElapsedMs, Max0
  <2>4. QED
    BY <1>2, <1>4, <2>1, <2>2, <2>3 DEF RoomInv
<1>7. ASSUME NEW c \in Connection, Resume(c)
      PROVE  RoomInv'
  <2>1. (LocksHaveHolders /\ DraggedGroupsAreLoose /\ PauseFreesLocks)'
    BY <1>2, <1>3, <1>5, <1>7 DEF RoomInv, Resume, Timer, lockVars, LocksHaveHolders,
                                  DraggedGroupsAreLoose, PauseFreesLocks
  <2>2. (TimerPast /\ TimerIsActiveTime)'
    BY <1>5, <1>7 DEF RoomInv, Resume, Timer, TimerPast, TimerIsActiveTime, ElapsedMs, Max0
  <2>3. TypeOK'
    BY <1>2, <1>3, <1>5, <1>7 DEF RoomInv, TypeOK, Resume, Timer, lockVars
  <2>4. QED
    BY <1>2, <1>4, <2>1, <2>2, <2>3 DEF RoomInv
<1>8. CASE Tick
  <2>1. (LocksHaveHolders /\ DraggedGroupsAreLoose /\ PauseFreesLocks)'
    BY <1>2, <1>3, <1>8 DEF RoomInv, Tick, lockVars, LocksHaveHolders,
                            DraggedGroupsAreLoose, PauseFreesLocks
  <2>2. (TimerPast /\ TimerIsActiveTime)'
    BY <1>5, <1>8 DEF RoomInv, Tick, Timer, TimerPast, TimerIsActiveTime, ElapsedMs, Max0
  <2>3. TypeOK'
    BY <1>2, <1>3, <1>5, <1>8 DEF RoomInv, TypeOK, Tick, lockVars
  <2>4. QED
    BY <1>2, <1>4, <2>1, <2>2, <2>3 DEF RoomInv
<1>9. QED
  BY <1>6, <1>7, <1>8

LEMMA RoomStep == RoomInv /\ [Next]_vars => RoomInv'
<1> SUFFICES ASSUME RoomInv, [Next]_vars
             PROVE  RoomInv'
  OBVIOUS
<1>1. ASSUME NEW c \in Connection,
             \/ Join(c) \/ StartDisconnect(c) \/ Pause(c) \/ Resume(c) \/ ArrangeGroups(c)
             \/ \E k \in LockTarget : ToggleLock(c, k)
      PROVE  RoomInv'
  BY <1>1, JoinKeeps, StartDisconnectKeeps, TimerKeeps, ArrangeKeeps, ToggleKeeps
<1>2. ASSUME NEW c \in Connection, NEW g \in Group, GrabGroup(c, g)
      PROVE  RoomInv'
  BY <1>2, GrabKeeps
<1>3. ASSUME NEW c \in Connection, NEW g \in Group, ReleaseGroup(c, g) \/ DropRejected(c, g)
      PROVE  RoomInv'
  BY <1>3, ReleaseKeeps DEF ReleaseGroup, DropRejected
<1>4. ASSUME NEW c \in Connection, NEW g \in Group, NEW t \in Offset,
             MoveGroup(c, g, t) \/ DropGroup(c, g, t)
      PROVE  RoomInv'
  BY <1>4, MoveKeeps, DropKeeps, OffsetAssumption
<1>5. CASE FinishDisconnect \/ Tick
  BY <1>5, FinishDisconnectKeeps, TimerKeeps
<1>6. CASE UNCHANGED vars
  <2>1. UNCHANGED puzzleVars /\ UNCHANGED roomVars
    BY <1>6 DEF vars
  <2>2. QED
    BY <2>1, PuzzleUntouched, PuzzleOnly
<1>7. QED
  BY <1>1, <1>2, <1>3, <1>4, <1>5, <1>6 DEF Next

\* The room's invariants hold for any players, connections and pieces.
THEOREM RoomInvariant == Spec => []RoomInv
BY RoomInitial, RoomStep, PTL DEF Spec

\* The timer shows the time the session was running, for however long it goes
\* on and however often it is paused.
THEOREM TimerCountsActiveTime == Spec => []TimerIsActiveTime
<1>1. RoomInv => TimerIsActiveTime
  BY DEF RoomInv
<1>2. QED
  BY <1>1, RoomInvariant, PTL

-----------------------------------------------------------------------------
(* Action properties *)

\* Nobody's drag is taken over: a drag lock that another player may want is
\* first given back.
THEOREM DragLocksStay == Spec => DragLocksAreNotStolen
<1> DEFINE Stays == \A g \in Group :
                      dragLocks[g] # NoPlayer => dragLocks'[g] \in {dragLocks[g], NoPlayer}
<1>1. RoomInv /\ [Next]_vars => [Stays]_vars
  <2> SUFFICES ASSUME RoomInv, Next
               PROVE  Stays
    OBVIOUS
  <2>0. dragLocks \in [Group -> Player \cup {NoPlayer}]
    BY DEF RoomInv, TypeOK
  <2>1. ASSUME UNCHANGED dragLocks
        PROVE  Stays
    BY <2>1
  <2>2. ASSUME NEW c \in Connection,
               \/ Join(c) \/ StartDisconnect(c) \/ Resume(c) \/ ArrangeGroups(c)
               \/ \E k \in LockTarget : ToggleLock(c, k)
        PROVE  Stays
    BY <2>1, <2>2 DEF Join, StartDisconnect, Resume, ArrangeGroups, ToggleLock, lockVars,
                      roomVars
  <2>3. ASSUME NEW c \in Connection, Pause(c)
        PROVE  Stays
    BY <2>3 DEF Pause, AllLocksReleased
  <2>4. ASSUME NEW c \in Connection, NEW g \in Group, GrabGroup(c, g)
        PROVE  Stays
    BY <2>0, <2>4 DEF GrabGroup, DraggedByOther
  <2>5. ASSUME NEW c \in Connection, NEW g \in Group, NEW t \in Offset, DropGroup(c, g, t)
        PROVE  Stays
    BY <2>0, <2>5 DEF DropGroup, Released
  <2>6. ASSUME NEW c \in Connection, NEW g \in Group, ReleaseGroup(c, g) \/ DropRejected(c, g)
        PROVE  Stays
    BY <2>0, <2>6 DEF ReleaseGroup, DropRejected, Released
  <2>7. ASSUME NEW c \in Connection, NEW g \in Group, NEW t \in Offset, MoveGroup(c, g, t)
        PROVE  Stays
    BY <2>1, <2>7 DEF MoveGroup, roomVars
  <2>8. CASE FinishDisconnect \/ Tick
    BY <2>8 DEF FinishDisconnect, PlayerLocksReleased, Tick, lockVars
  <2>9. QED
    BY <2>2, <2>3, <2>4, <2>5, <2>6, <2>7, <2>8 DEF Next
<1>2. QED
  BY <1>1, RoomInitial, RoomStep, PTL DEF Spec, DragLocksAreNotStolen

\* Dragging or dropping a group that does not exist changes nothing: a lock on
\* an absorbed group cannot do harm.
LEMMA DeadGroupsStay ==
  ASSUME PuzzleInv, NEW g \in Group, ~Exists(g), NEW t \in Int,
         MoveGroupToAnchor(g, t) \/ SnapDroppedGroup(g, t)
  PROVE  UNCHANGED puzzleVars
<1>1. pieceIds[g] = {}
  BY DEF Exists
<1>2. MoveGroupToAnchor(g, t)
  <2>1. ~SnapsToCorrect(g, MovedTo(g, t)) /\ NeighborCandidates(g, MovedTo(g, t)) = {}
    BY <1>1 DEF SnapsToCorrect, NeighborCandidates
  <2>2. NeighborSnaps(g, MovedTo(g, t)) = {}
    BY <2>1 DEF NeighborSnaps
  <2>3. QED
    BY <2>1, <2>2 DEF SnapDroppedGroup, DropCorrect, DropNeighbor, DropLoose
<1>3. offset' = offset
  <2>1. /\ offset \in [Piece -> Int] /\ offset' \in [Piece -> Int]
        /\ \A p \in Piece : offset'[p] = offset[p]
    BY <1>1, <1>2, MovedOffsets DEF MoveGroupToAnchor, PuzzleInv, PuzzleTypeOK
  <2>2. QED
    BY <2>1
<1>4. placed' = placed
  BY <1>2, MovePreserves
<1>5. QED
  BY <1>2, <1>3, <1>4 DEF MoveGroupToAnchor, puzzleVars

\* When every piece is placed, no group that exists is loose or held.
LEMMA SolvedIsIdle ==
  ASSUME RoomInv, completedAt # NotCompleted
  PROVE  /\ placed = Piece
         /\ LooseGroups = {}
         /\ \A g \in Group : Exists(g) => dragLocks[g] = NoPlayer
<1>1. placed = Piece
  BY DEF RoomInv, CompletedIffSolved
<1>2. \A g \in Group : Exists(g) => g \in lockedGroups
  BY <1>1 DEF RoomInv, PuzzleInv, PuzzleTypeOK, SolvedTogether
<1>3. LooseGroups = {}
  BY <1>2 DEF LooseGroups
<1>4. QED
  BY <1>1, <1>2, <1>3 DEF RoomInv, DraggedGroupsAreLoose

\* What a drop or a move can do in a completed room: nothing to the puzzle.
LEMMA CompletedDrop ==
  ASSUME RoomInv, completedAt # NotCompleted,
         NEW c \in Connection, NEW g \in Group, NEW t \in Offset,
         MoveGroup(c, g, t) \/ DropGroup(c, g, t)
  PROVE  completedAt' = completedAt /\ UNCHANGED puzzleVars
<1>1. dragLocks[g] = Owner[c] /\ Owner[c] # NoPlayer
  BY OwnerAssumption, NoneAssumption DEF MoveGroup, DropGroup
<1>2. ~Exists(g)
  BY <1>1, SolvedIsIdle
<1>3. UNCHANGED puzzleVars
  BY <1>2, DeadGroupsStay, OffsetAssumption DEF MoveGroup, DropGroup, RoomInv
<1>4. completedAt' = completedAt
  BY DEF MoveGroup, DropGroup, CompleteIfSolved, roomVars
<1>5. QED
  BY <1>3, <1>4

\* A completed room accepts commands, and none of them disturbs the puzzle or
\* completes it again.
THEOREM CompletionStays == Spec => CompletionIsFinal
<1> DEFINE Stays == completedAt # NotCompleted =>
                      completedAt' = completedAt /\ UNCHANGED puzzleVars
<1>1. RoomInv /\ [Next]_vars => [Stays]_vars
  <2> SUFFICES ASSUME RoomInv, Next, completedAt # NotCompleted
               PROVE  completedAt' = completedAt /\ UNCHANGED puzzleVars
    OBVIOUS
  <2> DEFINE Goal == completedAt' = completedAt /\ UNCHANGED puzzleVars
  <2>1. ASSUME NEW c \in Connection,
               \/ Join(c) \/ StartDisconnect(c) \/ Pause(c) \/ Resume(c)
               \/ \E k \in LockTarget : ToggleLock(c, k)
        PROVE  Goal
    BY <2>1 DEF Join, StartDisconnect, Pause, Resume, ToggleLock, timeVars
  <2>2. ASSUME NEW c \in Connection, ArrangeGroups(c)
        PROVE  Goal
    BY <2>2, SolvedIsIdle DEF ArrangeGroups, ArrangeLoosePieces
  <2>3. ASSUME NEW c \in Connection, NEW g \in Group,
               GrabGroup(c, g) \/ ReleaseGroup(c, g) \/ DropRejected(c, g)
        PROVE  Goal
    BY <2>3 DEF GrabGroup, ReleaseGroup, DropRejected, timeVars
  <2>4. ASSUME NEW c \in Connection, NEW g \in Group, NEW t \in Offset,
               MoveGroup(c, g, t) \/ DropGroup(c, g, t)
        PROVE  Goal
    BY <2>4, CompletedDrop
  <2>5. CASE FinishDisconnect \/ Tick
    BY <2>5 DEF FinishDisconnect, Tick, timeVars
  <2>6. QED
    BY <2>1, <2>2, <2>3, <2>4, <2>5 DEF Next
<1>2. QED
  BY <1>1, RoomInitial, RoomStep, PTL DEF Spec, CompletionIsFinal

\* A drop or a move changes the offsets of the pieces of its group alone.
LEMMA OnlyOwnPieces ==
  ASSUME PuzzleInv, NEW g \in Group, NEW t \in Int,
         MoveGroupToAnchor(g, t) \/ SnapDroppedGroup(g, t),
         NEW p \in Piece, offset'[p] # offset[p]
  PROVE  p \in pieceIds[g]
<1>1. CASE MoveGroupToAnchor(g, t)
  BY <1>1, MovedOffsets DEF MoveGroupToAnchor
<1>2. CASE DropCorrect(g, t)
  BY <1>2 DEF DropCorrect
<1>3. CASE DropNeighbor(g, t)
  <2>1. PICK pair \in NeighborCandidates(g, MovedTo(g, t)) : JoinNeighbor(g, t, pair)
    BY <1>3, DropNeighborPair
  <2>2. Absorbs(g, groupOf[pair[2]], pair)
    BY <2>1, JoinFacts
  <2>3. QED
    BY <2>2 DEF Absorbs
<1>4. CASE DropLoose(g, t)
  BY <1>4, <1>1 DEF DropLoose
<1>5. QED
  BY <1>1, <1>2, <1>3, <1>4 DEF SnapDroppedGroup

\* No piece is moved against another player's lock.
THEOREM LocksAreRespected == Spec => MovesRespectLocks
<1> DEFINE Held(p) == \E mover \in players :
                        /\ dragLocks[groupOf[p]] = mover
                        /\ LockOwners(groupOf[p]) \subseteq {mover}
           Respected == \A p \in Piece :
                          offset'[p] # offset[p] =>
                            \/ \E c \in Connection : ArrangeGroups(c)
                            \/ \E mover \in players :
                                 /\ dragLocks[groupOf[p]] = mover
                                 /\ LockOwners(groupOf[p]) \subseteq {mover}
<1>1. RoomInv /\ [Next]_vars => [Respected]_vars
  <2> SUFFICES ASSUME RoomInv, Next, NEW p \in Piece, offset'[p] # offset[p],
                      ~(\E c \in Connection : ArrangeGroups(c))
               PROVE  Held(p)
    OBVIOUS
  <2>1. PICK c \in Connection, g \in Group, t \in Offset :
               MoveGroup(c, g, t) \/ DropGroup(c, g, t)
    BY DEF Next, Join, StartDisconnect, Pause, Resume, ToggleLock, GrabGroup,
           ReleaseGroup, DropRejected, FinishDisconnect, Tick, puzzleVars
  <2>2. /\ Owner[c] \in players
        /\ dragLocks[g] = Owner[c]
        /\ ~IsGroupToggleLocked(Owner[c], g)
        /\ MoveGroupToAnchor(g, t) \/ SnapDroppedGroup(g, t)
    BY <2>1 DEF MoveGroup, DropGroup, Joined
  <2>3. p \in pieceIds[g]
    BY <2>2, OnlyOwnPieces, OffsetAssumption DEF RoomInv
  <2>4. groupOf[p] = g
    BY <2>3 DEF RoomInv, PuzzleInv, GroupIndex
  <2>5. Exists(g)
    BY <2>3 DEF Exists
  <2>6. LockOwners(g) \subseteq {Owner[c]}
    <3> SUFFICES ASSUME NEW k \in LockKey, toggleLocks[k] # NoConnection,
                        \/ k = <<"group", g>>
                        \/ k[1] = "piece" /\ k[2] \in pieceIds[g]
                 PROVE  Owner[toggleLocks[k]] = Owner[c]
      BY DEF LockOwners
    <3>1. k = <<"group", g>> \/ \E q \in pieceIds[g] : k = <<"piece", q>>
      BY DEF LockKey
    <3>2. QED
      BY <2>2, <2>5, <3>1 DEF IsGroupToggleLocked, LockedByOther
  <2>7. QED
    BY <2>2, <2>4, <2>6
<1>2. QED
  BY <1>1, RoomInitial, RoomStep, PTL DEF Spec, MovesRespectLocks
\* What a drop does to the locks of a piece that changes its group: the group was
\* absorbed by the dropped one, which has a lock from then on.
LEMMA AbsorbedLockMoves ==
  ASSUME RoomInv, NEW c \in Connection, NEW g \in Group, NEW t \in Offset, DropGroup(c, g, t),
         NEW p \in Piece, groupOf'[p] # groupOf[p],
         toggleLocks[<<"group", groupOf[p]>>] # NoConnection
  PROVE  toggleLocks'[<<"group", groupOf'[p]>>] # NoConnection
<1>1. PuzzleInv /\ t \in Int /\ SnapDroppedGroup(g, t) /\ toggleLocks' = TransferredLocks(g)
  BY OffsetAssumption DEF RoomInv, DropGroup
<1>2. DropNeighbor(g, t)
  BY <1>1 DEF SnapDroppedGroup, DropCorrect, DropLoose, MoveGroupToAnchor
<1>3. PICK pair \in NeighborCandidates(g, MovedTo(g, t)) : JoinNeighbor(g, t, pair)
  BY <1>1, <1>2, DropNeighborPair
<1> DEFINE h == groupOf[pair[2]]
<1>4. /\ h \in Group /\ h # g /\ Exists(h) /\ Exists(g)
      /\ pieceIds' = [pieceIds EXCEPT ![g] = pieceIds[g] \cup pieceIds[h], ![h] = {}]
      /\ groupOf' = [q \in Piece |-> IF q \in pieceIds[h] THEN g ELSE groupOf[q]]
  <2>1. Absorbs(g, h, pair)
    BY <1>1, <1>3, JoinFacts
  <2>2. QED
    BY <2>1 DEF Absorbs
<1> HIDE DEF h
<1>5. p \in pieceIds[h] /\ groupOf'[p] = g
  BY <1>4
<1>6. groupOf[p] = h
  BY <1>1, <1>4, <1>5 DEF PuzzleInv, GroupIndex
<1>7. /\ pieceIds'[h] = {} /\ pieceIds'[g] # {}
  BY <1>1, <1>4 DEF PuzzleInv, PuzzleTypeOK, Exists
<1> DEFINE removed == {k \in Group : Exists(k) /\ pieceIds'[k] = {}}
           moving == {toggleLocks[<<"group", k>>] : k \in removed} \ {NoConnection}
<1>8. h \in removed /\ g \notin removed
  BY <1>4, <1>7
<1>9. toggleLocks[<<"group", h>>] \in moving
  BY <1>6, <1>8
<1>10. (CHOOSE lock \in moving : TRUE) \in moving
  BY <1>9
<1>11. <<"group", g>> \in LockKey
  BY DEF LockKey, Group
<1>12. TransferredLocks(g) =
         [k \in LockKey |->
            CASE k[1] = "group" /\ k[2] \in removed -> NoConnection
              [] k = <<"group", g>> /\ toggleLocks[k] = NoConnection /\ moving # {} ->
                   CHOOSE lock \in moving : TRUE
              [] OTHER -> toggleLocks[k]]
  BY DEF TransferredLocks
<1>13. NoConnection \notin moving
  OBVIOUS
<1> HIDE DEF removed, moving
<1>14. TransferredLocks(g)[<<"group", g>>] =
         IF toggleLocks[<<"group", g>>] = NoConnection THEN CHOOSE lock \in moving : TRUE
         ELSE toggleLocks[<<"group", g>>]
  BY <1>8, <1>9, <1>11, <1>12
<1>15. QED
  BY <1>1, <1>5, <1>10, <1>13, <1>14

\* A piece under a group's lock never loses it to a merge: transferMergedGroupLocks
\* hands the lock to the group that absorbs the piece's group.
THEOREM LocksSurviveMerges == Spec => MergesKeepLocks
<1> DEFINE Kept == \A p \in Piece :
                     /\ toggleLocks[<<"group", groupOf[p]>>] # NoConnection
                     /\ groupOf'[p] # groupOf[p]
                     => toggleLocks'[<<"group", groupOf'[p]>>] # NoConnection
<1>1. RoomInv /\ [Next]_vars => [Kept]_vars
  <2> SUFFICES ASSUME RoomInv, Next, NEW p \in Piece, groupOf'[p] # groupOf[p],
                      toggleLocks[<<"group", groupOf[p]>>] # NoConnection
               PROVE  toggleLocks'[<<"group", groupOf'[p]>>] # NoConnection
    OBVIOUS
  <2>1. PICK c \in Connection, g \in Group, t \in Offset : DropGroup(c, g, t)
    BY DEF Next, Join, StartDisconnect, Pause, Resume, ToggleLock, GrabGroup, MoveGroup,
           MoveGroupToAnchor, ArrangeGroups, ArrangeLoosePieces,
           ReleaseGroup, DropRejected, FinishDisconnect, Tick, puzzleVars
  <2>2. QED
    BY <2>1, AbsorbedLockMoves
<1>2. QED
  BY <1>1, RoomInitial, RoomStep, PTL DEF Spec, MergesKeepLocks
=============================================================================
