---------------------------- MODULE MCJigsawRoom ----------------------------
(***************************************************************************)
(* Instances of JigsawRoom: a player with two tabs and a second player,    *)
(* around a puzzle of two or three pieces in a row.                        *)
(***************************************************************************)
EXTENDS JigsawRoom

CONSTANTS a, b, c, tab1, tab2, guest, ann, bob

PairNeighbors == {<<a, b>>, <<b, a>>}

RowNeighbors == {<<a, b>>, <<b, a>>, <<b, c>>, <<c, b>>}

\* Over the board within one unit of the place; 3 and 4 are within reach of
\* each other.
Offsets == {0, 3, 4}

BoardOffsets == {0}

\* Only exact fits, for the instance with three pieces.
ExactOffsets == {0, 3}

Owners ==
  [x \in Connection |-> IF x = guest THEN bob ELSE ann]

GroupTargets == {"group"} \X {b, c}

AllTargets == {"group", "piece"} \X Piece
=============================================================================
