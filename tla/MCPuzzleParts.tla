---------------------------- MODULE MCPuzzleParts ----------------------------
(***************************************************************************)
(* The puzzle of a room, and where its pieces are scattered and arranged,  *)
(* side by side: every behavior runs one of them, and the other stays in   *)
(* an initial state.  Four pieces in a row are scattered in any way; drops *)
(* go on from one of the scatters, and an arrangement is the last move,    *)
(* because its slots do not depend on where the groups were.               *)
(***************************************************************************)
EXTENDS MCJigsawRoom, PieceScatter

CONSTANT Parts

VARIABLE part

MCDropSpots == {<<4, 1>>}
SomeScatter == CHOOSE places \in Scattered : TRUE
SomeOffsets == CHOOSE places \in [Piece -> Offset \ OnBoard] : TRUE

ScatterMoves ==
  /\ moves = 0 => at = SomeScatter
  /\ ScatterNext
  /\ side = "scatter"

PuzzlePartsInit ==
  /\ part \in Parts
  /\ Init /\ ScatterInit
  /\ part # "room" => offset = SomeOffsets
  /\ part # "scatter" => at = SomeScatter

PuzzlePartsNext ==
  /\ \/ part = "room" /\ Next /\ UNCHANGED scatterVars
     \/ part = "scatter" /\ ScatterMoves /\ UNCHANGED vars
  /\ UNCHANGED part

PuzzlePartsSpec == PuzzlePartsInit /\ [][PuzzlePartsNext]_<<part, vars, scatterVars>>

=============================================================================
