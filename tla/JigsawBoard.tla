---------------------------- MODULE JigsawBoard ----------------------------
(***************************************************************************)
(* What the puzzle of packages/core promises, without positions, group     *)
(* identifiers or flags: the pieces are divided into blocks, a step either *)
(* places a block for good or joins it to an adjacent one, and nothing is  *)
(* ever taken apart.  JigsawGroups implements this specification.          *)
(***************************************************************************)
EXTENDS Naturals

CONSTANTS
  Piece,     \* the pieces of the puzzle
  Neighbor   \* the pairs of pieces that share an edge

VARIABLES
  blocks,    \* the sets of pieces that have been joined together
  placed     \* the pieces that are fixed at their correct positions

boardVars == <<blocks, placed>>

Init ==
  /\ blocks = {{p} : p \in Piece}
  /\ placed = {}

\* A loose block reaches its place on the board.
Place(A) ==
  /\ A \in blocks
  /\ A \cap placed = {}
  /\ placed' = placed \cup A
  /\ UNCHANGED blocks

\* A loose block is joined to a block that holds a neighbor of one of its
\* pieces.  Joining a placed block, or one that lies exactly at its place,
\* places the result.
Join(A, B) ==
  /\ A \in blocks
  /\ B \in blocks \ {A}
  /\ A \cap placed = {}
  /\ \E a \in A, b \in B : <<a, b>> \in Neighbor
  /\ blocks' = (blocks \ {A, B}) \cup {A \cup B}
  /\ \/ placed' = placed \cup A \cup B
     \/ /\ B \cap placed = {}
        /\ UNCHANGED placed

Next ==
  \/ \E A \in blocks : Place(A)
  \/ \E A, B \in blocks : Join(A, B)

Spec == Init /\ [][Next]_boardVars

=============================================================================
