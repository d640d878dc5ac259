--------------------------- MODULE MCClientParts ---------------------------
(***************************************************************************)
(* Two parts of the client, side by side: every behavior runs one of them, *)
(* and the other stays in its initial state. Two players with a page each  *)
(* around a puzzle of two neighbouring pieces, three gestures or pointer   *)
(* moves in all; and the page that creates rooms, for a user with two      *)
(* builds and two tokens.                                                  *)
(***************************************************************************)
EXTENDS RoomSync, RoomCreation, TLC

CONSTANTS Parts, a, b, tab1, guest, ann, bob, build1, build2

VARIABLE part

PairNeighbors == {<<a, b>>, <<b, a>>}
BoardOffsets == {0, 6}
ExactOffsets == {0, 3, 6}
Owners == tab1 :> ann @@ guest :> bob

\* The pieces are alike, so are the players, each with the page it has, and
\* so are the builds.
Swapped(x, y) == x :> y @@ y :> x
Kept(values) == [v \in values |-> v]
Symmetry ==
  {pieces @@ seats @@ someBuilds :
     pieces \in {Swapped(a, b), Kept({a, b})},
     seats \in {Swapped(tab1, guest) @@ Swapped(ann, bob),
                Kept({tab1, guest, ann, bob})},
     someBuilds \in {Swapped(build1, build2), Kept({build1, build2})}}

ClientPartsInit ==
  /\ part \in Parts
  /\ SyncInit /\ CreationInit
  /\ part # "creation" => stored = Nothing /\ link = Nothing

ClientPartsNext ==
  /\ \/ part = "sync" /\ SyncNext /\ UNCHANGED creationVars
     \/ part = "creation" /\ CreationNext /\ UNCHANGED syncVars
  /\ UNCHANGED part

ClientPartsSpec ==
  ClientPartsInit /\ [][ClientPartsNext]_<<part, syncVars, creationVars>>

=============================================================================
