--------------------------- MODULE MCSessionParts ---------------------------
(***************************************************************************)
(* A session of a room, side by side: every behavior runs one of its      *)
(* parts.  Three pieces in a row: a group is over the board within     *)
(* four units of its place, and neighbors attract from farther away than   *)
(* places do, so that a group can be joined to one that already lies at    *)
(* its place.  A row of four pieces and two players, who score.  Two       *)
(* sockets of one player, for three units of time.                         *)
(***************************************************************************)
EXTENDS JigsawGroups, SessionScore, SessionPresence, RoomVisit, TLC

CONSTANTS Parts, a, b, c, c1, c2

VARIABLE part

Row == {<<a, b>>, <<b, a>>, <<b, c>>, <<c, b>>}
WideOffsets == {0, 2, 4, 7}
WideBoardOffsets == {0, 2, 4}
MCPlayerOf == [s \in {c1, c2} |-> "ann"]

SessionInit ==
  /\ part \in Parts
  /\ PuzzleInit /\ ScoreInit /\ PresenceInit /\ VisitInit
  /\ part # "visit" => ~isDevelopment /\ ~restoreFailed /\ room.placed = 0 /\ ~room.paused

Stays(name, partVars) == part # name => UNCHANGED partVars

SessionNext ==
  /\ \/ part = "groups" /\ PuzzleNext
     \/ part = "score" /\ ScoreNext
     \/ part = "presence" /\ PresenceNext
     \/ part = "visit" /\ VisitNext
  /\ Stays("groups", puzzleVars) /\ Stays("score", scoreVars)
  /\ Stays("presence", presenceVars) /\ Stays("visit", visitVars)
  /\ UNCHANGED part

sessionPartsVars == <<part, puzzleVars, scoreVars, presenceVars, visitVars>>

SessionSpec == SessionInit /\ [][SessionNext]_sessionPartsVars

SocketSymmetry == Permutations({c1, c2})
=============================================================================
