---------------------------- MODULE MCLiveParts ----------------------------
(***************************************************************************)
(* The components with liveness properties, side by side, on instances     *)
(* small enough for them: every behavior runs one of them, with the        *)
(* fairness of that one, and the others stay in an initial state. A        *)
(* connection that switches to another room; transactions for two rooms    *)
(* and the recovery; the visit of a room of two pieces.                    *)
(***************************************************************************)
EXTENDS RoomMembership, RoomFinalization, RoomVisit

CONSTANTS Parts, r1, r2, u1, conn1, conn2, room1, room2, j1, j2, j3

VARIABLE part

MCLiveXp == [r \in {r1, r2} |-> [u \in {u1} |-> 1]]
MCConnOf == [j \in {j1, j2, j3} |-> IF j = j2 THEN conn2 ELSE conn1]
SwitchRoomOf == [j \in {j1, j2, j3} |-> IF j = j3 THEN room2 ELSE room1]

LiveInit ==
  /\ part \in Parts
  /\ Init /\ FinalizationInit /\ VisitInit
  /\ part # "visit" => ~isDevelopment /\ ~restoreFailed /\ room.placed = 0 /\ ~room.paused

Stays(name, partVars) == part # name => UNCHANGED partVars

LiveNext ==
  /\ \/ part = "membership" /\ Next
     \/ part = "finalization" /\ FinalizationNext
     \/ part = "visit" /\ VisitNext
  /\ Stays("membership", vars) /\ Stays("finalization", finalizationVars)
  /\ Stays("visit", visitVars)
  /\ UNCHANGED part

livePartsVars == <<part, vars, finalizationVars, visitVars>>

LiveFairness ==
  \/ part = "membership" /\ Fairness
  \/ part = "finalization" /\ FinalizationFairness
  \/ part = "visit" /\ VisitFairness

LiveSpec == LiveInit /\ [][LiveNext]_livePartsVars /\ LiveFairness
=============================================================================
