---------------------------- MODULE MCServerParts ----------------------------
(***************************************************************************)
(* Components of the server that share no variable, side by side: every    *)
(* behavior runs one of them, and the others stay in an initial state.     *)
(* Three transactions for two rooms and users, one of whom earned nothing  *)
(* in the second room; two requests at a time for a player whom two users  *)
(* may sign in; a connection that joins the same room twice, and a second  *)
(* one; two pages of a player and one of another, with two signals in all, *)
(* and two pings.                                                          *)
(***************************************************************************)
EXTENDS RoomFinalization, PlayerIdentity, RoomMembership, RoomCursors, RoomPings,
        TLC

CONSTANTS Parts, r1, r2, u1, u2, w1, w2, w3, q1, q2, p1, p2, conn1, conn2, room1, j1, j2, j3,
          t1, t2, t3, ann, bob

VARIABLE part

MCXp == [r \in {r1, r2} |-> [u \in {u1, u2} |->
          CASE r = r1 /\ u = u1 -> 1
            [] r = r1 /\ u = u2 -> 2
            [] r = r2 /\ u = u1 -> 4
            [] OTHER -> 0]]
MCConnOf == [j \in {j1, j2, j3} |-> IF j = j2 THEN conn2 ELSE conn1]
RejoinRoomOf == [j \in {j1, j2, j3} |-> room1]
MCGuestOf == t1 :> ann @@ t2 :> bob @@ t3 :> ann

ServerInit ==
  /\ part \in Parts
  /\ FinalizationInit /\ IdentityInit /\ Init /\ CursorsInit /\ PingsInit
  /\ part # "identity" => sessionRow.name = CHOOSE name \in Name : TRUE
  /\ \E display \in {NoSession, CHOOSE name \in Name : TRUE} :
       account = [u \in TgUser |-> display]   \* both have accounts, or none has
  /\ part # "identity" => \A u \in TgUser : account[u] = NoSession

Stays(name, partVars) == part # name => UNCHANGED partVars

ServerNext ==
  /\ \/ part = "finalization" /\ FinalizationNext
     \/ part = "identity" /\ IdentityNext
     \/ part = "membership" /\ Next
     \/ part = "cursors" /\ CursorsNext
     \/ part = "pings" /\ PingsNext
  /\ Stays("finalization", finalizationVars) /\ Stays("identity", identityVars)
  /\ Stays("membership", vars) /\ Stays("cursors", cursorVars) /\ Stays("pings", pingVars)
  /\ UNCHANGED part

serverPartsVars == <<part, finalizationVars, identityVars, vars, cursorVars, pingVars>>

ServerSpec == ServerInit /\ [][ServerNext]_serverPartsVars

\* Workers are alike, and requests, and the players who ping.
Symmetry == Permutations({w1, w2}) \cup Permutations({q1, q2}) \cup Permutations({p1, p2})
=============================================================================
