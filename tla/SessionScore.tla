----------------------------- MODULE SessionScore -----------------------------
(***************************************************************************)
(* What finalizeSession makes of the moves of a session. A room of Rows by *)
(* Cols pieces is solved by its players; every join and every snap is an   *)
(* event, and the loop over the events (units per piece and player, points *)
(* of players, bonuses for pieces at the border) is done as they happen.   *)
(* The summary at the end, with the owners of pieces, the regions they     *)
(* form and the labels, is checked in every state, as if the session ended *)
(* there, against definitions by sets of events.                           *)
(***************************************************************************)
EXTENDS Integers, Sequences, FiniteSets, FiniteSetsExt

CONSTANTS
  Rows, Cols,   \* the puzzle
  Scorer        \* the players, 1..n: compareIds orders them

Cell == (1..Rows) \X (1..Cols)
Adjacent(p, q) ==
  \/ p[1] = q[1] /\ (p[2] = q[2] + 1 \/ q[2] = p[2] + 1)
  \/ p[2] = q[2] /\ (p[1] = q[1] + 1 \/ q[1] = p[1] + 1)

JoinUnits == 5      \* JOIN_CONTRIBUTION_UNITS
SnapUnits == 1      \* SNAP_CONTRIBUTION_UNITS

VARIABLES
  clusters,      \* the groups of the room, as sets of pieces
  fixed,         \* the pieces that are on their places
  events,        \* history: the events, in the order of their sequence
  units,         \* pieceContributors: units[p][s]
  since,         \* firstContributionAt, as the number of the event, or 0
  firstJoined,   \* firstJoinedPieces
  tally          \* tally[s]: the stats and points of a player

scoreVars == <<clusters, fixed, events, units, since, firstJoined, tally>>

NoTally == [joins |-> 0, snaps |-> 0, points |-> 0, bonuses |-> 0, foreign |-> 0]

ScoreInit ==
  /\ clusters = {{p} : p \in Cell}
  /\ fixed = {} /\ events = << >>
  /\ units = [p \in Cell |-> [s \in Scorer |-> 0]]
  /\ since = [p \in Cell |-> [s \in Scorer |-> 0]]
  /\ firstJoined = {}
  /\ tally = [s \in Scorer |-> NoTally]

-----------------------------------------------------------------------------
(* Operators of the finalizer.                                             *)

\* addContribution, for all the pieces of an event.
AddUnits(s, pieces, n) ==
  [p \in Cell |-> IF p \in pieces THEN [units[p] EXCEPT ![s] = @ + n] ELSE units[p]]

AddSince(s, pieces) ==
  [p \in Cell |-> IF p \in pieces /\ since[p][s] = 0
                  THEN [since[p] EXCEPT ![s] = Len(events) + 1] ELSE since[p]]

\* The bonus of a piece that is joined for the first time.
Bonus(p) ==
  LET horizontal == p[1] \in {1, Rows}
      vertical == p[2] \in {1, Cols} IN
    IF horizontal /\ vertical THEN 8 ELSE IF horizontal \/ vertical THEN 3 ELSE 0

FirstTime(moving) == moving \ firstJoined

\* A join to pieces that others have worked on, and this player has not.
IsForeign(s, target) ==
  /\ \E p \in target, o \in Scorer : units[p][o] > 0
  /\ \A p \in target : units[p][s] = 0

JoinPoints(moving) == IF Cardinality(moving) = 1 THEN 10 ELSE 15
PlacementPoints(pieces) == IF 2 * Cardinality(pieces) > 30 THEN 30 ELSE 2 * Cardinality(pieces)

\* piece_joined and group_joined.
ScoreJoin(s, moving, target) ==
  LET bonus == MapThenSumSet(Bonus, FirstTime(moving)) IN
    /\ tally' = [tally EXCEPT ![s] = [@ EXCEPT !.joins = @ + 1,
                    !.points = @ + JoinPoints(moving) + bonus, !.bonuses = @ + bonus,
                    !.foreign = @ + IF IsForeign(s, target) THEN 1 ELSE 0]]
    /\ units' = AddUnits(s, moving, JoinUnits)
    /\ since' = AddSince(s, moving)
    /\ firstJoined' = firstJoined \cup moving

\* group_snapped.
ScoreSnap(s, pieces) ==
  /\ tally' = [tally EXCEPT ![s] = [@ EXCEPT !.snaps = @ + 1, !.points = @ + PlacementPoints(pieces)]]
  /\ units' = AddUnits(s, pieces, SnapUnits)
  /\ since' = AddSince(s, pieces)
  /\ UNCHANGED firstJoined

-----------------------------------------------------------------------------
(* The room.                                                               *)

Solved == fixed = Cell

\* A loose group is dropped next to a neighbor: they are one group afterwards,
\* on its place if the neighbor was.
JoinClusters(s, moving, target) ==
  /\ ~Solved
  /\ moving # target /\ moving \cap fixed = {}
  /\ \E p \in moving, q \in target : Adjacent(p, q)
  /\ clusters' = (clusters \ {moving, target}) \cup {moving \cup target}
  /\ fixed' = IF target \subseteq fixed THEN fixed \cup moving ELSE fixed
  /\ events' = Append(events, [kind |-> "joined", by |-> s, moving |-> moving, target |-> target])
  /\ ScoreJoin(s, moving, target)

\* A loose group is dropped on its place.
SnapCluster(s, group) ==
  /\ ~Solved
  /\ group \cap fixed = {}
  /\ fixed' = fixed \cup group
  /\ events' = Append(events, [kind |-> "snapped", by |-> s, moving |-> group, target |-> {}])
  /\ ScoreSnap(s, group)
  /\ UNCHANGED clusters

ScoreNext ==
  \E s \in Scorer, g \in clusters :
    SnapCluster(s, g) \/ \E h \in clusters : JoinClusters(s, g, h)

ScoreSpec == ScoreInit /\ [][ScoreNext]_scoreVars

-----------------------------------------------------------------------------
(* The summary.                                                            *)

\* buildFinalPieceContributions sorts the contributors by units, by the first
\* contribution and by id. Mutant: of equal units, the later one comes first.
Later(p, s, o) ==
  \/ units[p][s] > units[p][o]
  \/ units[p][s] = units[p][o] /\ since[p][s] > since[p][o]
Before(p, s, o) ==
  \/ units[p][s] > units[p][o]
  \/ units[p][s] = units[p][o] /\ since[p][s] < since[p][o]
  \/ units[p][s] = units[p][o] /\ since[p][s] = since[p][o] /\ s < o

NoOwner == 0
Owner(p) ==
  LET contributors == {s \in Scorer : units[p][s] > 0} IN
    IF contributors = {} THEN NoOwner
    ELSE CHOOSE s \in contributors : \A o \in contributors \ {s} : Before(p, s, o)

\* buildContributionRegions: a breadth-first search from each piece not visited
\* yet, as rounds that add the neighbors of the same owner.
OwnedNeighbors ==
  {pair \in Cell \X Cell : /\ Adjacent(pair[1], pair[2])
                           /\ Owner(pair[1]) = Owner(pair[2]) /\ Owner(pair[1]) # NoOwner}
Touching(region, neighbors) == region \cup {pair[2] : pair \in {n \in neighbors : n[1] \in region}}
Region(start, neighbors) ==
  FoldSet(LAMBDA round, region : Touching(region, neighbors), {start}, Cell)
Regions == {Region(p, OwnedNeighbors) : p \in {q \in Cell : Owner(q) # NoOwner}}

\* first_blood: who made the first join; last_hit: who made the move that
\* completed the room.
JoinsOf(list) == {i \in DOMAIN list : list[i].kind = "joined"}
FirstBlood == IF JoinsOf(events) = {} THEN NoOwner ELSE events[Min(JoinsOf(events))].by
LastHit == IF Solved THEN events[Len(events)].by ELSE NoOwner

Points(s) == tally[s].points + (IF s = FirstBlood THEN 25 ELSE 0) + (IF s = LastHit THEN 35 ELSE 0)

-----------------------------------------------------------------------------
(* Correctness. The right-hand sides are sums over the events.             *)

MovesOf(s, kind) == {i \in DOMAIN events : events[i].by = s /\ events[i].kind = kind}
MovedBy(s, p, kind) == {i \in MovesOf(s, kind) : p \in events[i].moving}

ScoreTypeOK ==
  /\ UNION clusters = Cell /\ \A g, h \in clusters : g = h \/ g \cap h = {}
  /\ fixed \subseteq Cell /\ firstJoined \subseteq Cell
  /\ \A s \in Scorer : tally[s].joins + tally[s].snaps = Cardinality({i \in DOMAIN events : events[i].by = s})
  /\ \A p \in Cell, s \in Scorer : units[p][s] \in Nat /\ since[p][s] \in 0..Len(events)

\* The units of a piece are those of all the moves that had it in hand, and the
\* joins to foreign work are those to groups only others had in hand.
UnitsAddUp ==
  /\ \A p \in Cell, s \in Scorer :
       units[p][s] = 5 * Cardinality(MovedBy(s, p, "joined")) + Cardinality(MovedBy(s, p, "snapped"))
  /\ \A s \in Scorer : tally[s].foreign = Cardinality({i \in MovesOf(s, "joined") :
       LET workers == {events[j].by : j \in {k \in 1..(i - 1) :
                         events[k].moving \cap events[i].target # {}}}
       IN workers # {} /\ s \notin workers})

\* A piece belongs to whoever has most of its units, and of those to whoever had
\* it in hand first.
Starts(p, s) == Min(MovedBy(s, p, "joined") \cup MovedBy(s, p, "snapped"))
OwnersWereFirst ==
  \A p \in Cell, s \in Scorer :
    Owner(p) # NoOwner /\ s # Owner(p) /\ units[p][s] > 0 =>
      \/ units[p][Owner(p)] > units[p][s]
      \/ units[p][Owner(p)] = units[p][s] /\ Starts(p, Owner(p)) < Starts(p, s)

\* The regions are the connected parts of what each player owns: they cover the
\* owned pieces, are apart from one another, and no two of them could be one.
RegionsAreParts ==
  LET regions == Regions IN
    /\ UNION regions = {p \in Cell : Owner(p) # NoOwner}
    /\ \A r \in regions : Cardinality({Owner(p) : p \in r}) = 1
    /\ \A r, t \in regions : r # t =>
         \A p \in r, q \in t : p # q /\ (Adjacent(p, q) => Owner(p) # Owner(q))

\* Every piece pays its bonus once in a session, to one player: however often
\* its group is moved, the bonuses are those of the pieces that were moved.
BonusOncePerPiece ==
  MapThenSumSet(LAMBDA s : tally[s].bonuses, Scorer)
    = MapThenSumSet(Bonus, UNION {events[i].moving : i \in JoinsOf(events)})

\* A solved session pays at most so much: each piece is snapped or joined to
\* a placed group once, so that no series of moves raises the points.
PointsAreBounded ==
  MapThenSumSet(Points, Scorer) <=
    15 * (Cardinality(Cell) - 1) + 2 * Cardinality(Cell) + MapThenSumSet(Bonus, Cell) + 25 + 35

\* The score of a session is fair whatever the order of the drops: units and
\* bonuses are those of the moves, owners were first, and the points are bounded
\* (session-finalizer.ts).
ScoreInv ==
  /\ ScoreTypeOK
  /\ UnitsAddUp
  /\ OwnersWereFirst
  /\ RegionsAreParts
  /\ BonusOncePerPiece
  /\ PointsAreBounded
=============================================================================
