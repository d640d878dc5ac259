---------------------------- MODULE ClientProofs ----------------------------
(***************************************************************************)
(* Proofs about the pages of the client.                                   *)
(*                                                                         *)
(* The pages of a room: one that has nothing under way agrees with the     *)
(* server on the pieces and on who holds them, for any number of pages,    *)
(* messages and moves.  The invariant follows the puzzle of the server     *)
(* through the messages on their way to a page.                            *)
(*                                                                         *)
(* The page that creates rooms: what it shows is what is selected, what it *)
(* waits for is still to be answered, and what it uses of a session the    *)
(* server has confirmed, for any number of builds, tokens, requests under  *)
(* way and tabs.                                                           *)
(***************************************************************************)
EXTENDS RoomSync, RoomCreation, JigsawProofs

-----------------------------------------------------------------------------
(***************************************************************************)
(* What there is on the way.                                               *)
(***************************************************************************)
PuzzleRecord == [offset : [Piece -> Int], pieceIds : [Group -> SUBSET Piece],
                 groupOf : [Piece -> Group], lockedGroups : SUBSET Group,
                 placed : SUBSET Piece, lockedPieces : SUBSET Piece]
PageRecord == [puzzle : PuzzleRecord, paused : BOOLEAN, opened : BOOLEAN,
               locks : [Group -> Player \cup {NoPlayer}]]
Starts == UNION {[S -> Int] : S \in SUBSET Piece}
DragRecord == [group : Group, starts : Starts]

ToClient == [type : {"state"}, puzzle : PuzzleRecord, paused : BOOLEAN]
  \cup [type : {"locked"}, group : Group, player : Player]
  \cup [type : {"unlocked"}, groups : SUBSET Group]
  \cup [type : {"moved"}, group : Group, to : Int]
  \cup [type : {"patch"}, puzzle : PuzzleRecord, pieces : SUBSET Piece, removed : SUBSET Group]
  \cup [type : {"arranged"}, puzzle : PuzzleRecord, pieces : SUBSET Piece]
  \cup [type : {"paused", "resumed"}]
  \cup [type : {"error"}, paused : BOOLEAN]
ToServer == [type : {"join", "request_state", "arrange", "pause", "resume"}]
  \cup [type : {"grab", "release"}, group : Group]
  \cup [type : {"move", "drop"}, group : Group, to : Int]
Command == Connection \X Group \X Int

SyncTypes ==
  /\ toServer \in [Connection -> Seq(ToServer)]
  /\ toClient \in [Connection -> Seq(ToClient)]
  /\ commands \in Seq(Command)
  /\ view \in [Connection -> PageRecord]
  /\ drag \in [Connection -> DragRecord \cup {NoDrag}]
  /\ gestures \in 0 .. MaxGestures
  /\ upToDate \in [Connection -> BOOLEAN] /\ silent \in [Connection -> BOOLEAN]
  /\ leaving = NoConnection

(***************************************************************************)
(* A copy of the puzzle. The pieces of a copy are those of a puzzle that   *)
(* the server had; its groups are in one piece, and where they are, except *)
(* for some that the page may have moved meanwhile.                        *)
(***************************************************************************)
Parted(q) ==
  /\ \A x \in Piece, g \in Group : x \in q.pieceIds[g] <=> q.groupOf[x] = g
  /\ \A x \in Piece : q.groupOf[q.groupOf[x]] = q.groupOf[x]

SameParts(p, q) ==
  /\ p.pieceIds = q.pieceIds /\ p.groupOf = q.groupOf
  /\ p.lockedGroups = q.lockedGroups /\ p.lockedPieces = q.lockedPieces

Whole(p) == \A x \in Piece : p.offset[x] = p.offset[p.groupOf[x]]

\* p and q agree but for the places of the groups in D.
Agree(p, q, D) ==
  \A x \in Piece : q.groupOf[x] \notin D =>
    p.offset[x] = q.offset[x] /\ (x \in p.placed <=> x \in q.placed)

\* A stage of the server's puzzle on its way to a page: what it was, and for
\* which groups, if any are known, the copy of the page may differ from it.
Stage == {s \in [puzzle : PuzzleRecord, sure : BOOLEAN, open : SUBSET Group] : Parted(s.puzzle)}

Like(p, s) ==
  /\ SameParts(p, s.puzzle)
  /\ s.sure => Whole(p) /\ Agree(p, s.puzzle, s.open)

\* The copy after a message.
Told(p, m) ==
  CASE m.type = "state" -> m.puzzle
    [] m.type = "moved" -> ViewMoved(p, m.group, m.to)
    [] m.type = "patch" -> Patched(p, m)
    [] m.type = "arranged" -> Overwritten(p, m.puzzle, m.pieces)
    [] OTHER -> p

\* The message takes every copy at stage s to stage t, also one in which more
\* groups were moved.
Carries(m, s, t) ==
  \A p \in PuzzleRecord, X \in SUBSET Group :
    /\ SameParts(p, s.puzzle) => SameParts(Told(p, m), t.puzzle)
    /\ t.sure /\ Like(p, [s EXCEPT !.open = @ \cup X])
         => Whole(Told(p, m)) /\ Agree(Told(p, m), t.puzzle, t.open \cup X)

\* The messages take the copy p to stage s.
Runs(p, messages, s) ==
  \E run \in Seq(Stage) :
    /\ Len(run) = Len(messages) + 1
    /\ Like(p, run[1]) /\ run[Len(run)] = s
    /\ \A i \in 1 .. Len(messages) : Carries(messages[i], run[i], run[i + 1])

Opened(s, X) == [s EXCEPT !.open = @ \cup X]

LEMMA StageFacts ==
  ASSUME NEW s \in Stage
  PROVE  /\ s.puzzle \in PuzzleRecord /\ s.sure \in BOOLEAN /\ s.open \in SUBSET Group
         /\ Parted(s.puzzle)
BY DEF Stage

LEMMA OpenedFacts ==
  ASSUME NEW s \in Stage, NEW X \in SUBSET Group
  PROVE  /\ Opened(s, X) \in Stage
         /\ Opened(s, X).puzzle = s.puzzle /\ Opened(s, X).sure = s.sure
         /\ Opened(s, X).open = s.open \cup X
BY DEF Opened, Stage

LEMMA LikeOpened ==
  ASSUME NEW p, NEW s \in Stage, NEW X \in SUBSET Group
  PROVE  Like(p, Opened(s, X)) <=>
           /\ SameParts(p, s.puzzle)
           /\ s.sure => Whole(p) /\ Agree(p, s.puzzle, s.open \cup X)
BY OpenedFacts DEF Like

LEMMA RunsNil ==
  ASSUME NEW p, NEW s \in Stage, Like(p, s)
  PROVE  Runs(p, <<>>, s)
<1> DEFINE run == <<s>>
<1>1. run \in Seq(Stage) /\ Len(run) = 1 /\ run[1] = s
  OBVIOUS
<1>2. Len(<<>>) = 0 /\ 1 .. 0 = {}
  OBVIOUS
<1> HIDE DEF run
<1>3. Len(run) = Len(<<>>) + 1 /\ run[Len(run)] = s
  BY <1>1, <1>2
<1>4. \A i \in 1 .. Len(<<>>) : Carries(<<>>[i], run[i], run[i + 1])
  BY <1>2
<1> QED
  BY <1>1, <1>3, <1>4 DEF Runs

LEMMA NilRun ==
  ASSUME NEW p, NEW s, Runs(p, <<>>, s)
  PROVE  Like(p, s)
BY DEF Runs

LEMMA RunsAppend ==
  ASSUME NEW p, NEW ms \in Seq(ToClient), NEW m \in ToClient, NEW s \in Stage,
         NEW t \in Stage, Runs(p, ms, s), Carries(m, s, t)
  PROVE  Runs(p, Append(ms, m), t)
<1>1. PICK run \in Seq(Stage) :
        /\ Len(run) = Len(ms) + 1
        /\ Like(p, run[1]) /\ run[Len(run)] = s
        /\ \A i \in 1 .. Len(ms) : Carries(ms[i], run[i], run[i + 1])
  BY DEF Runs
<1> DEFINE longer == Append(run, t)  more == Append(ms, m)
<1>2. /\ longer \in Seq(Stage) /\ Len(longer) = Len(run) + 1 /\ Len(more) = Len(ms) + 1
      /\ \A i \in 1 .. Len(run) : longer[i] = run[i]
      /\ longer[Len(run) + 1] = t
      /\ \A i \in 1 .. Len(ms) : more[i] = ms[i]
      /\ more[Len(ms) + 1] = m
  BY <1>1
<1>3. Len(ms) \in Nat
  OBVIOUS
<1> HIDE DEF longer, more
<1>4. ASSUME NEW i \in 1 .. Len(more)
      PROVE  Carries(more[i], longer[i], longer[i + 1])
  <2>1. CASE i = Len(ms) + 1
    BY <1>1, <1>2, <1>3, <2>1
  <2>2. CASE i \in 1 .. Len(ms)
    <3>1. longer[i] = run[i] /\ longer[i + 1] = run[i + 1] /\ more[i] = ms[i]
      BY <1>1, <1>2, <1>3, <2>2
    <3> QED
      BY <1>1, <2>2, <3>1
  <2> QED
    BY <1>2, <1>3, <2>1, <2>2
<1>5. /\ Len(longer) = Len(more) + 1 /\ longer[1] = run[1] /\ longer[Len(longer)] = t
  BY <1>1, <1>2, <1>3
<1>6. Runs(p, more, t)
  BY <1>1, <1>2, <1>4, <1>5 DEF Runs
<1> QED
  BY <1>6 DEF more

LEMMA RunsReceive ==
  ASSUME NEW p \in PuzzleRecord, NEW ms \in Seq(ToClient), ms # <<>>, NEW s \in Stage,
         Runs(p, ms, s)
  PROVE  Runs(Told(p, Head(ms)), Tail(ms), s)
<1>1. PICK run \in Seq(Stage) :
        /\ Len(run) = Len(ms) + 1
        /\ Like(p, run[1]) /\ run[Len(run)] = s
        /\ \A i \in 1 .. Len(ms) : Carries(ms[i], run[i], run[i + 1])
  BY DEF Runs
<1> DEFINE rest == Tail(run)  left == Tail(ms)  n == Len(ms)
<1>2. n \in Nat /\ n # 0 /\ Head(ms) = ms[1]
  OBVIOUS
<1>3. /\ rest \in Seq(Stage) /\ Len(rest) = n /\ Len(left) = n - 1
      /\ \A i \in 1 .. n : rest[i] = run[i + 1]
      /\ \A i \in 1 .. n - 1 : left[i] = ms[i + 1]
  BY <1>1, <1>2
<1>4. run[1] \in Stage /\ run[2] \in Stage
  BY <1>1, <1>2
<1> HIDE DEF rest, left
<1>5. Like(Told(p, ms[1]), run[2])
  <2>1. Carries(ms[1], run[1], run[2])
    BY <1>1, <1>2
  <2>2. Like(p, Opened(run[1], {}))
    BY <1>1, <1>4, LikeOpened DEF Like
  <2>3. SameParts(Told(p, ms[1]), run[2].puzzle)
    BY <1>1, <2>1 DEF Carries, Like
  <2>4. run[2].sure =>
          /\ Whole(Told(p, ms[1]))
          /\ Agree(Told(p, ms[1]), run[2].puzzle, run[2].open \cup {})
    BY <2>1, <2>2 DEF Carries, Opened
  <2>5. run[2].open \cup {} = run[2].open
    OBVIOUS
  <2> QED
    BY <2>3, <2>4, <2>5 DEF Like
<1>6. ASSUME NEW i \in 1 .. Len(left)
      PROVE  Carries(left[i], rest[i], rest[i + 1])
  <2>1. i \in 1 .. n - 1 /\ i + 1 \in 1 .. n
    BY <1>2, <1>3
  <2>2. left[i] = ms[i + 1] /\ rest[i] = run[i + 1] /\ rest[i + 1] = run[i + 1 + 1]
    BY <1>2, <1>3, <2>1
  <2> QED
    BY <1>1, <2>1, <2>2
<1>7. Len(rest) = Len(left) + 1 /\ rest[1] = run[2] /\ rest[Len(rest)] = s
  BY <1>1, <1>2, <1>3
<1>8. Runs(Told(p, ms[1]), left, s)
  BY <1>3, <1>5, <1>6, <1>7 DEF Runs
<1> QED
  BY <1>2, <1>8 DEF left

\* From p to q only the groups in X move.
MovesOnly(p, q, X) ==
  /\ SameParts(q, p) /\ (Whole(p) => Whole(q))
  /\ \A x \in Piece : p.groupOf[x] \notin X =>
       q.offset[x] = p.offset[x] /\ (x \in q.placed <=> x \in p.placed)

LEMMA RunsLocal ==
  ASSUME NEW p \in PuzzleRecord, NEW q \in PuzzleRecord, NEW ms \in Seq(ToClient),
         NEW s \in Stage, NEW Y \in SUBSET Group, Runs(p, ms, s), MovesOnly(p, q, Y)
  PROVE  Runs(q, ms, Opened(s, Y))
<1>1. PICK run \in Seq(Stage) :
        /\ Len(run) = Len(ms) + 1
        /\ Like(p, run[1]) /\ run[Len(run)] = s
        /\ \A i \in 1 .. Len(ms) : Carries(ms[i], run[i], run[i + 1])
  BY DEF Runs
<1>2. Len(ms) \in Nat
  OBVIOUS
<1>3. \A i \in 1 .. Len(run) : run[i] \in Stage
  BY <1>1
<1> DEFINE wider == [i \in 1 .. Len(run) |-> Opened(run[i], Y)]
<1>4. wider \in Seq(Stage) /\ Len(wider) = Len(run)
  <2>1. \A i \in 1 .. Len(run) : Opened(run[i], Y) \in Stage
    BY <1>3, OpenedFacts
  <2> QED
    BY <2>1
<1>5. \A i \in 1 .. Len(run) : wider[i] = Opened(run[i], Y)
  OBVIOUS
<1> HIDE DEF wider
<1>6. Like(q, wider[1])
  <2>1. run[1] \in Stage /\ wider[1] = Opened(run[1], Y)
    BY <1>1, <1>2, <1>3, <1>5
  <2>2. /\ SameParts(p, run[1].puzzle)
        /\ run[1].sure => Whole(p) /\ Agree(p, run[1].puzzle, run[1].open)
    BY <1>1 DEF Like
  <2>3. SameParts(q, run[1].puzzle)
    BY <2>2 DEF SameParts, MovesOnly
  <2>4. run[1].sure => Agree(q, run[1].puzzle, run[1].open \cup Y)
    BY <2>2 DEF SameParts, MovesOnly, Agree
  <2> QED
    BY <2>1, <2>2, <2>3, <2>4, LikeOpened DEF MovesOnly
<1>7. ASSUME NEW i \in 1 .. Len(ms)
      PROVE  Carries(ms[i], wider[i], wider[i + 1])
  <2>1. /\ run[i] \in Stage /\ run[i + 1] \in Stage
        /\ wider[i] = Opened(run[i], Y) /\ wider[i + 1] = Opened(run[i + 1], Y)
    BY <1>1, <1>2, <1>3, <1>5
  <2>2. Carries(ms[i], run[i], run[i + 1])
    BY <1>1
  <2> SUFFICES ASSUME NEW o \in PuzzleRecord, NEW X \in SUBSET Group
               PROVE  /\ SameParts(o, wider[i].puzzle) =>
                           SameParts(Told(o, ms[i]), wider[i + 1].puzzle)
                      /\ wider[i + 1].sure /\ Like(o, Opened(wider[i], X))
                           => /\ Whole(Told(o, ms[i]))
                              /\ Agree(Told(o, ms[i]), wider[i + 1].puzzle,
                                       wider[i + 1].open \cup X)
    BY DEF Carries, Opened
  <2>3. /\ wider[i].puzzle = run[i].puzzle /\ wider[i].open = run[i].open \cup Y
        /\ wider[i + 1].puzzle = run[i + 1].puzzle /\ wider[i + 1].sure = run[i + 1].sure
        /\ wider[i + 1].open = run[i + 1].open \cup Y
    BY <2>1, OpenedFacts
  <2>4. Opened(wider[i], X) = Opened(run[i], Y \cup X)
    BY <2>1, <2>3 DEF Opened, Stage
  <2>5. run[i + 1].open \cup (Y \cup X) = wider[i + 1].open \cup X
    BY <2>3
  <2>6. Y \cup X \in SUBSET Group
    OBVIOUS
  <2>7. /\ SameParts(o, run[i].puzzle) => SameParts(Told(o, ms[i]), run[i + 1].puzzle)
        /\ run[i + 1].sure /\ Like(o, Opened(run[i], Y \cup X))
             => /\ Whole(Told(o, ms[i]))
                /\ Agree(Told(o, ms[i]), run[i + 1].puzzle, run[i + 1].open \cup (Y \cup X))
    BY <2>2, <2>6 DEF Carries, Opened
  <2> QED
    BY <2>3, <2>4, <2>5, <2>7
<1>8. wider[Len(wider)] = Opened(s, Y) /\ Len(wider) = Len(ms) + 1
  BY <1>1, <1>2, <1>4, <1>5
<1> QED
  BY <1>4, <1>6, <1>7, <1>8 DEF Runs

Unsure(s) == [s EXCEPT !.sure = FALSE]

\* A page moves what is no group of its copy any more.
LEMMA RunsUnsure ==
  ASSUME NEW p \in PuzzleRecord, NEW q \in PuzzleRecord, NEW ms \in Seq(ToClient),
         NEW s \in Stage, Runs(p, ms, s), SameParts(q, p)
  PROVE  Runs(q, ms, Unsure(s))
<1>1. PICK run \in Seq(Stage) :
        /\ Len(run) = Len(ms) + 1
        /\ Like(p, run[1]) /\ run[Len(run)] = s
        /\ \A i \in 1 .. Len(ms) : Carries(ms[i], run[i], run[i + 1])
  BY DEF Runs
<1>2. Len(ms) \in Nat
  OBVIOUS
<1>3. \A i \in 1 .. Len(run) : run[i] \in Stage
  BY <1>1
<1> DEFINE vague == [i \in 1 .. Len(run) |-> Unsure(run[i])]
<1>4. vague \in Seq(Stage) /\ Len(vague) = Len(run)
  <2>1. \A i \in 1 .. Len(run) : Unsure(run[i]) \in Stage
    BY <1>3 DEF Unsure, Stage
  <2> QED
    BY <2>1
<1>5. \A i \in 1 .. Len(run) : vague[i] = Unsure(run[i])
  OBVIOUS
<1> HIDE DEF vague
<1>6. \A i \in 1 .. Len(run) : vague[i].puzzle = run[i].puzzle /\ ~vague[i].sure
  BY <1>3, <1>5 DEF Unsure, Stage
<1>7. Like(q, vague[1])
  BY <1>1, <1>2, <1>6 DEF Like, SameParts
<1>8. ASSUME NEW i \in 1 .. Len(ms)
      PROVE  Carries(ms[i], vague[i], vague[i + 1])
  <2>1. i \in 1 .. Len(run) /\ i + 1 \in 1 .. Len(run)
    BY <1>1, <1>2
  <2>2. /\ vague[i].puzzle = run[i].puzzle /\ vague[i + 1].puzzle = run[i + 1].puzzle
        /\ ~vague[i + 1].sure
    BY <1>6, <2>1
  <2>3. Carries(ms[i], run[i], run[i + 1])
    BY <1>1
  <2> QED
    BY <2>2, <2>3 DEF Carries
<1>9. vague[Len(vague)] = Unsure(s) /\ Len(vague) = Len(ms) + 1
  BY <1>1, <1>2, <1>4, <1>5
<1> QED
  BY <1>4, <1>7, <1>8, <1>9 DEF Runs

\* The server moves groups at the word of the page, which is not told.
LEMMA RunsUntold ==
  ASSUME NEW p \in PuzzleRecord, NEW ms \in Seq(ToClient), NEW s \in Stage, NEW t \in Stage,
         NEW Y \in SUBSET Group, Runs(p, ms, s), MovesOnly(s.puzzle, t.puzzle, Y),
         t.sure = s.sure, t.open = s.open \cup Y
  PROVE  Runs(p, ms, t)
<1>1. PICK run \in Seq(Stage) :
        /\ Len(run) = Len(ms) + 1
        /\ Like(p, run[1]) /\ run[Len(run)] = s
        /\ \A i \in 1 .. Len(ms) : Carries(ms[i], run[i], run[i + 1])
  BY DEF Runs
<1>2. Len(ms) \in Nat
  OBVIOUS
<1> DEFINE n == Len(ms)
           changed == [run EXCEPT ![n + 1] = t]
<1>3. /\ changed \in Seq(Stage) /\ Len(changed) = n + 1 /\ changed[n + 1] = t
      /\ \A i \in 1 .. n : changed[i] = run[i]
  BY <1>1, <1>2
<1> HIDE DEF changed
<1>4. \A o, X : SameParts(o, s.puzzle) => SameParts(o, t.puzzle)
  BY DEF MovesOnly, SameParts
<1>5. \A o, X : SameParts(o, s.puzzle) /\ Agree(o, s.puzzle, s.open \cup X)
                  => Agree(o, t.puzzle, t.open \cup X)
  BY DEF MovesOnly, SameParts, Agree
<1>6. CASE n = 0
  <2>1. run[1] = s /\ changed[1] = t
    BY <1>1, <1>3, <1>6
  <2>2. s.open \cup {} = s.open /\ t.open \cup {} = t.open
    OBVIOUS
  <2>2a. Like(p, s)
    BY <1>1, <2>1
  <2>2b. s.sure => Agree(p, s.puzzle, s.open \cup {})
    BY <2>2, <2>2a DEF Like
  <2>2c. s.sure => Agree(p, t.puzzle, t.open \cup {})
    BY <1>5, <2>2a, <2>2b DEF Like
  <2>3. Like(p, t)
    BY <1>4, <2>2, <2>2a, <2>2c DEF Like
  <2>4. \A i \in 1 .. n : Carries(ms[i], changed[i], changed[i + 1])
    BY <1>6
  <2> QED
    BY <1>3, <1>6, <2>1, <2>3, <2>4 DEF Runs
<1>7. CASE n # 0
  <2>1. changed[1] = run[1]
    BY <1>2, <1>3, <1>7
  <2>2. ASSUME NEW i \in 1 .. n
        PROVE  Carries(ms[i], changed[i], changed[i + 1])
    <3>1. Carries(ms[i], run[i], run[i + 1]) /\ changed[i] = run[i]
      BY <1>1, <1>3
    <3>2. CASE i # n
      <4>1. changed[i + 1] = run[i + 1]
        BY <1>2, <1>3, <3>2
      <4> QED
        BY <3>1, <4>1
    <3>3. CASE i = n
      <4>1. changed[i + 1] = t /\ run[i + 1] = s
        BY <1>1, <1>3, <3>3
      <4>2. ASSUME NEW o \in PuzzleRecord, NEW X \in SUBSET Group
            PROVE  /\ SameParts(o, run[i].puzzle) => SameParts(Told(o, ms[i]), t.puzzle)
                   /\ t.sure /\ Like(o, [run[i] EXCEPT !.open = @ \cup X])
                        => Whole(Told(o, ms[i])) /\ Agree(Told(o, ms[i]), t.puzzle, t.open \cup X)
        <5>1. /\ SameParts(o, run[i].puzzle) => SameParts(Told(o, ms[i]), s.puzzle)
              /\ s.sure /\ Like(o, [run[i] EXCEPT !.open = @ \cup X])
                   => Whole(Told(o, ms[i])) /\ Agree(Told(o, ms[i]), s.puzzle, s.open \cup X)
          BY <3>1, <4>1 DEF Carries
        <5>2. Like(o, [run[i] EXCEPT !.open = @ \cup X]) => SameParts(o, run[i].puzzle)
          BY <1>1, <1>2 DEF Like, Stage
        <5> QED
          BY <1>4, <1>5, <5>1, <5>2
      <4> QED
        BY <3>1, <4>1, <4>2 DEF Carries
    <3> QED
      BY <3>2, <3>3
  <2> QED
    BY <1>1, <1>3, <2>1, <2>2 DEF Runs
<1> QED
  BY <1>6, <1>7

-----------------------------------------------------------------------------
(***************************************************************************)
(* The messages carry what the server does.                                *)
(***************************************************************************)
LEMMA ServerPuzzle ==
  ASSUME PuzzleInv
  PROVE  Puzzle \in PuzzleRecord /\ Parted(Puzzle) /\ Whole(Puzzle)
<1>1. Puzzle \in PuzzleRecord
  BY DEF PuzzleInv, PuzzleTypeOK, Puzzle, PuzzleRecord
<1>2. \A x \in Piece, g \in Group : x \in pieceIds[g] <=> groupOf[x] = g
  BY DEF PuzzleInv, GroupIndex
<1>3. ASSUME NEW x \in Piece
      PROVE  /\ groupOf[x] \in Group /\ x \in pieceIds[groupOf[x]]
             /\ groupOf[x] \in pieceIds[groupOf[x]]
  BY <1>2 DEF PuzzleInv, PuzzleTypeOK, GroupIndex, Exists, Group
<1>4. \A x \in Piece : groupOf[groupOf[x]] = groupOf[x]
  BY <1>2, <1>3 DEF Group
<1>5. \A x \in Piece : offset[x] = offset[groupOf[x]]
  BY <1>3 DEF PuzzleInv, RigidGroups
<1> QED
  BY <1>1, <1>2, <1>4, <1>5 DEF Parted, Whole, Puzzle

LEMMA PuzzleIsCopy == PuzzleInv => Puzzle \in PuzzleRecord /\ Parted(Puzzle) /\ Whole(Puzzle)
BY ServerPuzzle

LEMMA NextPuzzle ==
  ASSUME PuzzleInv'
  PROVE  Puzzle' \in PuzzleRecord /\ Parted(Puzzle') /\ Whole(Puzzle')
<1>1. (PuzzleInv => Puzzle \in PuzzleRecord /\ Parted(Puzzle) /\ Whole(Puzzle))'
  BY PuzzleIsCopy, PTL
<1> QED
  BY <1>1 DEF Whole, Parted

LEMMA CarriesNothing ==
  ASSUME NEW m \in ToClient, m.type \notin {"state", "moved", "patch", "arranged"}, NEW s \in Stage
  PROVE  Carries(m, s, s)
<1> SUFFICES ASSUME NEW p \in PuzzleRecord, NEW X \in SUBSET Group
             PROVE  /\ SameParts(p, s.puzzle) => SameParts(Told(p, m), s.puzzle)
                    /\ s.sure /\ Like(p, Opened(s, X))
                         => Whole(Told(p, m)) /\ Agree(Told(p, m), s.puzzle, s.open \cup X)
  BY DEF Carries, Opened
<1>1. Told(p, m) = p
  BY DEF Told
<1> QED
  BY <1>1, LikeOpened

LEMMA CarriesState ==
  ASSUME NEW m \in ToClient, m.type = "state", NEW s \in Stage, NEW u \in Stage,
         u.puzzle = m.puzzle, Whole(m.puzzle)
  PROVE  Carries(m, s, u)
<1>1. \A p : Told(p, m) = m.puzzle
  BY DEF Told
<1> QED
  BY <1>1 DEF Carries, SameParts, Agree

\* The copies take part in every move of the server.
LEMMA CarriesIf ==
  ASSUME NEW m, NEW s \in Stage, NEW u \in Stage, u.sure = s.sure,
         \A p \in PuzzleRecord : SameParts(p, s.puzzle) => SameParts(Told(p, m), u.puzzle),
         \A p \in PuzzleRecord, X \in SUBSET Group :
           SameParts(p, s.puzzle) /\ Whole(p) /\ Agree(p, s.puzzle, s.open \cup X)
             => Whole(Told(p, m)) /\ Agree(Told(p, m), u.puzzle, u.open \cup X)
  PROVE  Carries(m, s, u)
BY LikeOpened DEF Carries, Opened

\* A group that is not there any more, or is fixed, does not move.
LEMMA CarriesDead ==
  ASSUME NEW m \in ToClient, m.type = "moved", NEW s \in Stage, NEW u \in Stage, u.sure = s.sure,
         s.puzzle.pieceIds[m.group] = {}, m.group \in Group, u.puzzle = s.puzzle,
         s.open \ {m.group} \subseteq u.open
  PROVE  Carries(m, s, u)
<1>1. \A p : SameParts(p, s.puzzle) => Told(p, m) = p
  BY DEF SameParts, Told, ViewMoved
<1>2. \A x \in Piece : s.puzzle.groupOf[x] # m.group
  BY StageFacts DEF Parted
<1>3. \A p, X : Agree(p, s.puzzle, s.open \cup X) => Agree(p, s.puzzle, u.open \cup X)
  BY <1>2 DEF Agree
<1> QED
  BY <1>1, <1>3, CarriesIf

\* The copy after a move, a patch and an arrangement, field by field.
LEMMA ViewMovedFields ==
  ASSUME NEW p \in PuzzleRecord, NEW g \in Group, NEW t \in Int
  PROVE  LET q == ViewMoved(p, g, t)
         IN  /\ q \in PuzzleRecord /\ SameParts(q, p)
             /\ p.pieceIds[g] # {} /\ g \notin p.lockedGroups =>
                  /\ \A x \in Piece : q.offset[x] = IF x \in p.pieceIds[g]
                                                    THEN p.offset[x] + t - p.offset[g]
                                                    ELSE p.offset[x]
                  /\ q.placed = p.placed \ p.pieceIds[g]
<1> DEFINE moved == [x \in Piece |-> IF x \in p.pieceIds[g] THEN p.offset[x] + t - p.offset[g]
                                     ELSE p.offset[x]]
           q == [p EXCEPT !.offset = moved, !.placed = p.placed \ p.pieceIds[g]]
<1>1. p.offset \in [Piece -> Int] /\ p.placed \subseteq Piece
  BY DEF PuzzleRecord
<1>2. moved \in [Piece -> Int]
  BY <1>1 DEF Group
<1>3. p.placed \ p.pieceIds[g] \subseteq Piece
  BY <1>1
<1>4. CASE p.pieceIds[g] = {} \/ g \in p.lockedGroups
  <2>1. ViewMoved(p, g, t) = p
    BY <1>4 DEF ViewMoved
  <2> QED
    BY <1>4, <2>1 DEF SameParts
<1>5. CASE ~(p.pieceIds[g] = {} \/ g \in p.lockedGroups)
  <2>1. ViewMoved(p, g, t) = q
    BY <1>5 DEF ViewMoved
  <2>2. \A x \in Piece : moved[x] = IF x \in p.pieceIds[g] THEN p.offset[x] + t - p.offset[g]
                                    ELSE p.offset[x]
    OBVIOUS
  <2> HIDE DEF moved
  <2>3. /\ q \in PuzzleRecord /\ SameParts(q, p)
        /\ q.offset = moved /\ q.placed = p.placed \ p.pieceIds[g]
    BY <1>2, <1>3 DEF PuzzleRecord, SameParts
  <2> HIDE DEF q
  <2> QED
    BY <2>1, <2>2, <2>3
<1> QED
  BY <1>4, <1>5

LEMMA OverwrittenFields ==
  ASSUME NEW p \in PuzzleRecord, NEW r \in PuzzleRecord, NEW S \in SUBSET Piece
  PROVE  LET q == Overwritten(p, r, S)
         IN  /\ q \in PuzzleRecord
             /\ \A x \in Piece : q.offset[x] = IF x \in S THEN r.offset[x] ELSE p.offset[x]
             /\ \A x \in Piece : q.groupOf[x] = IF x \in S THEN r.groupOf[x] ELSE p.groupOf[x]
             /\ q.placed = (p.placed \ S) \cup (r.placed \cap S)
             /\ q.lockedPieces = (p.lockedPieces \ S) \cup (r.lockedPieces \cap S)
             /\ q.pieceIds = p.pieceIds /\ q.lockedGroups = p.lockedGroups
<1> DEFINE o == [x \in Piece |-> IF x \in S THEN r.offset[x] ELSE p.offset[x]]
           i == [x \in Piece |-> IF x \in S THEN r.groupOf[x] ELSE p.groupOf[x]]
           a == (p.placed \ S) \cup (r.placed \cap S)
           l == (p.lockedPieces \ S) \cup (r.lockedPieces \cap S)
           q == [p EXCEPT !.offset = o, !.groupOf = i, !.placed = a, !.lockedPieces = l]
<1>1. o \in [Piece -> Int] /\ i \in [Piece -> Group]
  BY DEF PuzzleRecord
<1>2. a \subseteq Piece /\ l \subseteq Piece
  BY DEF PuzzleRecord
<1>3. Overwritten(p, r, S) = q
  BY DEF Overwritten
<1>4. /\ \A x \in Piece : o[x] = IF x \in S THEN r.offset[x] ELSE p.offset[x]
      /\ \A x \in Piece : i[x] = IF x \in S THEN r.groupOf[x] ELSE p.groupOf[x]
      /\ a = (p.placed \ S) \cup (r.placed \cap S)
      /\ l = (p.lockedPieces \ S) \cup (r.lockedPieces \cap S)
  OBVIOUS
<1> HIDE DEF o, i, a, l
<1>5. /\ q \in PuzzleRecord
      /\ q.offset = o /\ q.groupOf = i /\ q.placed = a /\ q.lockedPieces = l
      /\ q.pieceIds = p.pieceIds /\ q.lockedGroups = p.lockedGroups
  BY <1>1, <1>2 DEF PuzzleRecord
<1> HIDE DEF q
<1> QED
  BY <1>3, <1>4, <1>5

\* q is p after patch m, of the groups in G.
PatchOf(q, p, m, G) ==
  LET o == Overwritten(p, m.puzzle, m.pieces)
  IN  /\ q \in PuzzleRecord
      /\ q.offset = o.offset /\ q.groupOf = o.groupOf /\ q.placed = o.placed
      /\ q.lockedPieces = o.lockedPieces
      /\ \A g \in Group : q.pieceIds[g] = IF g \in G THEN m.puzzle.pieceIds[g]
                                         ELSE IF g \in m.removed THEN {} ELSE p.pieceIds[g]
      /\ q.lockedGroups = (p.lockedGroups \ (G \cup m.removed))
                            \cup (m.puzzle.lockedGroups \cap G)

LEMMA PatchedFields ==
  ASSUME NEW p \in PuzzleRecord, NEW m \in ToClient, m.puzzle \in PuzzleRecord,
         m.pieces \in SUBSET Piece, m.removed \in SUBSET Group, NEW G \in SUBSET Group,
         G = {m.puzzle.groupOf[x] : x \in m.pieces}
  PROVE  PatchOf(Patched(p, m), p, m, G)
<1> DEFINE o == Overwritten(p, m.puzzle, m.pieces)
           ids == [g \in Group |-> IF g \in G THEN m.puzzle.pieceIds[g]
                                   ELSE IF g \in m.removed THEN {} ELSE o.pieceIds[g]]
           fixed == (o.lockedGroups \ (G \cup m.removed)) \cup (m.puzzle.lockedGroups \cap G)
           q == [o EXCEPT !.pieceIds = ids, !.lockedGroups = fixed]
<1>1. Patched(p, m) = q
  BY DEF Patched
<1>2. o \in PuzzleRecord /\ o.pieceIds = p.pieceIds /\ o.lockedGroups = p.lockedGroups
  BY OverwrittenFields
<1> HIDE DEF o
<1>3. ids \in [Group -> SUBSET Piece] /\ fixed \subseteq Group
  BY <1>2 DEF PuzzleRecord
<1>4. /\ \A g \in Group : ids[g] = IF g \in G THEN m.puzzle.pieceIds[g]
                                   ELSE IF g \in m.removed THEN {} ELSE p.pieceIds[g]
      /\ fixed = (p.lockedGroups \ (G \cup m.removed)) \cup (m.puzzle.lockedGroups \cap G)
  BY <1>2
<1> HIDE DEF ids, fixed
<1>5. /\ q \in PuzzleRecord
      /\ q.offset = o.offset /\ q.groupOf = o.groupOf /\ q.placed = o.placed
      /\ q.lockedPieces = o.lockedPieces /\ q.pieceIds = ids /\ q.lockedGroups = fixed
  BY <1>2, <1>3 DEF PuzzleRecord
<1> HIDE DEF q
<1> QED
  BY <1>1, <1>4, <1>5 DEF o, PatchOf

LEMMA CarriesMoved ==
  ASSUME PuzzleInv, NEW g \in Group, NEW t \in Int, Exists(g), g \notin lockedGroups,
         MoveGroupToAnchor(g, t),
         NEW m \in ToClient, m.type = "moved", m.group = g, m.to = t,
         NEW s \in Stage, NEW u \in Stage, s.puzzle = Puzzle, u.puzzle = Puzzle',
         u.sure = s.sure, s.open \ {g} \subseteq u.open
  PROVE  Carries(m, s, u)
<1>1. /\ \A x \in Piece : groupOf[x] \in Piece /\ groupOf[groupOf[x]] = groupOf[x]
      /\ \A x \in Piece : x \in pieceIds[g] <=> groupOf[x] = g
      /\ groupOf[g] = g
  <2>1. g \in pieceIds[g] /\ g \in Piece
    BY DEF PuzzleInv, GroupIndex, Group
  <2>2. \A x \in Piece : x \in pieceIds[g] <=> groupOf[x] = g
    BY DEF PuzzleInv, GroupIndex
  <2>3. \A x \in Piece : groupOf[x] \in Piece
    BY DEF PuzzleInv, PuzzleTypeOK, Group
  <2> QED
    BY <2>1, <2>2, <2>3, ServerPuzzle DEF Puzzle, Parted
<1>2. /\ \A x \in Piece : offset'[x] = IF x \in pieceIds[g] THEN t ELSE offset[x]
      /\ placed' = placed \ pieceIds[g]
      /\ UNCHANGED <<pieceIds, groupOf, lockedGroups, lockedPieces>>
  BY MovedOffsets DEF MoveGroupToAnchor, PlacedAfterMove
<1>3. Puzzle'.offset = offset' /\ Puzzle'.placed = placed' /\ Puzzle'.groupOf = groupOf
  BY <1>2 DEF Puzzle
<1>4. ASSUME NEW p \in PuzzleRecord, SameParts(p, Puzzle)
      PROVE  /\ SameParts(Told(p, m), p) /\ p.groupOf = groupOf
             /\ \A x \in Piece : Told(p, m).offset[x] = IF x \in pieceIds[g]
                                                         THEN p.offset[x] + t - p.offset[g]
                                                         ELSE p.offset[x]
             /\ Told(p, m).placed = p.placed \ pieceIds[g]
  <2>1. p.pieceIds = pieceIds /\ p.lockedGroups = lockedGroups /\ p.groupOf = groupOf
    BY <1>4 DEF SameParts, Puzzle
  <2>2. Told(p, m) = ViewMoved(p, g, t)
    BY DEF Told
  <2>3. p.pieceIds[g] # {} /\ g \notin p.lockedGroups
    BY <2>1 DEF Exists
  <2> QED
    BY <2>1, <2>2, <2>3, ViewMovedFields
<1>5. ASSUME NEW p \in PuzzleRecord, SameParts(p, Puzzle)
      PROVE  SameParts(Told(p, m), Puzzle')
  <2>1. SameParts(Told(p, m), p)
    BY <1>4, <1>5
  <2>2. /\ Puzzle'.pieceIds = Puzzle.pieceIds /\ Puzzle'.groupOf = Puzzle.groupOf
        /\ Puzzle'.lockedGroups = Puzzle.lockedGroups
        /\ Puzzle'.lockedPieces = Puzzle.lockedPieces
    BY <1>2 DEF Puzzle
  <2> QED
    BY <1>5, <2>1, <2>2 DEF SameParts
<1>6. ASSUME NEW p \in PuzzleRecord, NEW X \in SUBSET Group, SameParts(p, Puzzle), Whole(p),
             Agree(p, Puzzle, s.open \cup X)
      PROVE  Whole(Told(p, m)) /\ Agree(Told(p, m), Puzzle', u.open \cup X)
  <2> DEFINE q == Told(p, m)
  <2>1. /\ \A x \in Piece : q.offset[x] = IF x \in pieceIds[g] THEN p.offset[x] + t - p.offset[g]
                                           ELSE p.offset[x]
        /\ q.placed = p.placed \ pieceIds[g] /\ q.groupOf = groupOf /\ p.groupOf = groupOf
    BY <1>4, <1>6 DEF SameParts
  <2> HIDE DEF q
  <2>2. \A x \in Piece : p.offset[x] \in Int /\ p.offset[x] = p.offset[groupOf[x]]
    BY <1>6, <2>1 DEF PuzzleRecord, Whole
  <2>3. \A x \in Piece : groupOf[x] = g => q.offset[x] = t
    <3> SUFFICES ASSUME NEW x \in Piece, groupOf[x] = g
                 PROVE  q.offset[x] = t
      OBVIOUS
    <3>1. p.offset[x] = p.offset[g] /\ p.offset[g] \in Int
      BY <2>2
    <3>2. q.offset[x] = p.offset[x] + t - p.offset[g]
      BY <1>1, <2>1
    <3> QED
      BY <3>1, <3>2
  <2>4. \A x \in Piece : groupOf[x] # g => q.offset[x] = p.offset[x]
    BY <1>1, <2>1
  <2>6. Whole(q)
    BY <1>1, <2>1, <2>2, <2>3, <2>4 DEF Whole
  <2>7. ASSUME NEW x \in Piece, groupOf[x] \notin u.open \cup X
        PROVE  q.offset[x] = offset'[x] /\ (x \in q.placed <=> x \in placed')
    <3>1. CASE groupOf[x] = g
      BY <1>1, <1>2, <2>1, <2>3, <3>1
    <3>2. CASE groupOf[x] # g
      <4>1. groupOf[x] \notin s.open \cup X
        BY <2>7, <3>2
      <4>2. p.offset[x] = offset[x] /\ (x \in p.placed <=> x \in placed)
        BY <1>6, <4>1 DEF Agree, Puzzle
      <4> QED
        BY <1>1, <1>2, <2>1, <2>4, <3>2, <4>2
    <3> QED
      BY <3>1, <3>2
  <2> QED
    BY <1>3, <2>6, <2>7 DEF Agree, q
<1> QED
  BY <1>5, <1>6, CarriesIf

\* Outside the pieces of group g, and the groups that g absorbs, a drop that
\* counts changes nothing.
OnlyWithin(g) ==
  /\ g \in pieceIds'[g]
  /\ \A x \in Piece \ pieceIds'[g] :
       offset'[x] = offset[x] /\ groupOf'[x] = groupOf[x] /\ (x \in placed' <=> x \in placed)
  /\ \A k \in Group \ {g} : pieceIds'[k] \in {pieceIds[k], {}}

LEMMA CorrectWithin ==
  ASSUME PuzzleInv, NEW g \in Group, NEW t \in Int, DropCorrect(g, t)
  PROVE  OnlyWithin(g) /\ snapCount' # snapCount
<1>1. Exists(g) /\ g \in pieceIds[g]
  BY CorrectPreserves DEF PuzzleInv, GroupIndex
<1>2. /\ UNCHANGED <<pieceIds, groupOf>> /\ placed' = placed \cup pieceIds[g]
      /\ \A x \in Piece : offset'[x] = IF x \in pieceIds[g] THEN 0 ELSE offset[x]
  BY DEF DropCorrect
<1>3. snapCount' # snapCount
  BY DEF DropCorrect, PuzzleInv, PuzzleTypeOK
<1> QED
  BY <1>1, <1>2, <1>3 DEF OnlyWithin

LEMMA JoinWithin ==
  ASSUME PuzzleInv, NEW g \in Group, NEW t \in Int, DropNeighbor(g, t)
  PROVE  OnlyWithin(g) /\ snapCount' # snapCount
<1>1. PICK pair \in NeighborCandidates(g, MovedTo(g, t)) : JoinNeighbor(g, t, pair)
  BY DropNeighborPair
<1> DEFINE h == groupOf[pair[2]]
           merged == MergedPieceIds(g, h)
           aligned == MovedTo(g, t + Gap(pair, MovedTo(g, t)))
           fixed == IF \A p \in merged[g] : aligned[p] = 0 THEN merged[g] ELSE {}
<1>2. Absorbs(g, h, pair)
  BY <1>1, JoinFacts
<1>3. placed' = PlacedAfterMove(g) \cup fixed /\ pieceIds' = merged
      /\ snapCount' = snapCount + 1
  BY <1>1 DEF JoinNeighbor
<1>4. fixed \subseteq merged[g]
  OBVIOUS
<1> HIDE DEF h, merged, aligned, fixed
<1>5. /\ pieceIds'[g] = pieceIds[g] \cup pieceIds[h] /\ pieceIds'[h] = {}
      /\ \A k \in Group \ {g} : pieceIds'[k] \in {pieceIds[k], {}}
  BY <1>2 DEF Absorbs, PuzzleInv, PuzzleTypeOK
<1>6. g \in pieceIds'[g]
  BY <1>2, <1>5 DEF Absorbs, PuzzleInv, GroupIndex
<1>7. \A x \in Piece \ pieceIds'[g] : offset'[x] = offset[x] /\ groupOf'[x] = groupOf[x]
  BY <1>2, <1>5 DEF Absorbs
<1>8. \A x \in Piece \ pieceIds'[g] : x \in placed' <=> x \in placed
  BY <1>3, <1>4, <1>5 DEF PlacedAfterMove
<1>9. snapCount' # snapCount
  BY <1>3 DEF PuzzleInv, PuzzleTypeOK
<1> QED
  BY <1>5, <1>6, <1>7, <1>8, <1>9 DEF OnlyWithin

\* The flags of the groups follow the partition and what is placed.
LEMMA WithinFlags ==
  ASSUME PuzzleInv, PuzzleInv', NEW g \in Group, OnlyWithin(g)
  PROVE  /\ \A x \in pieceIds'[g] : groupOf'[x] = g
         /\ \A x \in Piece \ pieceIds'[g] : groupOf'[x] # g
         /\ \A x \in Piece \ pieceIds'[g] : x \in lockedPieces' <=> x \in lockedPieces
         /\ \A k \in Group \ {g} :
              IF Exists(k) /\ pieceIds'[k] = {} THEN k \notin lockedGroups'
              ELSE /\ pieceIds'[k] = pieceIds[k]
                   /\ k \in lockedGroups' <=> k \in lockedGroups
<1>1. /\ lockedPieces = placed /\ lockedPieces' = placed'
      /\ lockedGroups = {k \in Group : pieceIds[k] # {} /\ pieceIds[k] \subseteq placed}
      /\ lockedGroups' = {k \in Group : pieceIds'[k] # {} /\ pieceIds'[k] \subseteq placed'}
  BY DEF PuzzleInv, SolvedTogether, Exists
<1>2. \A x \in Piece, k \in Group : x \in pieceIds'[k] <=> groupOf'[x] = k
  BY DEF PuzzleInv, GroupIndex
<1>2a. pieceIds' \in [Group -> SUBSET Piece]
  BY DEF PuzzleInv, PuzzleTypeOK
<1>3. ASSUME NEW k \in Group \ {g}
      PROVE  IF Exists(k) /\ pieceIds'[k] = {} THEN k \notin lockedGroups'
             ELSE /\ pieceIds'[k] = pieceIds[k]
                  /\ k \in lockedGroups' <=> k \in lockedGroups
  <2>1. CASE pieceIds'[k] = {}
    BY <1>1, <2>1 DEF Exists
  <2>2. CASE pieceIds'[k] # {}
    <3>1. pieceIds'[k] = pieceIds[k]
      BY <2>2 DEF OnlyWithin
    <3>2. \A x \in pieceIds[k] : x \in Piece \ pieceIds'[g]
      BY <1>2, <1>2a, <3>1
    <3>3. \A x \in pieceIds[k] : x \in placed' <=> x \in placed
      BY <3>2 DEF OnlyWithin
    <3> QED
      BY <1>1, <2>2, <3>1, <3>3
  <2> QED
    BY <2>1, <2>2
<1>4. \A x \in pieceIds'[g] : x \in Piece
  BY <1>2a
<1> QED
  BY <1>1, <1>2, <1>3, <1>4 DEF OnlyWithin

LEMMA CarriesPatch ==
  ASSUME PuzzleInv, PuzzleInv', NEW g \in Group, OnlyWithin(g),
         NEW m \in ToClient, m.type = "patch", m.puzzle = Puzzle', m.pieces = pieceIds'[g],
         m.removed = {h \in Group : Exists(h) /\ pieceIds'[h] = {}},
         NEW s \in Stage, NEW u \in Stage, s.puzzle = Puzzle, u.puzzle = Puzzle',
         u.sure = s.sure, s.open \ {g} \subseteq u.open
  PROVE  Carries(m, s, u)
<1> DEFINE D == {h \in Group : Exists(h) /\ pieceIds'[h] = {}}
           S == pieceIds'[g]
<1>1. /\ g \in S /\ S \in SUBSET Piece
      /\ \A x \in Piece : x \in S => groupOf'[x] = g
      /\ \A x \in Piece : x \notin S => groupOf'[x] # g /\ groupOf'[x] = groupOf[x]
                                      /\ offset'[x] = offset[x]
      /\ \A x \in Piece : x \notin S => (x \in placed' <=> x \in placed)
      /\ \A x \in Piece : x \notin S => (x \in lockedPieces' <=> x \in lockedPieces)
  BY WithinFlags DEF OnlyWithin, PuzzleInv, PuzzleTypeOK
<1>2. /\ g \notin D /\ D \in SUBSET Group
      /\ \A k \in D : k \notin lockedGroups' /\ pieceIds'[k] = {}
      /\ \A k \in Group \ {g} : k \notin D =>
           pieceIds'[k] = pieceIds[k] /\ (k \in lockedGroups' <=> k \in lockedGroups)
  <2>1. g \notin D
    BY <1>1
  <2>2. \A k \in Group \ {g} :
          IF k \in D THEN k \notin lockedGroups'
          ELSE pieceIds'[k] = pieceIds[k] /\ (k \in lockedGroups' <=> k \in lockedGroups)
    BY WithinFlags
  <2> QED
    BY <2>1, <2>2
<1>3. /\ Puzzle' \in PuzzleRecord /\ Puzzle \in PuzzleRecord /\ Whole(Puzzle')
      /\ \A x \in Piece : groupOf'[x] \in Piece /\ groupOf'[groupOf'[x]] = groupOf'[x]
  <2>1. Puzzle \in PuzzleRecord
    BY ServerPuzzle
  <2>4. Puzzle' \in PuzzleRecord /\ Whole(Puzzle') /\ Parted(Puzzle')
    BY NextPuzzle
  <2>5. Puzzle'.groupOf = groupOf'
    BY DEF Puzzle
  <2>6. groupOf' \in [Piece -> Group]
    BY DEF PuzzleInv, PuzzleTypeOK
  <2> QED
    BY <2>1, <2>4, <2>5, <2>6 DEF Parted, Group
<1>4. /\ Puzzle'.offset = offset' /\ Puzzle'.groupOf = groupOf' /\ Puzzle'.placed = placed'
      /\ Puzzle'.pieceIds = pieceIds' /\ Puzzle'.lockedGroups = lockedGroups'
      /\ Puzzle'.lockedPieces = lockedPieces'
      /\ Puzzle.offset = offset /\ Puzzle.groupOf = groupOf /\ Puzzle.placed = placed
      /\ Puzzle.pieceIds = pieceIds /\ Puzzle.lockedGroups = lockedGroups
      /\ Puzzle.lockedPieces = lockedPieces
  BY DEF Puzzle
<1>5. {Puzzle'.groupOf[x] : x \in S} = {g}
  BY <1>1, <1>4
<1> HIDE DEF D, S
<1>5a. m.pieces = S /\ m.removed = D /\ m.puzzle = Puzzle'
  BY DEF S, D
<1>6. ASSUME NEW p \in PuzzleRecord
      PROVE  LET q == Told(p, m)
             IN  /\ q \in PuzzleRecord
                 /\ \A x \in Piece : q.offset[x] = IF x \in S THEN offset'[x] ELSE p.offset[x]
                 /\ \A x \in Piece : q.groupOf[x] = IF x \in S THEN groupOf'[x] ELSE p.groupOf[x]
                 /\ q.placed = (p.placed \ S) \cup (placed' \cap S)
                 /\ q.lockedPieces = (p.lockedPieces \ S) \cup (lockedPieces' \cap S)
                 /\ \A k \in Group : q.pieceIds[k] = IF k = g THEN pieceIds'[g]
                                                    ELSE IF k \in D THEN {} ELSE p.pieceIds[k]
                 /\ q.lockedGroups = (p.lockedGroups \ ({g} \cup D)) \cup (lockedGroups' \cap {g})
  <2> DEFINE q == Told(p, m)
             o == Overwritten(p, Puzzle', S)
  <2>1. q = Patched(p, m)
    BY DEF Told
  <2>2. PICK G \in SUBSET Group : G = {g}
    OBVIOUS
  <2>2a. G = {m.puzzle.groupOf[x] : x \in m.pieces}
    BY <1>5, <1>5a, <2>2
  <2>2b. /\ m.puzzle \in PuzzleRecord /\ m.pieces \in SUBSET Piece /\ m.removed \in SUBSET Group
    BY <1>1, <1>2, <1>3, <1>5a
  <2>2c. PatchOf(Patched(p, m), p, m, G)
    BY <2>2a, <2>2b, PatchedFields
  <2>3. /\ q \in PuzzleRecord
        /\ q.offset = o.offset /\ q.groupOf = o.groupOf /\ q.placed = o.placed
        /\ q.lockedPieces = o.lockedPieces
        /\ \A k \in Group : q.pieceIds[k] = IF k \in {g} THEN pieceIds'[k]
                                           ELSE IF k \in D THEN {} ELSE p.pieceIds[k]
        /\ q.lockedGroups = (p.lockedGroups \ ({g} \cup D)) \cup (lockedGroups' \cap {g})
    <3>1. o = Overwritten(p, m.puzzle, m.pieces)
      BY <1>5a
    <3> HIDE DEF q, o
    <3> QED
      BY <1>4, <1>5a, <2>1, <2>2, <2>2c, <3>1 DEF PatchOf
  <2>4. /\ \A x \in Piece : o.offset[x] = IF x \in S THEN offset'[x] ELSE p.offset[x]
        /\ \A x \in Piece : o.groupOf[x] = IF x \in S THEN groupOf'[x] ELSE p.groupOf[x]
        /\ o.placed = (p.placed \ S) \cup (placed' \cap S)
        /\ o.lockedPieces = (p.lockedPieces \ S) \cup (lockedPieces' \cap S)
    BY <1>1, <1>3, <1>4, OverwrittenFields
  <2> HIDE DEF q, o
  <2>5. \A k \in Group : q.pieceIds[k] = IF k = g THEN pieceIds'[g]
                                        ELSE IF k \in D THEN {} ELSE p.pieceIds[k]
    BY <2>3
  <2>6. /\ \A x \in Piece : q.offset[x] = IF x \in S THEN offset'[x] ELSE p.offset[x]
        /\ \A x \in Piece : q.groupOf[x] = IF x \in S THEN groupOf'[x] ELSE p.groupOf[x]
        /\ q.placed = (p.placed \ S) \cup (placed' \cap S)
        /\ q.lockedPieces = (p.lockedPieces \ S) \cup (lockedPieces' \cap S)
    BY <2>3, <2>4
  <2> QED
    BY <2>3, <2>5, <2>6 DEF q
<1>7. ASSUME NEW p \in PuzzleRecord, SameParts(p, Puzzle)
      PROVE  SameParts(Told(p, m), Puzzle')
  <2> DEFINE q == Told(p, m)
  <2>0. /\ q \in PuzzleRecord
        /\ \A x \in Piece : q.groupOf[x] = IF x \in S THEN groupOf'[x] ELSE p.groupOf[x]
        /\ q.lockedPieces = (p.lockedPieces \ S) \cup (lockedPieces' \cap S)
        /\ \A k \in Group : q.pieceIds[k] = IF k = g THEN pieceIds'[g]
                                           ELSE IF k \in D THEN {} ELSE p.pieceIds[k]
        /\ q.lockedGroups = (p.lockedGroups \ ({g} \cup D)) \cup (lockedGroups' \cap {g})
    BY <1>6
  <2> HIDE DEF q
  <2>1. /\ p.pieceIds = pieceIds /\ p.groupOf = groupOf /\ p.lockedGroups = lockedGroups
        /\ p.lockedPieces = lockedPieces
    BY <1>4, <1>7 DEF SameParts
  <2>2. /\ q.pieceIds \in [Group -> SUBSET Piece] /\ q.groupOf \in [Piece -> Group]
        /\ q.lockedGroups \subseteq Group /\ q.lockedPieces \subseteq Piece
    BY <2>0 DEF PuzzleRecord
  <2>3. /\ pieceIds' \in [Group -> SUBSET Piece] /\ groupOf' \in [Piece -> Group]
        /\ lockedGroups' \subseteq Group /\ lockedPieces' \subseteq Piece
    BY DEF PuzzleInv, PuzzleTypeOK
  <2>4. q.groupOf = groupOf'
    <3>1. \A x \in Piece : q.groupOf[x] = groupOf'[x]
      BY <1>1, <2>0, <2>1
    <3> QED
      BY <2>2, <2>3, <3>1
  <2>5. q.lockedPieces = lockedPieces'
    BY <1>1, <2>0, <2>1, <2>2, <2>3
  <2>6. q.pieceIds = pieceIds'
    <3>1. ASSUME NEW k \in Group
          PROVE  q.pieceIds[k] = pieceIds'[k]
      <4>1. CASE k = g
        BY <2>0, <4>1
      <4>2. CASE k # g /\ k \in D
        BY <1>2, <2>0, <4>2
      <4>3. CASE k # g /\ k \notin D
        BY <1>2, <2>0, <2>1, <4>3
      <4> QED
        BY <4>1, <4>2, <4>3
    <3> QED
      BY <2>2, <2>3, <3>1
  <2>7. q.lockedGroups = lockedGroups'
    <3>1. ASSUME NEW k \in Group
          PROVE  k \in q.lockedGroups <=> k \in lockedGroups'
      <4>1. CASE k = g
        BY <2>0, <4>1
      <4>2. CASE k # g /\ k \in D
        BY <1>2, <2>0, <4>2
      <4>3. CASE k # g /\ k \notin D
        BY <1>2, <2>0, <2>1, <4>3
      <4> QED
        BY <4>1, <4>2, <4>3
    <3> QED
      BY <2>2, <2>3, <3>1
  <2> QED
    BY <1>4, <2>4, <2>5, <2>6, <2>7 DEF SameParts, q
<1>8. ASSUME NEW p \in PuzzleRecord, NEW X \in SUBSET Group, SameParts(p, Puzzle), Whole(p),
             Agree(p, Puzzle, s.open \cup X)
      PROVE  Whole(Told(p, m)) /\ Agree(Told(p, m), Puzzle', u.open \cup X)
  <2> DEFINE q == Told(p, m)
  <2>1. /\ \A x \in Piece : q.offset[x] = IF x \in S THEN offset'[x] ELSE p.offset[x]
        /\ q.placed = (p.placed \ S) \cup (placed' \cap S)
        /\ q.groupOf = groupOf' /\ p.groupOf = groupOf
    <3>1. q.groupOf = groupOf' /\ p.groupOf = groupOf
      BY <1>4, <1>7, <1>8 DEF SameParts
    <3> HIDE DEF q
    <3> QED
      BY <1>6, <3>1 DEF q
  <2> HIDE DEF q
  <2>2. \A x \in Piece : x \in S => offset'[x] = offset'[g]
    BY <1>1, <1>3, <1>4 DEF Whole
  <2>3. \A x \in Piece : p.offset[x] = p.offset[groupOf[x]]
    BY <1>8, <2>1 DEF Whole
  <2>4. Whole(q)
    <3> SUFFICES ASSUME NEW x \in Piece
                 PROVE  q.offset[x] = q.offset[groupOf'[x]]
      BY <2>1 DEF Whole
    <3>1. CASE x \in S
      BY <1>1, <2>1, <2>2, <3>1 DEF Group
    <3>2. CASE x \notin S
      <4>1. groupOf'[x] \in Piece /\ groupOf'[x] \notin S
        BY <1>1, <1>3, <3>2
      <4> QED
        BY <1>1, <2>1, <2>3, <3>2, <4>1
    <3> QED
      BY <3>1, <3>2
  <2>5. ASSUME NEW x \in Piece, groupOf'[x] \notin u.open \cup X
        PROVE  q.offset[x] = offset'[x] /\ (x \in q.placed <=> x \in placed')
    <3>1. CASE x \in S
      BY <2>1, <3>1
    <3>2. CASE x \notin S
      <4>1. groupOf[x] \notin s.open \cup X
        BY <1>1, <2>5, <3>2
      <4>2. p.offset[x] = offset[x] /\ (x \in p.placed <=> x \in placed)
        BY <1>4, <1>8, <4>1 DEF Agree
      <4> QED
        BY <1>1, <2>1, <3>2, <4>2
    <3> QED
      BY <3>1, <3>2
  <2> QED
    BY <1>4, <2>4, <2>5 DEF Agree, q
<1> QED
  BY <1>7, <1>8, CarriesIf

LEMMA CarriesArranged ==
  ASSUME PuzzleInv, ArrangeLoosePieces,
         NEW m \in ToClient, m.type = "arranged", m.puzzle = Puzzle',
         m.pieces = UNION {pieceIds[k] : k \in LooseGroups},
         NEW s \in Stage, NEW u \in Stage, s.puzzle = Puzzle, u.puzzle = Puzzle',
         u.sure = s.sure, s.open \subseteq u.open
  PROVE  Carries(m, s, u)
<1> DEFINE S == UNION {pieceIds[k] : k \in LooseGroups}
<1>1. PuzzleInv' /\ UNCHANGED <<pieceIds, placed, groupOf, lockedGroups, lockedPieces>>
  BY ArrangePreserves DEF ArrangeLoosePieces
<1>2. /\ S \in SUBSET Piece /\ LooseGroups \subseteq Group
      /\ \A x \in Piece : x \in S <=> groupOf[x] \in LooseGroups
      /\ \A x \in Piece : groupOf[x] \in Piece
  BY DEF PuzzleInv, PuzzleTypeOK, GroupIndex, LooseGroups, Group
<1>3. \A x \in Piece : x \notin S => offset'[x] = offset[x]
  BY <1>2 DEF ArrangeLoosePieces
<1>4. /\ Puzzle'.offset = offset' /\ Puzzle'.groupOf = groupOf /\ Puzzle'.placed = placed
      /\ Puzzle'.pieceIds = pieceIds /\ Puzzle'.lockedGroups = lockedGroups
      /\ Puzzle'.lockedPieces = lockedPieces
      /\ Puzzle.offset = offset /\ Puzzle.groupOf = groupOf /\ Puzzle.placed = placed
      /\ Puzzle.pieceIds = pieceIds /\ Puzzle.lockedGroups = lockedGroups
      /\ Puzzle.lockedPieces = lockedPieces
  BY <1>1 DEF Puzzle
<1>5. /\ Puzzle' \in PuzzleRecord /\ Whole(Puzzle')
      /\ \A x \in Piece : groupOf[groupOf[x]] = groupOf[x]
  <2>1. Puzzle' \in PuzzleRecord /\ Whole(Puzzle') /\ Parted(Puzzle')
    BY <1>1, NextPuzzle
  <2> QED
    BY <1>4, <2>1 DEF Parted
<1> HIDE DEF S
<1>6. m.pieces = S
  BY DEF S
<1>7. ASSUME NEW p \in PuzzleRecord, SameParts(p, Puzzle)
      PROVE  LET q == Told(p, m)
             IN  /\ SameParts(q, Puzzle') /\ q.groupOf = groupOf /\ p.groupOf = groupOf
                 /\ \A x \in Piece : q.offset[x] = IF x \in S THEN offset'[x] ELSE p.offset[x]
                 /\ q.placed = (p.placed \ S) \cup (placed \cap S)
  <2> DEFINE q == Told(p, m)
  <2>1. q = Overwritten(p, Puzzle', S)
    BY <1>6 DEF Told
  <2>2. /\ q \in PuzzleRecord
        /\ \A x \in Piece : q.offset[x] = IF x \in S THEN offset'[x] ELSE p.offset[x]
        /\ \A x \in Piece : q.groupOf[x] = IF x \in S THEN groupOf[x] ELSE p.groupOf[x]
        /\ q.placed = (p.placed \ S) \cup (placed \cap S)
        /\ q.lockedPieces = (p.lockedPieces \ S) \cup (lockedPieces \cap S)
        /\ q.pieceIds = p.pieceIds /\ q.lockedGroups = p.lockedGroups
    BY <1>2, <1>4, <1>5, <2>1, OverwrittenFields
  <2> HIDE DEF q
  <2>3. /\ p.groupOf = groupOf /\ p.pieceIds = pieceIds /\ p.lockedGroups = lockedGroups
        /\ p.lockedPieces = lockedPieces
    BY <1>4, <1>7 DEF SameParts
  <2>4. q.groupOf = groupOf
    <3>1. q.groupOf \in [Piece -> Group] /\ groupOf \in [Piece -> Group]
      BY <2>2 DEF PuzzleRecord, PuzzleInv, PuzzleTypeOK
    <3>2. \A x \in Piece : q.groupOf[x] = groupOf[x]
      BY <2>2, <2>3
    <3> QED
      BY <3>1, <3>2
  <2>5. q.lockedPieces = lockedPieces
    BY <2>2, <2>3
  <2> QED
    BY <1>4, <2>2, <2>3, <2>4, <2>5 DEF SameParts, q
<1>8. ASSUME NEW p \in PuzzleRecord, NEW X \in SUBSET Group, SameParts(p, Puzzle), Whole(p),
             Agree(p, Puzzle, s.open \cup X)
      PROVE  Whole(Told(p, m)) /\ Agree(Told(p, m), Puzzle', u.open \cup X)
  <2> DEFINE q == Told(p, m)
  <2>1. /\ \A x \in Piece : q.offset[x] = IF x \in S THEN offset'[x] ELSE p.offset[x]
        /\ q.placed = (p.placed \ S) \cup (placed \cap S)
        /\ q.groupOf = groupOf /\ p.groupOf = groupOf
    BY <1>7, <1>8
  <2> HIDE DEF q
  <2>2. \A x \in Piece : offset'[x] = offset'[groupOf[x]]
    BY <1>4, <1>5 DEF Whole
  <2>3. \A x \in Piece : p.offset[x] = p.offset[groupOf[x]]
    BY <1>8, <2>1 DEF Whole
  <2>4. Whole(q)
    <3> SUFFICES ASSUME NEW x \in Piece
                 PROVE  q.offset[x] = q.offset[groupOf[x]]
      BY <2>1 DEF Whole
    <3>1. groupOf[x] \in Piece /\ (groupOf[x] \in S <=> x \in S)
      BY <1>2, <1>5
    <3> QED
      BY <2>1, <2>2, <2>3, <3>1
  <2>5. ASSUME NEW x \in Piece, groupOf[x] \notin u.open \cup X
        PROVE  q.offset[x] = offset'[x] /\ (x \in q.placed <=> x \in placed)
    <3>1. p.offset[x] = offset[x] /\ (x \in p.placed <=> x \in placed)
      BY <1>4, <1>8, <2>5 DEF Agree
    <3> QED
      BY <1>3, <2>1, <3>1
  <2> QED
    BY <1>4, <2>4, <2>5 DEF Agree, q
<1> QED
  BY <1>7, <1>8, CarriesIf

-----------------------------------------------------------------------------
(***************************************************************************)
(* The messages to the server, and the drops that wait there.              *)
(***************************************************************************)
InHand(d, g) == d # NoDrag /\ d.group = g

\* After the first i messages of q there is one that ends the drag of g.
Later(q, ends, g, i) == \E j \in DOMAIN q : j > i /\ q[j].type \in ends /\ q[j].group = g

\* Whatever such a message began is in the hand d, or ends later.
Ended(q, d, type, ends) ==
  \A i \in DOMAIN q : q[i].type = type =>
    InHand(d, q[i].group) \/ Later(q, ends, q[i].group, i)

QueuedIn(q, c, g) == \E i \in DOMAIN q : q[i][1] = c /\ q[i][2] = g

LEMMA LaterTail ==
  ASSUME NEW q \in Seq(ToServer), q # <<>>, NEW ends, NEW g, NEW i \in Nat,
         Later(q, ends, g, i + 1)
  PROVE  Later(Tail(q), ends, g, i)
<1>1. PICK j \in DOMAIN q : j > i + 1 /\ q[j].type \in ends /\ q[j].group = g
  BY DEF Later
<1>2. j \in 1 .. Len(q) /\ Len(q) \in Nat
  OBVIOUS
<1>3. j - 1 \in 1 .. Len(q) - 1 /\ j - 1 > i
  BY <1>1, <1>2
<1>4. DOMAIN Tail(q) = 1 .. Len(q) - 1 /\ \A k \in 1 .. Len(q) - 1 : Tail(q)[k] = q[k + 1]
  OBVIOUS
<1>5. Tail(q)[j - 1] = q[j]
  BY <1>2, <1>3, <1>4
<1> QED
  BY <1>1, <1>3, <1>4, <1>5 DEF Later

LEMMA LaterAppend ==
  ASSUME NEW q \in Seq(ToServer), NEW m \in ToServer, NEW ends, NEW g, NEW i \in Nat
  PROVE  /\ Later(q, ends, g, i) => Later(Append(q, m), ends, g, i)
         /\ i <= Len(q) /\ m.type \in ends /\ m.group = g => Later(Append(q, m), ends, g, i)
<1>1. /\ DOMAIN Append(q, m) = 1 .. Len(q) + 1 /\ DOMAIN q = 1 .. Len(q) /\ Len(q) \in Nat
      /\ \A k \in 1 .. Len(q) : Append(q, m)[k] = q[k]
      /\ Append(q, m)[Len(q) + 1] = m
  OBVIOUS
<1>2. ASSUME Later(q, ends, g, i)
      PROVE  Later(Append(q, m), ends, g, i)
  <2>1. PICK j \in DOMAIN q : j > i /\ q[j].type \in ends /\ q[j].group = g
    BY <1>2 DEF Later
  <2>2. j \in DOMAIN Append(q, m) /\ Append(q, m)[j] = q[j]
    BY <1>1
  <2> QED
    BY <2>1, <2>2 DEF Later
<1>3. ASSUME i <= Len(q), m.type \in ends, m.group = g
      PROVE  Later(Append(q, m), ends, g, i)
  <2>1. Len(q) + 1 \in DOMAIN Append(q, m) /\ Len(q) + 1 > i
    BY <1>1, <1>3
  <2> QED
    BY <1>1, <1>3, <2>1 DEF Later
<1> QED
  BY <1>2, <1>3

\* The first message is none of those that end the drag of g.
LEMMA LaterTake ==
  ASSUME NEW q \in Seq(ToServer), q # <<>>, NEW ends, NEW g, Later(q, ends, g, 0),
         ~(Head(q).type \in ends /\ Head(q).group = g)
  PROVE  Later(Tail(q), ends, g, 0)
<1>1. PICK j \in DOMAIN q : j > 0 /\ q[j].type \in ends /\ q[j].group = g
  BY DEF Later
<1>2. j # 1 /\ j \in Nat
  BY <1>1
<1>3. Later(q, ends, g, 0 + 1)
  BY <1>1, <1>2 DEF Later
<1> QED
  BY <1>3, LaterTail

LEMMA EndedTail ==
  ASSUME NEW q \in Seq(ToServer), q # <<>>, NEW d, NEW type, NEW ends, Ended(q, d, type, ends)
  PROVE  Ended(Tail(q), d, type, ends)
<1> SUFFICES ASSUME NEW i \in DOMAIN Tail(q), Tail(q)[i].type = type
             PROVE  InHand(d, Tail(q)[i].group) \/ Later(Tail(q), ends, Tail(q)[i].group, i)
  BY DEF Ended
<1>1. i \in Nat /\ i + 1 \in DOMAIN q /\ Tail(q)[i] = q[i + 1]
  OBVIOUS
<1>2. InHand(d, q[i + 1].group) \/ Later(q, ends, q[i + 1].group, i + 1)
  BY <1>1 DEF Ended
<1> QED
  BY <1>1, <1>2, LaterTail

LEMMA EndedAppend ==
  ASSUME NEW q \in Seq(ToServer), NEW m \in ToServer, NEW d, NEW e, NEW type, NEW ends,
         Ended(q, d, type, ends),
         \A g : InHand(d, g) => InHand(e, g) \/ (m.type \in ends /\ m.group = g),
         m.type = type => InHand(e, m.group)
  PROVE  Ended(Append(q, m), e, type, ends)
<1> SUFFICES ASSUME NEW i \in DOMAIN Append(q, m), Append(q, m)[i].type = type
             PROVE  \/ InHand(e, Append(q, m)[i].group)
                    \/ Later(Append(q, m), ends, Append(q, m)[i].group, i)
  BY DEF Ended
<1>1. /\ DOMAIN Append(q, m) = 1 .. Len(q) + 1 /\ DOMAIN q = 1 .. Len(q) /\ Len(q) \in Nat
      /\ \A k \in 1 .. Len(q) : Append(q, m)[k] = q[k]
      /\ Append(q, m)[Len(q) + 1] = m
  OBVIOUS
<1>2. CASE i = Len(q) + 1
  BY <1>1, <1>2
<1>3. CASE i # Len(q) + 1
  <2>1. i \in DOMAIN q /\ Append(q, m)[i] = q[i] /\ i \in Nat /\ i <= Len(q)
    BY <1>1, <1>3
  <2>2. InHand(d, q[i].group) \/ Later(q, ends, q[i].group, i)
    BY <2>1 DEF Ended
  <2> QED
    BY <2>1, <2>2, LaterAppend
<1> QED
  BY <1>2, <1>3

LEMMA QueuedTail ==
  ASSUME NEW q \in Seq(Command), q # <<>>, NEW c, NEW g, QueuedIn(q, c, g),
         ~(Head(q)[1] = c /\ Head(q)[2] = g)
  PROVE  QueuedIn(Tail(q), c, g)
<1>1. PICK i \in DOMAIN q : q[i][1] = c /\ q[i][2] = g
  BY DEF QueuedIn
<1>2. i # 1 /\ i \in 1 .. Len(q)
  BY <1>1
<1>3. i - 1 \in DOMAIN Tail(q) /\ Tail(q)[i - 1] = q[i]
  BY <1>2
<1> QED
  BY <1>1, <1>3 DEF QueuedIn

LEMMA QueuedAppend ==
  ASSUME NEW q \in Seq(Command), NEW k \in Command, NEW c, NEW g
  PROVE  /\ QueuedIn(q, c, g) => QueuedIn(Append(q, k), c, g)
         /\ k[1] = c /\ k[2] = g => QueuedIn(Append(q, k), c, g)
<1>1. /\ DOMAIN Append(q, k) = 1 .. Len(q) + 1 /\ DOMAIN q = 1 .. Len(q) /\ Len(q) \in Nat
      /\ \A i \in 1 .. Len(q) : Append(q, k)[i] = q[i]
      /\ Append(q, k)[Len(q) + 1] = k
  OBVIOUS
<1>2. Len(q) + 1 \in DOMAIN Append(q, k) /\ \A i \in DOMAIN q : i \in DOMAIN Append(q, k)
  BY <1>1
<1> QED
  BY <1>1, <1>2 DEF QueuedIn

-----------------------------------------------------------------------------
(***************************************************************************)
(* The locks that a page shows once it has read its messages.              *)
(***************************************************************************)
Touches(m, g) ==
  \/ m.type = "state"
  \/ m.type = "locked" /\ m.group = g
  \/ m.type = "unlocked" /\ g \in m.groups

ToldLocks(l, m) ==
  CASE m.type = "state" -> [g \in Group |-> NoPlayer]
    [] m.type = "locked" -> [l EXCEPT ![m.group] = m.player]
    [] m.type = "unlocked" -> [g \in Group |-> IF g \in m.groups THEN NoPlayer ELSE l[g]]
    [] OTHER -> l

\* The last word on group g, if there is one, is what the server has.
LocksFollow(l, ms, locks) ==
  \A g \in Group :
    /\ (\A i \in DOMAIN ms : ~Touches(ms[i], g)) => l[g] \in {NoPlayer, locks[g]}
    /\ \A i \in DOMAIN ms :
         /\ ms[i].type = "locked" /\ ms[i].group = g
         /\ \A j \in DOMAIN ms : j > i => ~Touches(ms[j], g)
         => ms[i].player = locks[g]

LEMMA FollowNew ==
  ASSUME NEW l, NEW m \in ToClient, m.type = "state", NEW locks
  PROVE  LocksFollow(l, Append(<<>>, m), locks)
<1>1. Append(<<>>, m) = <<m>> /\ DOMAIN <<m>> = {1} /\ <<m>>[1] = m
  OBVIOUS
<1> DEFINE ms == <<m>>
<1> HIDE DEF ms
<1>2. \A g \in Group : Touches(ms[1], g) /\ ms[1].type # "locked"
  BY <1>1 DEF ms, Touches
<1>3. LocksFollow(l, ms, locks)
  BY <1>1, <1>2 DEF ms, LocksFollow
<1> QED
  BY <1>1, <1>3 DEF ms

LEMMA FollowAppend ==
  ASSUME NEW l, NEW ms \in Seq(ToClient), NEW m \in ToClient, NEW before, NEW after,
         LocksFollow(l, ms, before),
         \A g \in Group : ~Touches(m, g) => after[g] = before[g],
         m.type = "locked" => after[m.group] = m.player
  PROVE  LocksFollow(l, Append(ms, m), after)
<1> DEFINE more == Append(ms, m)  n == Len(ms)
<1>1. /\ DOMAIN more = 1 .. n + 1 /\ DOMAIN ms = 1 .. n /\ n \in Nat
      /\ \A i \in 1 .. n : more[i] = ms[i]
      /\ more[n + 1] = m
  OBVIOUS
<1> HIDE DEF more, n
<1> SUFFICES ASSUME NEW g \in Group
             PROVE  /\ (\A i \in DOMAIN more : ~Touches(more[i], g)) =>
                         l[g] \in {NoPlayer, after[g]}
                    /\ \A i \in DOMAIN more :
                         /\ more[i].type = "locked" /\ more[i].group = g
                         /\ \A j \in DOMAIN more : j > i => ~Touches(more[j], g)
                         => more[i].player = after[g]
  BY DEF LocksFollow, more
<1>2. ASSUME \A i \in DOMAIN more : ~Touches(more[i], g)
      PROVE  l[g] \in {NoPlayer, after[g]}
  <2>1. ~Touches(m, g) /\ \A i \in DOMAIN ms : ~Touches(ms[i], g)
    BY <1>1, <1>2
  <2> QED
    BY <2>1 DEF LocksFollow
<1>3. ASSUME NEW i \in DOMAIN more, more[i].type = "locked", more[i].group = g,
             \A j \in DOMAIN more : j > i => ~Touches(more[j], g)
      PROVE  more[i].player = after[g]
  <2>1. CASE i = n + 1
    BY <1>1, <1>3, <2>1
  <2>2. CASE i # n + 1
    <3>1. i \in DOMAIN ms /\ more[i] = ms[i] /\ n + 1 > i /\ n + 1 \in DOMAIN more
      BY <1>1, <2>2
    <3>2. ~Touches(m, g)
      BY <1>1, <1>3, <3>1
    <3>3. \A j \in DOMAIN ms : j > i => ~Touches(ms[j], g)
      BY <1>1, <1>3
    <3> QED
      BY <1>3, <3>1, <3>2, <3>3 DEF LocksFollow
  <2> QED
    BY <2>1, <2>2
<1> QED
  BY <1>2, <1>3

LEMMA FollowReceive ==
  ASSUME NEW l \in [Group -> Player \cup {NoPlayer}], NEW ms \in Seq(ToClient), ms # <<>>,
         NEW locks, LocksFollow(l, ms, locks)
  PROVE  LocksFollow(ToldLocks(l, Head(ms)), Tail(ms), locks)
<1> DEFINE left == Tail(ms)  n == Len(ms)  m == Head(ms)  k == ToldLocks(l, m)
<1>1. /\ DOMAIN left = 1 .. n - 1 /\ DOMAIN ms = 1 .. n /\ n \in Nat /\ n # 0
      /\ \A i \in 1 .. n - 1 : left[i] = ms[i + 1]
      /\ m = ms[1] /\ m \in ToClient
  OBVIOUS
<1> HIDE DEF left, n, m
<1>2. \A g \in Group : ~Touches(m, g) => k[g] = l[g]
  BY DEF Touches, ToldLocks
<1>3. \A g \in Group : Touches(m, g) => k[g] = NoPlayer \/ (m.type = "locked" /\ m.group = g)
  BY DEF Touches, ToldLocks
<1>4. \A g \in Group : m.type = "locked" /\ m.group = g => k[g] = m.player
  BY DEF ToldLocks
<1> HIDE DEF k
<1> SUFFICES ASSUME NEW g \in Group
             PROVE  /\ (\A i \in DOMAIN left : ~Touches(left[i], g)) =>
                         k[g] \in {NoPlayer, locks[g]}
                    /\ \A i \in DOMAIN left :
                         /\ left[i].type = "locked" /\ left[i].group = g
                         /\ \A j \in DOMAIN left : j > i => ~Touches(left[j], g)
                         => left[i].player = locks[g]
  BY DEF LocksFollow, left, k, m
<1>5. ASSUME \A i \in DOMAIN left : ~Touches(left[i], g)
      PROVE  k[g] \in {NoPlayer, locks[g]}
  <2>1. \A j \in DOMAIN ms : j > 1 => ~Touches(ms[j], g)
    <3> SUFFICES ASSUME NEW j \in DOMAIN ms, j > 1
                 PROVE  ~Touches(ms[j], g)
      OBVIOUS
    <3>1. j - 1 \in DOMAIN left /\ left[j - 1] = ms[j]
      BY <1>1
    <3> QED
      BY <1>5, <3>1
  <2>2. CASE Touches(m, g)
    <3>1. CASE m.type = "locked" /\ m.group = g
      <4>1. 1 \in DOMAIN ms
        BY <1>1
      <4>2. m.player = locks[g]
        BY <1>1, <2>1, <3>1, <4>1 DEF LocksFollow
      <4> QED
        BY <1>4, <3>1, <4>2
    <3> QED
      BY <1>3, <2>2, <3>1
  <2>3. CASE ~Touches(m, g)
    <3>1. \A i \in DOMAIN ms : ~Touches(ms[i], g)
      <4> SUFFICES ASSUME NEW i \in DOMAIN ms
                   PROVE  ~Touches(ms[i], g)
        OBVIOUS
      <4>1. i = 1 \/ i > 1
        BY <1>1
      <4> QED
        BY <1>1, <2>1, <2>3, <4>1
    <3>2. l[g] \in {NoPlayer, locks[g]}
      BY <3>1 DEF LocksFollow
    <3> QED
      BY <1>2, <2>3, <3>2
  <2> QED
    BY <2>2, <2>3
<1>6. ASSUME NEW i \in DOMAIN left, left[i].type = "locked", left[i].group = g,
             \A j \in DOMAIN left : j > i => ~Touches(left[j], g)
      PROVE  left[i].player = locks[g]
  <2>1. i + 1 \in DOMAIN ms /\ left[i] = ms[i + 1]
    BY <1>1
  <2>2. \A j \in DOMAIN ms : j > i + 1 => ~Touches(ms[j], g)
    <3> SUFFICES ASSUME NEW j \in DOMAIN ms, j > i + 1
                 PROVE  ~Touches(ms[j], g)
      OBVIOUS
    <3>1. j - 1 \in DOMAIN left /\ left[j - 1] = ms[j] /\ j - 1 > i
      BY <1>1
    <3> QED
      BY <1>6, <3>1
  <2> QED
    BY <1>6, <2>1, <2>2 DEF LocksFollow
<1> QED
  BY <1>5, <1>6

LEMMA AppendHead ==
  ASSUME NEW q \in Seq(ToServer), NEW m \in ToServer
  PROVE  Append(q, m) # <<>> /\ (q # <<>> => Head(Append(q, m)) = Head(q))
<1>1. Len(Append(q, m)) = Len(q) + 1 /\ Len(q) \in Nat /\ Len(<<>>) = 0
  OBVIOUS
<1>2. q # <<>> => Head(Append(q, m)) = Head(q)
  OBVIOUS
<1> QED
  BY <1>1, <1>2

-----------------------------------------------------------------------------
(***************************************************************************)
(* What holds of every page.                                               *)
(***************************************************************************)

\* The groups that a page may show elsewhere: the one that it drags, and those
\* that it has dropped and the server has not.
Hand(c) == {g \in Group : \/ InHand(drag[c], g)
                          \/ Later(toServer[c], {"drop"}, g, 0)
                          \/ QueuedIn(commands, c, g)}

\* A page asks to join first and is told nothing before.
PageOpens(c) ==
  /\ ~view[c].opened => toServer[c] = <<>> /\ drag[c] = NoDrag /\ c \notin connections
  /\ c \notin connections => toClient[c] = <<>> /\ Parted(view[c].puzzle)
  /\ view[c].opened /\ c \notin connections =>
       toServer[c] # <<>> /\ Head(toServer[c]).type = "join"

\* The moves of a page that is up to date end in a drop, its grabs in a drop
\* or a release, and what it drags is a group of its copy.
PageDrags(c) ==
  /\ upToDate[c] => Ended(toServer[c], drag[c], "move", {"drop"})
  /\ ~silent[c] => Ended(toServer[c], drag[c], "grab", {"drop", "release"})
  /\ drag[c] # NoDrag => drag[c].group \in DOMAIN drag[c].starts
  /\ drag[c] # NoDrag /\ upToDate[c] => KeepsGroup(view[c].puzzle, drag[c])

\* The messages take the copy to the puzzle of the server.
PageAgrees(c) ==
  c \in connections =>
    \E s \in Stage : /\ s.puzzle = Puzzle
                     /\ upToDate[c] => s.sure /\ s.open \subseteq Hand(c)
                     /\ Runs(view[c].puzzle, toClient[c], s)

PageLocks(c) == c \in connections => LocksFollow(view[c].locks, toClient[c], dragLocks)

\* A lock of a player with one page has its end under way.
PageHolds(c) ==
  c \in connections /\ ~silent[c] /\ OnlyPage(c) =>
    \A g \in Group : dragLocks[g] = Owner[c] =>
      \/ InHand(drag[c], g)
      \/ Later(toServer[c], {"drop", "release"}, g, 0)
      \/ QueuedIn(commands, c, g)

PageInv(c) == PageOpens(c) /\ PageDrags(c) /\ PageAgrees(c) /\ PageLocks(c) /\ PageHolds(c)

SyncIInv == RoomInv /\ SyncTypes /\ \A c \in Connection : PageInv(c)

LEMMA RunsParted ==
  ASSUME NEW p \in PuzzleRecord, NEW ms \in Seq(ToClient), NEW s, Runs(p, ms, s)
  PROVE  Parted(p)
<1>1. PICK run \in Seq(Stage) : Len(run) = Len(ms) + 1 /\ Like(p, run[1])
  BY DEF Runs
<1>2. run[1] \in Stage
  BY <1>1
<1> QED
  BY <1>1, <1>2, StageFacts DEF Like, SameParts, Parted

LEMMA PageParted ==
  ASSUME NEW c \in Connection, SyncTypes, PageInv(c)
  PROVE  view[c].puzzle \in PuzzleRecord /\ Parted(view[c].puzzle)
<1>1. view[c].puzzle \in PuzzleRecord /\ toClient[c] \in Seq(ToClient)
  BY DEF SyncTypes, PageRecord
<1> QED
  BY <1>1, RunsParted DEF PageInv, PageOpens, PageAgrees

\* Nothing that the invariant of a page looks at has changed.
LEMMA PageStill ==
  ASSUME NEW c \in Connection, PageInv(c), UNCHANGED <<vars, commands>>,
         toServer'[c] = toServer[c], toClient'[c] = toClient[c], view'[c] = view[c],
         drag'[c] = drag[c], upToDate'[c] = upToDate[c], silent'[c] = silent[c]
  PROVE  PageInv(c)'
<1>1. UNCHANGED <<connections, dragLocks, puzzleVars>>
  BY DEF vars, roomVars
<1>2. PageOpens(c)'
  BY <1>1 DEF PageInv, PageOpens
<1>3. PageDrags(c)'
  BY DEF PageInv, PageDrags
<1>4. Puzzle' = Puzzle
  BY <1>1 DEF Puzzle, puzzleVars
<1>5. Hand(c)' = Hand(c)
  BY DEF Hand
<1>6. PageAgrees(c)'
  BY <1>1, <1>4, <1>5 DEF PageInv, PageAgrees
<1>7. PageLocks(c)'
  BY <1>1 DEF PageInv, PageLocks
<1>8. PageHolds(c)'
  BY <1>1 DEF PageInv, PageHolds, OnlyPage
<1> QED
  BY <1>2, <1>3, <1>6, <1>7, <1>8 DEF PageInv

\* A page says m or nothing.
LEMMA PageSpeaks ==
  ASSUME NEW c \in Connection, SyncTypes, PageInv(c), UNCHANGED <<vars, commands>>,
         NEW m \in ToServer, NEW says \in BOOLEAN,
         toServer'[c] = IF says THEN Append(toServer[c], m) ELSE toServer[c],
         upToDate'[c] =>
           /\ upToDate[c]
           /\ \A g : InHand(drag[c], g) =>
                InHand(drag'[c], g) \/ (says /\ m.type = "drop" /\ m.group = g),
         ~silent'[c] =>
           /\ ~silent[c]
           /\ \A g : InHand(drag[c], g) =>
                InHand(drag'[c], g) \/ (says /\ m.type \in {"drop", "release"} /\ m.group = g),
         says /\ m.type \in {"move", "grab"} => InHand(drag'[c], m.group)
  PROVE  /\ upToDate'[c] => Hand(c) \subseteq Hand(c)'
         /\ upToDate'[c] => Ended(toServer'[c], drag'[c], "move", {"drop"})
         /\ ~silent'[c] => Ended(toServer'[c], drag'[c], "grab", {"drop", "release"})
         /\ PageHolds(c)'
<1>1. UNCHANGED <<connections, dragLocks>>
  BY DEF vars, roomVars
<1>2. toServer[c] \in Seq(ToServer)
  BY DEF SyncTypes
<1>3. \A ends, g : Later(toServer[c], ends, g, 0) => Later(toServer'[c], ends, g, 0)
  BY <1>2, LaterAppend
<1>4. \A ends, g : says /\ m.type \in ends /\ m.group = g => Later(toServer'[c], ends, g, 0)
  <2>1. Len(toServer[c]) \in Nat
    BY <1>2
  <2> QED
    BY <1>2, <2>1, LaterAppend
<1>5. ASSUME upToDate'[c], NEW g \in Group, g \in Hand(c)
      PROVE  g \in Hand(c)'
  <2>1. CASE InHand(drag[c], g)
    <3>1. InHand(drag'[c], g) \/ Later(toServer'[c], {"drop"}, g, 0)
      BY <1>4, <1>5, <2>1
    <3> QED
      BY <3>1 DEF Hand
  <2>2. CASE Later(toServer[c], {"drop"}, g, 0)
    <3>1. Later(toServer'[c], {"drop"}, g, 0)
      BY <1>3, <2>2
    <3> QED
      BY <3>1 DEF Hand
  <2>3. CASE QueuedIn(commands, c, g)
    BY <2>3 DEF Hand
  <2> QED
    BY <1>5, <2>1, <2>2, <2>3 DEF Hand
<1>6. ASSUME upToDate'[c]
      PROVE  Ended(toServer'[c], drag'[c], "move", {"drop"})
  <2>1. Ended(toServer[c], drag[c], "move", {"drop"})
    BY <1>6 DEF PageInv, PageDrags
  <2>2. CASE says
    BY <1>2, <1>6, <2>1, <2>2, EndedAppend
  <2>3. CASE ~says
    BY <1>6, <2>1, <2>3 DEF Ended
  <2> QED
    BY <2>2, <2>3
<1>7. ASSUME ~silent'[c]
      PROVE  Ended(toServer'[c], drag'[c], "grab", {"drop", "release"})
  <2>1. Ended(toServer[c], drag[c], "grab", {"drop", "release"})
    BY <1>7 DEF PageInv, PageDrags
  <2>2. CASE says
    BY <1>2, <1>7, <2>1, <2>2, EndedAppend
  <2>3. CASE ~says
    BY <1>7, <2>1, <2>3 DEF Ended
  <2> QED
    BY <2>2, <2>3
<1>8. PageHolds(c)'
  <2> SUFFICES ASSUME c \in connections, ~silent'[c], OnlyPage(c)', NEW g \in Group,
                      dragLocks[g] = Owner[c]
               PROVE  \/ InHand(drag'[c], g)
                      \/ Later(toServer'[c], {"drop", "release"}, g, 0)
                      \/ QueuedIn(commands, c, g)
    BY <1>1 DEF PageHolds
  <2>1. OnlyPage(c)
    BY <1>1 DEF OnlyPage
  <2>2. \/ InHand(drag[c], g) \/ Later(toServer[c], {"drop", "release"}, g, 0)
        \/ QueuedIn(commands, c, g)
    BY <2>1 DEF PageInv, PageHolds
  <2> QED
    BY <1>3, <1>4, <2>2
<1> QED
  BY <1>5, <1>6, <1>7, <1>8 DEF Hand

\* The copy and the messages to the page are as before.
LEMMA AgreesStill ==
  ASSUME NEW c \in Connection, PageAgrees(c), UNCHANGED <<puzzleVars, connections>>,
         view'[c].puzzle = view[c].puzzle, toClient'[c] = toClient[c],
         upToDate'[c] => upToDate[c] /\ Hand(c) \subseteq Hand(c)'
  PROVE  PageAgrees(c)'
<1>1. Puzzle' = Puzzle
  BY DEF Puzzle, puzzleVars
<1> SUFFICES ASSUME c \in connections
             PROVE  \E s \in Stage : /\ s.puzzle = Puzzle
                                     /\ upToDate'[c] => s.sure /\ s.open \subseteq Hand(c)'
                                     /\ Runs(view[c].puzzle, toClient[c], s)
  BY <1>1 DEF PageAgrees
<1>2. PICK s \in Stage : /\ s.puzzle = Puzzle
                         /\ upToDate[c] => s.sure /\ s.open \subseteq Hand(c)
                         /\ Runs(view[c].puzzle, toClient[c], s)
  BY DEF PageAgrees
<1>3. upToDate'[c] => s.sure /\ s.open \subseteq Hand(c)'
  BY <1>2
<1> QED
  BY <1>2, <1>3

LEMMA OpensStill ==
  ASSUME NEW c \in Connection, SyncTypes, PageOpens(c), UNCHANGED connections,
         view[c].opened, view'[c].opened, NEW m \in ToServer,
         toServer'[c] \in {toServer[c], Append(toServer[c], m)},
         c \notin connections => toClient'[c] = toClient[c] /\ Parted(view'[c].puzzle)
  PROVE  PageOpens(c)'
<1>1. toServer[c] \in Seq(ToServer)
  BY DEF SyncTypes
<1>2. toServer[c] # <<>> => toServer'[c] # <<>> /\ Head(toServer'[c]) = Head(toServer[c])
  BY <1>1, AppendHead
<1> QED
  BY <1>2 DEF PageOpens

-----------------------------------------------------------------------------
(***************************************************************************)
(* The steps of a page.                                                    *)
(***************************************************************************)
LEMMA RoomStill ==
  ASSUME RoomInv, UNCHANGED vars
  PROVE  RoomInv'
BY RoomStep

LEMMA PageTypes ==
  ASSUME SyncTypes, NEW c \in Connection
  PROVE  /\ toServer[c] \in Seq(ToServer) /\ toClient[c] \in Seq(ToClient)
         /\ view[c] \in PageRecord /\ view[c].puzzle \in PuzzleRecord
         /\ view[c].paused \in BOOLEAN /\ view[c].opened \in BOOLEAN
         /\ view[c].locks \in [Group -> Player \cup {NoPlayer}]
         /\ drag[c] \in DragRecord \cup {NoDrag}
         /\ upToDate[c] \in BOOLEAN /\ silent[c] \in BOOLEAN
BY DEF SyncTypes, PageRecord

LEMMA OpenKeeps ==
  ASSUME SyncIInv, NEW c \in Connection, Open(c)
  PROVE  SyncIInv'
<1> DEFINE m == [type |-> "join"]
           opened == [view[c] EXCEPT !.puzzle = Puzzle, !.paused = timer.paused, !.opened = TRUE]
<1>1. /\ RoomInv /\ SyncTypes /\ \A d \in Connection : PageInv(d)
      /\ ~view[c].opened /\ view' = [view EXCEPT ![c] = opened]
      /\ toServer' = [toServer EXCEPT ![c] = Append(@, m)]
      /\ UNCHANGED <<vars, toClient, commands, drag, gestures, upToDate, silent>>
  BY DEF SyncIInv, Open, Request, serverUnchanged, historyVars
<1>2. RoomInv'
  BY <1>1, RoomStill
<1>3. m \in ToServer
  BY DEF ToServer
<1>4. /\ opened \in PageRecord /\ opened.puzzle = Puzzle /\ opened.opened
      /\ opened.locks = view[c].locks
  <2>1. Puzzle \in PuzzleRecord /\ timer.paused \in BOOLEAN
    BY <1>1, ServerPuzzle DEF RoomInv, TypeOK, Timer
  <2> QED
    BY <1>1, <2>1, PageTypes DEF PageRecord
<1> HIDE DEF m, opened
<1>5. /\ view'[c] = opened /\ toServer'[c] = Append(toServer[c], m)
      /\ \A d \in Connection : d # c => view'[d] = view[d] /\ toServer'[d] = toServer[d]
  BY <1>1 DEF SyncTypes
<1>6. SyncTypes'
  <2>1. view' \in [Connection -> PageRecord]
    BY <1>1, <1>4 DEF SyncTypes
  <2>2. toServer' \in [Connection -> Seq(ToServer)]
    BY <1>1, <1>3 DEF SyncTypes
  <2> QED
    BY <1>1, <2>1, <2>2 DEF SyncTypes, vars, roomVars
<1>7. ASSUME NEW d \in Connection, d # c
      PROVE  PageInv(d)'
  BY <1>1, <1>5, <1>7, PageStill
<1>8. PageInv(c)'
  <2>0. PageInv(c) /\ c \notin connections /\ toServer[c] = <<>> /\ UNCHANGED connections
    BY <1>1 DEF PageInv, PageOpens, vars, roomVars
  <2>1. /\ upToDate'[c] => Ended(toServer'[c], drag'[c], "move", {"drop"})
        /\ ~silent'[c] => Ended(toServer'[c], drag'[c], "grab", {"drop", "release"})
        /\ PageHolds(c)'
    <3>1. m.type = "join"
      BY DEF m
    <3>2. toServer'[c] = IF TRUE THEN Append(toServer[c], m) ELSE toServer[c]
      BY <1>5
    <3> QED
      BY <1>1, <1>3, <2>0, <3>1, <3>2, PageSpeaks
  <2>2. drag[c] = NoDrag
    BY <1>1, <2>0 DEF PageInv, PageOpens
  <2>3. PageOpens(c)'
    <3>1. Parted(Puzzle)
      BY <1>1, ServerPuzzle DEF RoomInv
    <3>2. toServer'[c] = <<m>> /\ Head(<<m>>) = m /\ <<m>> # <<>>
      BY <1>5, <2>0
    <3>3. m.type = "join"
      BY DEF m
    <3> QED
      BY <1>1, <1>4, <1>5, <2>0, <3>1, <3>2, <3>3 DEF PageInv, PageOpens
  <2>4. PageDrags(c)'
    BY <1>1, <2>1, <2>2 DEF PageDrags
  <2>5. PageAgrees(c)' /\ PageLocks(c)'
    BY <2>0 DEF PageAgrees, PageLocks
  <2> QED
    BY <2>1, <2>3, <2>4, <2>5 DEF PageInv
<1> QED
  BY <1>2, <1>6, <1>7, <1>8 DEF SyncIInv

LEMMA StartDragKeeps ==
  ASSUME SyncIInv, NEW c \in Connection, NEW x \in Piece, StartDrag(c, x)
  PROVE  SyncIInv'
<1> DEFINE p == view[c].puzzle
           g == p.groupOf[x]
           d0 == [group |-> g, starts |-> [y \in p.pieceIds[g] |-> p.offset[y]]]
           m == [type |-> "grab", group |-> g]
<1>1. /\ RoomInv /\ SyncTypes /\ \A d \in Connection : PageInv(d)
      /\ view[c].opened /\ drag[c] = NoDrag /\ gestures < MaxGestures /\ gestures' = gestures + 1
      /\ p.pieceIds[g] # {} /\ drag' = [drag EXCEPT ![c] = d0]
      /\ toServer' = [toServer EXCEPT ![c] = Append(@, m)]
      /\ UNCHANGED <<vars, toClient, commands, view, upToDate, silent>>
  BY DEF SyncIInv, StartDrag, Gesture, Request, serverUnchanged, historyVars
<1>2. RoomInv'
  BY <1>1, RoomStill
<1>3. /\ p \in PuzzleRecord /\ Parted(p) /\ g \in Group /\ g \in p.pieceIds[g]
      /\ p.pieceIds[g] \subseteq Piece /\ \A y \in Piece : p.offset[y] \in Int
  <2>1. p \in PuzzleRecord /\ Parted(p)
    BY <1>1, PageParted
  <2>2. g \in Piece
    BY <2>1 DEF PuzzleRecord, Group
  <2>3. p.groupOf[g] = g
    BY <2>1 DEF Parted
  <2>4. g \in p.pieceIds[g]
    BY <2>1, <2>2, <2>3 DEF Parted, Group
  <2> QED
    BY <2>1, <2>2, <2>4 DEF PuzzleRecord, Group
<1> HIDE DEF p, g
<1>4. /\ m \in ToServer /\ m.type = "grab" /\ m.group = g
  BY <1>3 DEF ToServer
<1>5. /\ d0 \in DragRecord /\ d0 # NoDrag /\ d0.group = g /\ DOMAIN d0.starts = p.pieceIds[g]
      /\ \A y \in p.pieceIds[g] : d0.starts[y] = p.offset[y]
  <2>1. [y \in p.pieceIds[g] |-> p.offset[y]] \in [p.pieceIds[g] -> Int]
    BY <1>3
  <2>2. [y \in p.pieceIds[g] |-> p.offset[y]] \in Starts
    BY <1>3, <2>1 DEF Starts
  <2>3. DOMAIN d0 = {"group", "starts"} /\ DOMAIN NoDrag = {"group"}
    BY DEF NoDrag
  <2>4. d0 # NoDrag
    BY <2>3
  <2> QED
    BY <1>3, <2>2, <2>4 DEF DragRecord
<1> HIDE DEF m, d0
<1>6. /\ drag'[c] = d0 /\ toServer'[c] = Append(toServer[c], m)
      /\ \A d \in Connection : d # c => drag'[d] = drag[d] /\ toServer'[d] = toServer[d]
  BY <1>1 DEF SyncTypes
<1>7. SyncTypes'
  <2>1. drag' \in [Connection -> DragRecord \cup {NoDrag}]
    BY <1>1, <1>5 DEF SyncTypes
  <2>2. toServer' \in [Connection -> Seq(ToServer)]
    BY <1>1, <1>4 DEF SyncTypes
  <2>3. gestures' \in 0 .. MaxGestures
    BY <1>1, GesturesAssumption DEF SyncTypes
  <2> QED
    BY <1>1, <2>1, <2>2, <2>3 DEF SyncTypes, vars, roomVars
<1>8. ASSUME NEW d \in Connection, d # c
      PROVE  PageInv(d)'
  BY <1>1, <1>6, <1>8, PageStill
<1>9. PageInv(c)'
  <2>0. PageInv(c) /\ UNCHANGED <<connections, puzzleVars, dragLocks>>
    BY <1>1 DEF vars, roomVars
  <2>1. /\ upToDate'[c] => Hand(c) \subseteq Hand(c)'
        /\ upToDate'[c] => Ended(toServer'[c], drag'[c], "move", {"drop"})
        /\ ~silent'[c] => Ended(toServer'[c], drag'[c], "grab", {"drop", "release"})
        /\ PageHolds(c)'
    <3>1. toServer'[c] = IF TRUE THEN Append(toServer[c], m) ELSE toServer[c]
      BY <1>6
    <3>2. \A k : ~InHand(drag[c], k)
      BY <1>1 DEF InHand
    <3>3. InHand(drag'[c], m.group)
      BY <1>4, <1>5, <1>6 DEF InHand
    <3> QED
      BY <1>1, <1>4, <2>0, <3>1, <3>2, <3>3, PageSpeaks
  <2>2. PageOpens(c)'
    <3>1. view'[c] = view[c] /\ PageOpens(c)
      BY <1>1, <2>0 DEF PageInv
    <3> QED
      BY <1>1, <1>4, <1>6, <2>0, <3>1, OpensStill DEF PageOpens
  <2>3. KeepsGroup(p, d0)
    BY <1>3, <1>5 DEF KeepsGroup
  <2>4. PageDrags(c)'
    BY <1>1, <1>3, <1>5, <1>6, <2>1, <2>3 DEF PageDrags, p
  <2>5. PageAgrees(c)'
    BY <1>1, <2>0, <2>1, AgreesStill DEF PageInv
  <2>6. PageLocks(c)'
    BY <1>1, <2>0 DEF PageInv, PageLocks
  <2> QED
    BY <2>1, <2>2, <2>4, <2>5, <2>6 DEF PageInv
<1> QED
  BY <1>2, <1>7, <1>8, <1>9 DEF SyncIInv

\* The pieces in hand are placed relative to where they were taken up.
LEMMA DraggedFields ==
  ASSUME NEW p \in PuzzleRecord, NEW d \in DragRecord, d.group \in DOMAIN d.starts, NEW t \in Int
  PROVE  LET q == Dragged(p, d, t)
         IN  /\ q \in PuzzleRecord /\ SameParts(q, p)
             /\ DOMAIN d.starts \subseteq Piece
             /\ \A x \in DOMAIN d.starts : d.starts[x] \in Int
             /\ \A x \in Piece : q.offset[x] = IF x \in DOMAIN d.starts
                                               THEN d.starts[x] + t - d.starts[d.group]
                                               ELSE p.offset[x]
             /\ q.placed = p.placed \ DOMAIN d.starts
<1> DEFINE S == DOMAIN d.starts
           moved == [x \in Piece |-> IF x \in S THEN d.starts[x] + t - d.starts[d.group]
                                     ELSE p.offset[x]]
           q == [p EXCEPT !.offset = moved, !.placed = p.placed \ S]
<1>1. S \subseteq Piece /\ \A x \in S : d.starts[x] \in Int
  <2>1. PICK T \in SUBSET Piece : d.starts \in [T -> Int]
    BY DEF DragRecord, Starts
  <2> QED
    BY <2>1
<1>2. Dragged(p, d, t) = q
  BY DEF Dragged
<1> HIDE DEF S
<1>3. d.group \in S
  BY DEF S
<1>4. moved \in [Piece -> Int]
  BY <1>1, <1>3 DEF PuzzleRecord
<1>5. \A x \in Piece : moved[x] = IF x \in S THEN d.starts[x] + t - d.starts[d.group]
                                 ELSE p.offset[x]
  OBVIOUS
<1> HIDE DEF moved
<1>6. /\ q \in PuzzleRecord /\ SameParts(q, p)
      /\ q.offset = moved /\ q.placed = p.placed \ S
  BY <1>4 DEF PuzzleRecord, SameParts
<1> HIDE DEF q
<1> QED
  BY <1>1, <1>2, <1>5, <1>6 DEF S

\* A group that is kept together is moved as a whole.
LEMMA DraggedWhole ==
  ASSUME NEW p \in PuzzleRecord, Parted(p), NEW d \in DragRecord, d.group \in DOMAIN d.starts,
         NEW t \in Int, KeepsGroup(p, d), NEW Y \in SUBSET Group, Y = {d.group}
  PROVE  KeepsGroup(Dragged(p, d, t), d) /\ MovesOnly(p, Dragged(p, d, t), Y)
<1> DEFINE q == Dragged(p, d, t)  S == DOMAIN d.starts  g == d.group
<1>1. /\ q \in PuzzleRecord /\ SameParts(q, p) /\ S \subseteq Piece /\ g \in S
      /\ \A x \in S : d.starts[x] \in Int
      /\ \A x \in Piece : q.offset[x] = IF x \in S THEN d.starts[x] + t - d.starts[g]
                                        ELSE p.offset[x]
      /\ q.placed = p.placed \ S
  BY DraggedFields
<1>2. /\ p.pieceIds[g] = S /\ q.pieceIds = p.pieceIds /\ q.groupOf = p.groupOf
      /\ \A x \in S : p.offset[x] - p.offset[g] = d.starts[x] - d.starts[g]
      /\ \A x \in Piece : p.offset[x] \in Int
  BY <1>1 DEF KeepsGroup, SameParts, PuzzleRecord
<1>3. \A x \in Piece : x \in S <=> p.groupOf[x] = g
  BY <1>1, <1>2 DEF Parted, Group
<1>4. \A x \in Piece : p.groupOf[x] \in Piece /\ p.groupOf[p.groupOf[x]] = p.groupOf[x]
  BY DEF Parted, PuzzleRecord, Group
<1> HIDE DEF q, S, g
<1>5. \A x \in S : q.offset[x] - q.offset[g] = d.starts[x] - d.starts[g]
  <2>1. d.starts[g] \in Int
    BY <1>1
  <2>2. q.offset[g] = d.starts[g] + t - d.starts[g]
    BY <1>1
  <2>3. \A x \in S : q.offset[x] = d.starts[x] + t - d.starts[g] /\ d.starts[x] \in Int
    BY <1>1
  <2> QED
    BY <2>1, <2>2, <2>3
<1>6. ASSUME Whole(p)
      PROVE  Whole(q)
  <2>1. \A x \in S : q.offset[x] = q.offset[g]
    <3> SUFFICES ASSUME NEW x \in S
                 PROVE  q.offset[x] = q.offset[g]
      OBVIOUS
    <3>1. p.offset[x] = p.offset[g] /\ p.offset[g] \in Int
      BY <1>1, <1>2, <1>3, <1>6 DEF Whole
    <3>2. d.starts[x] \in Int /\ d.starts[g] \in Int
      BY <1>1
    <3>3. d.starts[x] = d.starts[g]
      BY <1>2, <3>1, <3>2
    <3> QED
      BY <1>1, <3>3
  <2> SUFFICES ASSUME NEW x \in Piece
               PROVE  q.offset[x] = q.offset[p.groupOf[x]]
    BY <1>2 DEF Whole
  <2>2. CASE x \in S
    BY <1>3, <2>1, <2>2
  <2>3. CASE x \notin S
    <3>1. p.groupOf[x] \in Piece /\ p.groupOf[x] \notin S
      BY <1>3, <1>4, <2>3
    <3> QED
      BY <1>1, <1>6, <2>3, <3>1 DEF Whole
  <2> QED
    BY <2>2, <2>3
<1>7. \A x \in Piece : p.groupOf[x] \notin Y =>
        q.offset[x] = p.offset[x] /\ (x \in q.placed <=> x \in p.placed)
  BY <1>1, <1>3 DEF g
<1>8. KeepsGroup(q, d)
  BY <1>2, <1>5 DEF KeepsGroup, S, g
<1>9. MovesOnly(p, q, Y)
  BY <1>1, <1>6, <1>7 DEF MovesOnly
<1> QED
  BY <1>8, <1>9 DEF q

LEMMA MoveDragKeeps ==
  ASSUME SyncIInv, NEW c \in Connection, NEW t \in Offset, MoveDrag(c, t)
  PROVE  SyncIInv'
<1> DEFINE g == drag[c].group
           p == view[c].puzzle
           q == Dragged(p, drag[c], t)
           m == [type |-> "move", group |-> g, to |-> q.offset[g]]
<1>1. /\ RoomInv /\ SyncTypes /\ \A d \in Connection : PageInv(d)
      /\ drag[c] # NoDrag /\ gestures < MaxGestures /\ gestures' = gestures + 1
      /\ view' = [view EXCEPT ![c].puzzle = q]
      /\ \/ UNCHANGED toServer
         \/ toServer' = [toServer EXCEPT ![c] = Append(@, m)]
      /\ UNCHANGED <<vars, toClient, commands, drag, upToDate, silent>>
  BY DEF SyncIInv, MoveDrag, Gesture, Request, serverUnchanged, historyVars
<1>2. RoomInv'
  BY <1>1, RoomStill
<1>3. /\ PageInv(c) /\ UNCHANGED <<connections, puzzleVars, dragLocks>>
      /\ view[c].opened /\ drag[c] \in DragRecord /\ g \in Group /\ g \in DOMAIN drag[c].starts
      /\ p \in PuzzleRecord /\ Parted(p) /\ t \in Int
  <2>1. PageInv(c) /\ UNCHANGED <<connections, puzzleVars, dragLocks>>
    BY <1>1 DEF vars, roomVars
  <2>2. view[c].opened /\ g \in DOMAIN drag[c].starts
    BY <1>1, <2>1 DEF PageInv, PageOpens, PageDrags
  <2>3. drag[c] \in DragRecord
    BY <1>1 DEF SyncTypes
  <2>4. g \in Group
    BY <2>3 DEF DragRecord
  <2> QED
    BY <1>1, <2>1, <2>2, <2>3, <2>4, PageParted, OffsetAssumption
<1>4. q \in PuzzleRecord /\ SameParts(q, p)
  BY <1>3, DraggedFields
<1>5. Parted(q)
  BY <1>3, <1>4 DEF SameParts, Parted
<1> HIDE DEF p, q, g
<1>6. m \in ToServer /\ m.type = "move" /\ m.group = g
  BY <1>3, <1>4 DEF ToServer, PuzzleRecord, Group
<1> HIDE DEF m
<1>7. /\ view'[c] = [view[c] EXCEPT !.puzzle = q]
      /\ \A d \in Connection : d # c => view'[d] = view[d] /\ toServer'[d] = toServer[d]
  BY <1>1 DEF SyncTypes
<1>8. PICK says \in BOOLEAN :
        toServer'[c] = IF says THEN Append(toServer[c], m) ELSE toServer[c]
  <2>1. toServer'[c] = toServer[c] \/ toServer'[c] = Append(toServer[c], m)
    BY <1>1 DEF SyncTypes
  <2> QED
    BY <2>1
<1>9. /\ view'[c] \in PageRecord /\ view'[c].puzzle = q /\ view'[c].opened
      /\ view'[c].locks = view[c].locks
  BY <1>1, <1>3, <1>4, <1>7, PageTypes DEF PageRecord
<1>10. SyncTypes'
  <2>1. view' \in [Connection -> PageRecord]
    <3>1. view' = [view EXCEPT ![c] = view'[c]]
      BY <1>1, <1>7 DEF SyncTypes
    <3> QED
      BY <1>1, <1>9, <3>1 DEF SyncTypes
  <2>2. toServer' \in [Connection -> Seq(ToServer)]
    <3>1. toServer[c] \in Seq(ToServer) /\ Append(toServer[c], m) \in Seq(ToServer)
      BY <1>1, <1>6 DEF SyncTypes
    <3>2. CASE UNCHANGED toServer
      BY <1>1, <3>2 DEF SyncTypes
    <3>3. CASE toServer' = [toServer EXCEPT ![c] = Append(@, m)]
      BY <1>1, <3>1, <3>3 DEF SyncTypes
    <3> QED
      BY <1>1, <3>2, <3>3
  <2>3. gestures' \in 0 .. MaxGestures
    BY <1>1, GesturesAssumption DEF SyncTypes
  <2> QED
    BY <1>1, <2>1, <2>2, <2>3 DEF SyncTypes, vars, roomVars
<1>11. ASSUME NEW d \in Connection, d # c
       PROVE  PageInv(d)'
  BY <1>1, <1>7, <1>11, PageStill
<1>12. PageInv(c)'
  <2>1. InHand(drag'[c], m.group)
    BY <1>1, <1>6 DEF InHand, g
  <2>2. /\ upToDate'[c] => Hand(c) \subseteq Hand(c)'
        /\ upToDate'[c] => Ended(toServer'[c], drag'[c], "move", {"drop"})
        /\ ~silent'[c] => Ended(toServer'[c], drag'[c], "grab", {"drop", "release"})
        /\ PageHolds(c)'
    BY <1>1, <1>3, <1>6, <1>8, <2>1, PageSpeaks
  <2>3. PageOpens(c)'
    <3>1. PageOpens(c) /\ toServer'[c] \in {toServer[c], Append(toServer[c], m)}
      BY <1>3, <1>8 DEF PageInv
    <3> QED
      BY <1>1, <1>3, <1>5, <1>6, <1>9, <3>1, OpensStill
  <2>4. PICK Y \in SUBSET Group : Y = {g}
    BY <1>3
  <2>5. upToDate[c] => KeepsGroup(q, drag[c]) /\ MovesOnly(p, q, Y)
    BY <1>1, <1>3, <2>4, DraggedWhole DEF PageInv, PageDrags, p, q, g
  <2>6. PageDrags(c)'
    BY <1>1, <1>3, <1>9, <2>2, <2>5 DEF PageInv, PageDrags
  <2>7. PageAgrees(c)'
    <3> SUFFICES ASSUME c \in connections
                 PROVE  \E s \in Stage : /\ s.puzzle = Puzzle
                                         /\ upToDate[c] => s.sure /\ s.open \subseteq Hand(c)'
                                         /\ Runs(q, toClient[c], s)
      <4>1. Puzzle' = Puzzle
        BY <1>3 DEF Puzzle, puzzleVars
      <4> QED
        BY <1>1, <1>3, <1>9, <4>1 DEF PageAgrees
    <3>1. PICK s \in Stage : /\ s.puzzle = Puzzle
                             /\ upToDate[c] => s.sure /\ s.open \subseteq Hand(c)
                             /\ Runs(p, toClient[c], s)
      BY <1>3 DEF PageInv, PageAgrees, p
    <3>2. toClient[c] \in Seq(ToClient)
      BY <1>1 DEF SyncTypes
    <3>3. CASE upToDate[c]
      <4>1. Runs(q, toClient[c], Opened(s, Y))
        BY <1>3, <1>4, <2>4, <2>5, <3>1, <3>2, <3>3, RunsLocal
      <4>2. g \in Hand(c)'
        BY <1>1, <1>3, <1>6, <2>1 DEF Hand
      <4>3. /\ Opened(s, Y) \in Stage /\ Opened(s, Y).puzzle = Puzzle /\ Opened(s, Y).sure
            /\ Opened(s, Y).open \subseteq Hand(c)'
        BY <1>1, <2>2, <2>4, <3>1, <3>3, <4>2, OpenedFacts
      <4> QED
        BY <4>1, <4>3
    <3>4. CASE ~upToDate[c]
      <4>1. Runs(q, toClient[c], Unsure(s))
        BY <1>3, <1>4, <3>1, <3>2, RunsUnsure
      <4>2. Unsure(s) \in Stage /\ Unsure(s).puzzle = Puzzle
        BY <3>1 DEF Unsure, Stage
      <4> QED
        BY <3>4, <4>1, <4>2
    <3> QED
      BY <3>3, <3>4
  <2>8. PageLocks(c)'
    BY <1>1, <1>3, <1>9 DEF PageInv, PageLocks
  <2> QED
    BY <2>2, <2>3, <2>6, <2>7, <2>8 DEF PageInv
<1> QED
  BY <1>2, <1>10, <1>11, <1>12 DEF SyncIInv

LEMMA CancelDragKeeps ==
  ASSUME SyncIInv, NEW c \in Connection, CancelDrag(c)
  PROVE  SyncIInv'
<1>1. /\ RoomInv /\ SyncTypes /\ \A d \in Connection : PageInv(d)
      /\ drag[c] # NoDrag /\ drag' = [drag EXCEPT ![c] = NoDrag]
      /\ upToDate' = [upToDate EXCEPT ![c] = @ /\ drag[c] = NoDrag]
      /\ silent' = [silent EXCEPT ![c] = @ \/ drag[c] # NoDrag]
      /\ UNCHANGED <<vars, toServer, toClient, commands, view, gestures>>
  BY DEF SyncIInv, CancelDrag, EndsQuietly, serverUnchanged
<1>2. RoomInv'
  BY <1>1, RoomStill
<1>3. /\ drag'[c] = NoDrag /\ ~upToDate'[c] /\ silent'[c]
      /\ \A d \in Connection : d # c => /\ drag'[d] = drag[d] /\ upToDate'[d] = upToDate[d]
                                        /\ silent'[d] = silent[d]
  BY <1>1 DEF SyncTypes
<1>4. SyncTypes'
  BY <1>1 DEF SyncTypes, vars, roomVars
<1>5. ASSUME NEW d \in Connection, d # c
      PROVE  PageInv(d)'
  BY <1>1, <1>3, <1>5, PageStill
<1>6. PageInv(c)'
  <2>1. PageInv(c) /\ UNCHANGED <<connections, puzzleVars, dragLocks>>
    BY <1>1 DEF vars, roomVars
  <2>2. PageOpens(c)' /\ PageDrags(c)' /\ PageLocks(c)'
    BY <1>1, <1>3, <2>1 DEF PageInv, PageOpens, PageDrags, PageLocks
  <2>3. PageAgrees(c)'
    BY <1>1, <1>3, <2>1, AgreesStill DEF PageInv
  <2>4. PageHolds(c)'
    BY <1>3 DEF PageHolds
  <2> QED
    BY <2>2, <2>3, <2>4 DEF PageInv
<1> QED
  BY <1>2, <1>4, <1>5, <1>6 DEF SyncIInv

LEMMA EndDragKeeps ==
  ASSUME SyncIInv, NEW c \in Connection, EndDrag(c)
  PROVE  SyncIInv'
<1> DEFINE g == drag[c].group
           p == view[c].puzzle
           gone == p.pieceIds[g] = {}
           m == IF gone THEN [type |-> "release", group |-> g]
                ELSE [type |-> "drop", group |-> g, to |-> p.offset[g]]
<1>1. /\ RoomInv /\ SyncTypes /\ \A d \in Connection : PageInv(d)
      /\ drag[c] # NoDrag /\ drag' = [drag EXCEPT ![c] = NoDrag]
      /\ toServer' = [toServer EXCEPT ![c] = Append(@, m)]
      /\ upToDate' = [upToDate EXCEPT ![c] = @ /\ ~gone]
      /\ UNCHANGED <<vars, toClient, commands, view, gestures, silent>>
  BY DEF SyncIInv, EndDrag, Request, serverUnchanged
<1>2. RoomInv'
  BY <1>1, RoomStill
<1>3. /\ PageInv(c) /\ UNCHANGED <<connections, puzzleVars, dragLocks>>
      /\ view[c].opened /\ g \in Group /\ p \in PuzzleRecord /\ Parted(p)
  <2>1. PageInv(c) /\ UNCHANGED <<connections, puzzleVars, dragLocks>>
    BY <1>1 DEF vars, roomVars
  <2>2. view[c].opened
    BY <1>1, <2>1 DEF PageInv, PageOpens
  <2>3. g \in Group
    BY <1>1 DEF SyncTypes, DragRecord
  <2> QED
    BY <1>1, <2>1, <2>2, <2>3, PageParted
<1>4. /\ m \in ToServer /\ m.group = g /\ m.type \in {"drop", "release"}
      /\ ~gone => m.type = "drop"
  BY <1>3 DEF ToServer, PuzzleRecord, Group
<1>4a. gone \in BOOLEAN
  OBVIOUS
<1> HIDE DEF m, gone
<1>5. /\ drag'[c] = NoDrag /\ toServer'[c] = Append(toServer[c], m)
      /\ upToDate'[c] => upToDate[c] /\ ~gone
      /\ \A d \in Connection : d # c => /\ drag'[d] = drag[d] /\ toServer'[d] = toServer[d]
                                        /\ upToDate'[d] = upToDate[d]
  BY <1>1, <1>4a DEF SyncTypes
<1>6. SyncTypes'
  <2>1. drag' \in [Connection -> DragRecord \cup {NoDrag}]
    BY <1>1 DEF SyncTypes
  <2>2. toServer' \in [Connection -> Seq(ToServer)]
    BY <1>1, <1>4 DEF SyncTypes
  <2>3. upToDate' \in [Connection -> BOOLEAN]
    BY <1>1, <1>4a DEF SyncTypes
  <2> QED
    BY <1>1, <2>1, <2>2, <2>3 DEF SyncTypes, vars, roomVars
<1>7. ASSUME NEW d \in Connection, d # c
      PROVE  PageInv(d)'
  BY <1>1, <1>5, <1>7, PageStill
<1>8. PageInv(c)'
  <2>1. /\ upToDate'[c] => Hand(c) \subseteq Hand(c)'
        /\ upToDate'[c] => Ended(toServer'[c], drag'[c], "move", {"drop"})
        /\ ~silent'[c] => Ended(toServer'[c], drag'[c], "grab", {"drop", "release"})
        /\ PageHolds(c)'
    <3>1. toServer'[c] = IF TRUE THEN Append(toServer[c], m) ELSE toServer[c]
      BY <1>5
    <3>2. \A k : InHand(drag[c], k) => m.group = k
      BY <1>4 DEF InHand
    <3>3. m.type \notin {"move", "grab"}
      BY <1>4
    <3> QED
      BY <1>1, <1>3, <1>4, <1>5, <3>1, <3>2, <3>3, PageSpeaks
  <2>2. PageOpens(c)'
    <3>1. view'[c] = view[c] /\ PageOpens(c)
      BY <1>1, <1>3 DEF PageInv
    <3> QED
      BY <1>1, <1>3, <1>4, <1>5, <3>1, OpensStill DEF PageOpens
  <2>3. PageDrags(c)'
    BY <1>5, <2>1 DEF PageDrags
  <2>4. PageAgrees(c)'
    BY <1>1, <1>3, <1>5, <2>1, AgreesStill DEF PageInv
  <2>5. PageLocks(c)'
    BY <1>1, <1>3 DEF PageInv, PageLocks
  <2> QED
    BY <2>1, <2>2, <2>3, <2>4, <2>5 DEF PageInv
<1> QED
  BY <1>2, <1>6, <1>7, <1>8 DEF SyncIInv

LEMMA ClickKeeps ==
  ASSUME SyncIInv, NEW c \in Connection, NEW type \in {"arrange", "pause", "resume"},
         Click(c, type)
  PROVE  SyncIInv'
<1> DEFINE m == [type |-> type]
<1>1. /\ RoomInv /\ SyncTypes /\ \A d \in Connection : PageInv(d)
      /\ view[c].opened /\ gestures < MaxGestures /\ gestures' = gestures + 1
      /\ toServer' = [toServer EXCEPT ![c] = Append(@, m)]
      /\ UNCHANGED <<vars, toClient, commands, drag, view, upToDate, silent>>
  BY DEF SyncIInv, Click, Gesture, Request, serverUnchanged, historyVars
<1>2. RoomInv'
  BY <1>1, RoomStill
<1>3. PageInv(c) /\ UNCHANGED <<connections, puzzleVars, dragLocks>>
  BY <1>1 DEF vars, roomVars
<1>4. m \in ToServer /\ m.type \notin {"grab", "move", "drop", "release"}
  BY DEF ToServer
<1> HIDE DEF m
<1>5. /\ toServer'[c] = Append(toServer[c], m)
      /\ \A d \in Connection : d # c => toServer'[d] = toServer[d]
  BY <1>1 DEF SyncTypes
<1>6. SyncTypes'
  <2>1. toServer' \in [Connection -> Seq(ToServer)]
    BY <1>1, <1>4 DEF SyncTypes
  <2>2. gestures' \in 0 .. MaxGestures
    BY <1>1, GesturesAssumption DEF SyncTypes
  <2> QED
    BY <1>1, <2>1, <2>2 DEF SyncTypes, vars, roomVars
<1>7. ASSUME NEW d \in Connection, d # c
      PROVE  PageInv(d)'
  BY <1>1, <1>5, <1>7, PageStill
<1>8. PageInv(c)'
  <2>1. /\ upToDate'[c] => Hand(c) \subseteq Hand(c)'
        /\ upToDate'[c] => Ended(toServer'[c], drag'[c], "move", {"drop"})
        /\ ~silent'[c] => Ended(toServer'[c], drag'[c], "grab", {"drop", "release"})
        /\ PageHolds(c)'
    <3>1. toServer'[c] = IF TRUE THEN Append(toServer[c], m) ELSE toServer[c]
      BY <1>5
    <3> QED
      BY <1>1, <1>3, <1>4, <3>1, PageSpeaks
  <2>2. PageOpens(c)'
    <3>1. view'[c] = view[c] /\ PageOpens(c)
      BY <1>1, <1>3 DEF PageInv
    <3> QED
      BY <1>1, <1>3, <1>4, <1>5, <3>1, OpensStill DEF PageOpens
  <2>3. PageDrags(c)'
    BY <1>1, <1>3, <2>1 DEF PageInv, PageDrags
  <2>4. PageAgrees(c)'
    BY <1>1, <1>3, <2>1, AgreesStill DEF PageInv
  <2>5. PageLocks(c)'
    BY <1>1, <1>3 DEF PageInv, PageLocks
  <2> QED
    BY <2>1, <2>2, <2>3, <2>4, <2>5 DEF PageInv
<1> QED
  BY <1>2, <1>6, <1>7, <1>8 DEF SyncIInv

\* What a page makes of a message.
LEMMA MessageFields ==
  ASSUME NEW m \in ToClient
  PROVE  /\ m.type \in {"state", "locked", "unlocked", "moved", "patch", "arranged", "paused",
                        "resumed", "error"}
         /\ m.type \in {"state", "patch", "arranged"} => m.puzzle \in PuzzleRecord
         /\ m.type \in {"state", "error"} => m.paused \in BOOLEAN
         /\ m.type \in {"locked", "moved"} => m.group \in Group
         /\ m.type = "locked" => m.player \in Player
         /\ m.type = "moved" => m.to \in Int
         /\ m.type \in {"patch", "arranged"} => m.pieces \in SUBSET Piece
         /\ m.type = "patch" => m.removed \in SUBSET Group
BY DEF ToClient

LEMMA ToldType ==
  ASSUME NEW p \in PuzzleRecord, NEW m \in ToClient
  PROVE  Told(p, m) \in PuzzleRecord
<1>1. CASE m.type = "state"
  BY <1>1, MessageFields DEF Told
<1>2. CASE m.type = "moved"
  BY <1>2, MessageFields, ViewMovedFields DEF Told
<1>3. CASE m.type = "patch"
  <2>1. /\ m.puzzle \in PuzzleRecord /\ m.pieces \in SUBSET Piece /\ m.removed \in SUBSET Group
    BY <1>3, MessageFields
  <2>2a. m.puzzle.groupOf \in [Piece -> Group]
    BY <2>1 DEF PuzzleRecord
  <2>2b. {m.puzzle.groupOf[x] : x \in m.pieces} \in SUBSET Group
    BY <2>1, <2>2a
  <2>2. PICK G \in SUBSET Group : G = {m.puzzle.groupOf[x] : x \in m.pieces}
    BY <2>2b
  <2>3. PatchOf(Patched(p, m), p, m, G)
    BY <2>1, <2>2, PatchedFields
  <2> QED
    BY <1>3, <2>3 DEF PatchOf, Told
<1>4. CASE m.type = "arranged"
  BY <1>4, MessageFields, OverwrittenFields DEF Told
<1>5. CASE m.type \notin {"state", "moved", "patch", "arranged"}
  BY <1>5 DEF Told
<1> QED
  BY <1>1, <1>2, <1>3, <1>4, <1>5

\* The page v after message m, as Receive has it.
Heard(v, m) ==
  CASE m.type = "state" -> [v EXCEPT !.puzzle = m.puzzle, !.paused = m.paused,
                                     !.locks = [g \in Group |-> NoPlayer]]
    [] m.type = "locked" -> [v EXCEPT !.locks[m.group] = m.player]
    [] m.type = "unlocked" ->
         [v EXCEPT !.locks = [g \in Group |-> IF g \in m.groups THEN NoPlayer ELSE @[g]]]
    [] m.type = "moved" -> [v EXCEPT !.puzzle = ViewMoved(@, m.group, m.to)]
    [] m.type = "patch" -> [v EXCEPT !.puzzle = Patched(@, m)]
    [] m.type = "arranged" -> [v EXCEPT !.puzzle = Overwritten(@, m.puzzle, m.pieces)]
    [] m.type = "paused" -> [v EXCEPT !.paused = TRUE]
    [] m.type = "resumed" -> [v EXCEPT !.paused = FALSE]
    [] m.type = "error" -> v

LEMMA HeardFields ==
  ASSUME NEW v \in PageRecord, NEW m \in ToClient
  PROVE  /\ Heard(v, m) \in PageRecord /\ Heard(v, m).opened = v.opened
         /\ Heard(v, m).puzzle = Told(v.puzzle, m)
         /\ Heard(v, m).locks = ToldLocks(v.locks, m)
<1>1. /\ v.puzzle \in PuzzleRecord /\ v.paused \in BOOLEAN /\ v.opened \in BOOLEAN
      /\ v.locks \in [Group -> Player \cup {NoPlayer}]
      /\ Told(v.puzzle, m) \in PuzzleRecord
  BY ToldType DEF PageRecord
<1>2. ASSUME NEW q \in PuzzleRecord
      PROVE  LET w == [v EXCEPT !.puzzle = q]
             IN  w \in PageRecord /\ w.opened = v.opened /\ w.puzzle = q /\ w.locks = v.locks
  BY DEF PageRecord
<1>3. ASSUME NEW b \in BOOLEAN
      PROVE  LET w == [v EXCEPT !.paused = b]
             IN  /\ w \in PageRecord /\ w.opened = v.opened /\ w.puzzle = v.puzzle
                 /\ w.locks = v.locks
  BY DEF PageRecord
<1>4. ASSUME NEW l \in [Group -> Player \cup {NoPlayer}]
      PROVE  LET w == [v EXCEPT !.locks = l]
             IN  /\ w \in PageRecord /\ w.opened = v.opened /\ w.puzzle = v.puzzle
                 /\ w.locks = l
  BY DEF PageRecord
<1>5. CASE m.type = "state"
  <2>1. m.puzzle \in PuzzleRecord /\ m.paused \in BOOLEAN
    BY <1>5, MessageFields
  <2> DEFINE none == [g \in Group |-> NoPlayer]
  <2>2. none \in [Group -> Player \cup {NoPlayer}]
    OBVIOUS
  <2>3. /\ Heard(v, m) = [v EXCEPT !.puzzle = m.puzzle, !.paused = m.paused, !.locks = none]
        /\ Told(v.puzzle, m) = m.puzzle /\ ToldLocks(v.locks, m) = none
    BY <1>5 DEF Heard, Told, ToldLocks
  <2> HIDE DEF none
  <2> QED
    BY <2>1, <2>2, <2>3 DEF PageRecord
<1>6. CASE m.type = "locked"
  <2> DEFINE l == [v.locks EXCEPT ![m.group] = m.player]
  <2>1. l \in [Group -> Player \cup {NoPlayer}]
    BY <1>1, <1>6, MessageFields
  <2>2. Heard(v, m) = [v EXCEPT !.locks = l] /\ Told(v.puzzle, m) = v.puzzle
        /\ ToldLocks(v.locks, m) = l
    BY <1>6 DEF Heard, Told, ToldLocks
  <2> HIDE DEF l
  <2> QED
    BY <1>4, <2>1, <2>2
<1>7. CASE m.type = "unlocked"
  <2> DEFINE l == [g \in Group |-> IF g \in m.groups THEN NoPlayer ELSE v.locks[g]]
  <2>1. l \in [Group -> Player \cup {NoPlayer}]
    BY <1>1
  <2>2. Heard(v, m) = [v EXCEPT !.locks = l] /\ Told(v.puzzle, m) = v.puzzle
        /\ ToldLocks(v.locks, m) = l
    BY <1>7 DEF Heard, Told, ToldLocks
  <2> HIDE DEF l
  <2> QED
    BY <1>4, <2>1, <2>2
<1>8. CASE m.type \in {"moved", "patch", "arranged"}
  <2>1. Heard(v, m) = [v EXCEPT !.puzzle = Told(v.puzzle, m)] /\ ToldLocks(v.locks, m) = v.locks
    BY <1>8 DEF Heard, Told, ToldLocks
  <2> QED
    BY <1>1, <1>2, <2>1
<1>9. CASE m.type \in {"paused", "resumed"}
  <2>1. PICK b \in BOOLEAN : Heard(v, m) = [v EXCEPT !.paused = b]
    BY <1>9 DEF Heard
  <2>2. Told(v.puzzle, m) = v.puzzle /\ ToldLocks(v.locks, m) = v.locks
    BY <1>9 DEF Told, ToldLocks
  <2> QED
    BY <1>3, <2>1, <2>2
<1>10. CASE m.type = "error"
  BY <1>10 DEF Heard, Told, ToldLocks
<1> QED
  BY <1>5, <1>6, <1>7, <1>8, <1>9, <1>10, MessageFields

LEMMA ReceiveKeeps ==
  ASSUME SyncIInv, NEW c \in Connection, Receive(c)
  PROVE  SyncIInv'
<1> DEFINE m == Head(toClient[c])
           w == Heard(view[c], m)
           r == [type |-> "request_state"]
           asks == m.type \in {"paused", "error"}
           cancels == \/ m.type \in {"paused", "arranged"}
                      \/ m.type = "state" /\ m.paused
                      \/ m.type = "error" /\ m.paused
<1>1. /\ RoomInv /\ SyncTypes /\ \A d \in Connection : PageInv(d)
      /\ toClient[c] # <<>> /\ toClient' = [toClient EXCEPT ![c] = Tail(@)]
      /\ view' = [view EXCEPT ![c] = w]
      /\ UNCHANGED <<vars, commands, gestures>>
  BY DEF SyncIInv, Receive, Heard
<1>1a. \/ EndsQuietly(c)
       \/ /\ upToDate' = [upToDate EXCEPT ![c] =
               @ /\ (drag[c] = NoDrag \/ KeepsGroup(view'[c].puzzle, drag[c]))]
          /\ UNCHANGED <<drag, silent>>
  BY DEF Receive
<1>1b. \/ asks /\ toServer' = [toServer EXCEPT ![c] = Append(@, r)]
       \/ UNCHANGED toServer
  BY DEF Receive, Request
<1>2. RoomInv'
  BY <1>1, RoomStill
<1>3. m \in ToClient /\ r \in ToServer /\ r.type = "request_state"
  BY <1>1, PageTypes DEF ToServer
<1>4. /\ PageInv(c) /\ UNCHANGED <<connections, puzzleVars, dragLocks>>
      /\ c \in connections /\ view[c].opened
  <2>1. PageInv(c) /\ UNCHANGED <<connections, puzzleVars, dragLocks>>
    BY <1>1 DEF vars, roomVars
  <2> QED
    BY <1>1, <2>1 DEF PageInv, PageOpens
<1>5. /\ w \in PageRecord /\ w.opened /\ w.puzzle = Told(view[c].puzzle, m)
      /\ w.locks = ToldLocks(view[c].locks, m)
  BY <1>1, <1>3, <1>4, HeardFields, PageTypes
<1>6. Tail(toClient[c]) \in Seq(ToClient)
  BY <1>1, PageTypes
<1> HIDE DEF w, m, r, asks, cancels
<1>7. /\ view'[c] = w /\ toClient'[c] = Tail(toClient[c])
      /\ \A d \in Connection : d # c => /\ view'[d] = view[d] /\ toClient'[d] = toClient[d]
                                        /\ toServer'[d] = toServer[d]
  BY <1>1, <1>1b DEF SyncTypes
<1>8. /\ \A d \in Connection : d # c => /\ drag'[d] = drag[d] /\ upToDate'[d] = upToDate[d]
                                        /\ silent'[d] = silent[d]
      /\ drag'[c] \in {drag[c], NoDrag}
      /\ upToDate'[c] => upToDate[c] /\ drag'[c] = drag[c]
      /\ ~silent'[c] => ~silent[c] /\ drag'[c] = drag[c]
      /\ upToDate'[c] /\ drag[c] # NoDrag => KeepsGroup(w.puzzle, drag[c])
  <2>1. CASE EndsQuietly(c)
    <3>1. /\ drag' = [drag EXCEPT ![c] = NoDrag]
          /\ upToDate' = [upToDate EXCEPT ![c] = @ /\ drag[c] = NoDrag]
          /\ silent' = [silent EXCEPT ![c] = @ \/ drag[c] # NoDrag]
      BY <2>1 DEF EndsQuietly
    <3>2. \A d \in Connection : d # c => /\ drag'[d] = drag[d] /\ upToDate'[d] = upToDate[d]
                                         /\ silent'[d] = silent[d]
      BY <1>1, <3>1 DEF SyncTypes
    <3>3. /\ drag'[c] = NoDrag /\ (upToDate'[c] <=> upToDate[c] /\ drag[c] = NoDrag)
          /\ (silent'[c] <=> silent[c] \/ drag[c] # NoDrag)
      BY <1>1, <3>1 DEF SyncTypes
    <3> QED
      BY <3>2, <3>3
  <2>2. CASE /\ upToDate' = [upToDate EXCEPT ![c] =
                  @ /\ (drag[c] = NoDrag \/ KeepsGroup(view'[c].puzzle, drag[c]))]
             /\ UNCHANGED <<drag, silent>>
    <3>1. \A d \in Connection : d # c => upToDate'[d] = upToDate[d]
      BY <1>1, <2>2 DEF SyncTypes
    <3>2. upToDate'[c] <=> upToDate[c] /\ (drag[c] = NoDrag \/ KeepsGroup(w.puzzle, drag[c]))
      BY <1>1, <1>7, <2>2 DEF SyncTypes
    <3> QED
      BY <2>2, <3>1, <3>2
  <2> QED
    BY <1>1a, <2>1, <2>2
<1>9. PICK says \in BOOLEAN : toServer'[c] = IF says THEN Append(toServer[c], r) ELSE toServer[c]
  <2>1. toServer'[c] = toServer[c] \/ toServer'[c] = Append(toServer[c], r)
    BY <1>1, <1>1b DEF SyncTypes
  <2> QED
    BY <2>1
<1>10. SyncTypes'
  <2>1. view' \in [Connection -> PageRecord] /\ toClient' \in [Connection -> Seq(ToClient)]
    BY <1>1, <1>5, <1>6 DEF SyncTypes
  <2>2. toServer' \in [Connection -> Seq(ToServer)]
    <3>1. Append(toServer[c], r) \in Seq(ToServer)
      BY <1>1, <1>3, PageTypes
    <3>2. CASE toServer' = [toServer EXCEPT ![c] = Append(@, r)]
      BY <1>1, <3>1, <3>2 DEF SyncTypes
    <3>3. CASE UNCHANGED toServer
      BY <1>1, <3>3 DEF SyncTypes
    <3> QED
      BY <1>1b, <3>2, <3>3
  <2>3. drag' \in [Connection -> DragRecord \cup {NoDrag}]
    BY <1>1, <1>1a DEF SyncTypes, EndsQuietly
  <2>4. upToDate' \in [Connection -> BOOLEAN] /\ silent' \in [Connection -> BOOLEAN]
    BY <1>1, <1>1a DEF SyncTypes, EndsQuietly, KeepsGroup
  <2> QED
    BY <1>1, <2>1, <2>2, <2>3, <2>4 DEF SyncTypes, vars, roomVars
<1>11. ASSUME NEW d \in Connection, d # c
       PROVE  PageInv(d)'
  BY <1>1, <1>7, <1>8, <1>11, PageStill
<1>12. PageInv(c)'
  <2>1. /\ upToDate'[c] => Hand(c) \subseteq Hand(c)'
        /\ upToDate'[c] => Ended(toServer'[c], drag'[c], "move", {"drop"})
        /\ ~silent'[c] => Ended(toServer'[c], drag'[c], "grab", {"drop", "release"})
        /\ PageHolds(c)'
    BY <1>1, <1>3, <1>4, <1>8, <1>9, PageSpeaks
  <2>2. PageOpens(c)'
    <3>1. PageOpens(c) /\ toServer'[c] \in {toServer[c], Append(toServer[c], r)}
      BY <1>4, <1>9 DEF PageInv
    <3> QED
      BY <1>1, <1>3, <1>4, <1>5, <1>7, <3>1, OpensStill
  <2>3. PageDrags(c)'
    <3>1. drag'[c] # NoDrag => drag'[c] = drag[c]
      BY <1>8
    <3> QED
      BY <1>4, <1>7, <1>8, <2>1, <3>1 DEF PageInv, PageDrags
  <2>4. PageAgrees(c)'
    <3>1. PICK s \in Stage : /\ s.puzzle = Puzzle
                             /\ upToDate[c] => s.sure /\ s.open \subseteq Hand(c)
                             /\ Runs(view[c].puzzle, toClient[c], s)
      BY <1>4 DEF PageInv, PageAgrees
    <3>2. Runs(w.puzzle, Tail(toClient[c]), s)
      BY <1>1, <1>5, <3>1, PageTypes, RunsReceive DEF m
    <3>3. Puzzle' = Puzzle
      BY <1>4 DEF Puzzle, puzzleVars
    <3>4. upToDate'[c] => s.sure /\ s.open \subseteq Hand(c)'
      BY <1>8, <2>1, <3>1
    <3> QED
      BY <1>7, <3>1, <3>2, <3>3, <3>4 DEF PageAgrees
  <2>5. PageLocks(c)'
    <3>1. LocksFollow(view[c].locks, toClient[c], dragLocks)
      BY <1>4 DEF PageInv, PageLocks
    <3>2. LocksFollow(w.locks, Tail(toClient[c]), dragLocks)
      BY <1>1, <1>5, <3>1, PageTypes, FollowReceive DEF m
    <3> QED
      BY <1>4, <1>7, <3>2 DEF PageLocks
  <2> QED
    BY <2>1, <2>2, <2>3, <2>4, <2>5 DEF PageInv
<1> QED
  BY <1>2, <1>10, <1>11, <1>12 DEF SyncIInv

-----------------------------------------------------------------------------
(***************************************************************************)
(* The steps of the server.                                                *)
(***************************************************************************)

\* A message of c is taken; if it is a drop it waits.
Served(c) ==
  /\ toServer[c] # <<>> /\ toServer' = [toServer EXCEPT ![c] = Tail(@)]
  /\ UNCHANGED <<view, drag, gestures, silent>>
  /\ IF Wanted(c).type = "drop"
     THEN commands' = Append(commands, <<c, Wanted(c).group, Wanted(c).to>>)
     ELSE UNCHANGED commands

LEMMA WantedFields ==
  ASSUME SyncTypes, NEW c \in Connection, toServer[c] # <<>>
  PROVE  /\ Wanted(c) \in ToServer
         /\ Wanted(c).type \in {"grab", "release", "move", "drop"} => Wanted(c).group \in Group
         /\ Wanted(c).type \in {"move", "drop"} => Wanted(c).to \in Int
<1>1. Wanted(c) \in ToServer
  BY PageTypes DEF Wanted
<1> QED
  BY <1>1 DEF ToServer

\* Only a page that has joined is asked anything but to join.
LEMMA OnlyJoined ==
  ASSUME SyncIInv, NEW c \in Connection, toServer[c] # <<>>, Wanted(c).type # "join"
  PROVE  c \in connections
BY DEF SyncIInv, PageInv, PageOpens, Wanted

LEMMA ServedFields ==
  ASSUME SyncTypes, NEW c \in Connection, Served(c)
  PROVE  /\ toServer' \in [Connection -> Seq(ToServer)] /\ toServer'[c] = Tail(toServer[c])
         /\ \A d \in Connection : d # c => toServer'[d] = toServer[d]
         /\ commands' \in Seq(Command)
         /\ \A d, g : QueuedIn(commands, d, g) => QueuedIn(commands', d, g)
         /\ Wanted(c).type = "drop" => QueuedIn(commands', c, Wanted(c).group)
<1>1. Tail(toServer[c]) \in Seq(ToServer)
  BY PageTypes DEF Served
<1>2. /\ toServer' \in [Connection -> Seq(ToServer)] /\ toServer'[c] = Tail(toServer[c])
      /\ \A d \in Connection : d # c => toServer'[d] = toServer[d]
  BY <1>1 DEF SyncTypes, Served
<1>3. CASE Wanted(c).type = "drop"
  <2> DEFINE k == <<c, Wanted(c).group, Wanted(c).to>>
  <2>1. k \in Command /\ k[1] = c /\ k[2] = Wanted(c).group
    BY <1>3, WantedFields DEF Served, Command
  <2>2. commands' = Append(commands, k) /\ commands \in Seq(Command)
    BY <1>3 DEF Served, SyncTypes
  <2> HIDE DEF k
  <2>3. commands' \in Seq(Command)
    BY <2>1, <2>2
  <2>4. \A d, g : QueuedIn(commands, d, g) => QueuedIn(commands', d, g)
    BY <2>1, <2>2, QueuedAppend
  <2>5. QueuedIn(commands', c, Wanted(c).group)
    BY <2>1, <2>2, QueuedAppend
  <2> QED
    BY <1>2, <2>3, <2>4, <2>5
<1>4. CASE Wanted(c).type # "drop"
  <2>1. UNCHANGED commands /\ commands \in Seq(Command)
    BY <1>4 DEF Served, SyncTypes
  <2> QED
    BY <1>2, <1>4, <2>1 DEF QueuedIn
<1> QED
  BY <1>3, <1>4

LEMMA HandStays ==
  ASSUME SyncTypes, NEW c \in Connection, NEW d \in Connection, Served(c)
  PROVE  Hand(d) \subseteq Hand(d)'
<1> SUFFICES ASSUME NEW g \in Group, g \in Hand(d)
             PROVE  g \in Hand(d)'
  BY DEF Hand
<1>1. toServer[c] # <<>> /\ toServer[c] \in Seq(ToServer) /\ UNCHANGED drag
  BY PageTypes DEF Served
<1>2. CASE InHand(drag[d], g)
  BY <1>1, <1>2 DEF Hand
<1>3. CASE QueuedIn(commands, d, g)
  BY <1>3, ServedFields DEF Hand
<1>4. CASE Later(toServer[d], {"drop"}, g, 0)
  <2>1. CASE d # c
    <3>1. Later(toServer'[d], {"drop"}, g, 0)
      BY <1>4, <2>1, ServedFields
    <3> QED
      BY <3>1 DEF Hand
  <2>2. CASE d = c /\ ~(Wanted(c).type = "drop" /\ Wanted(c).group = g)
    <3>1. Later(Tail(toServer[c]), {"drop"}, g, 0)
      BY <1>1, <1>4, <2>2, LaterTake DEF Wanted
    <3>2. Later(toServer'[d], {"drop"}, g, 0)
      BY <2>2, <3>1, ServedFields
    <3> QED
      BY <3>2 DEF Hand
  <2>3. CASE d = c /\ Wanted(c).type = "drop" /\ Wanted(c).group = g
    <3>1. QueuedIn(commands', d, g)
      BY <2>3, ServedFields
    <3> QED
      BY <3>1 DEF Hand
  <2> QED
    BY <2>1, <2>2, <2>3
<1> QED
  BY <1>2, <1>3, <1>4 DEF Hand

\* A page that becomes up to date has no moves on their way.
LEMMA ServedDrags ==
  ASSUME SyncTypes, NEW c \in Connection, NEW d \in Connection, Served(c), PageDrags(d),
         upToDate'[d] => \/ upToDate[d]
                         \/ /\ d = c /\ drag[c] = NoDrag
                            /\ \A i \in DOMAIN toServer[c] : toServer[c][i].type # "move"
  PROVE  PageDrags(d)'
<1>1. toServer[c] # <<>> /\ toServer[c] \in Seq(ToServer) /\ UNCHANGED <<view, drag, silent>>
  BY PageTypes DEF Served
<1>2. ASSUME NEW type, NEW ends, Ended(toServer[d], drag[d], type, ends)
      PROVE  Ended(toServer'[d], drag'[d], type, ends)
  <2>1. CASE d # c
    BY <1>1, <1>2, <2>1, ServedFields
  <2>2. CASE d = c
    <3>1. Ended(Tail(toServer[c]), drag[c], type, ends)
      BY <1>1, <1>2, <2>2, EndedTail
    <3> QED
      BY <1>1, <2>2, <3>1, ServedFields
  <2> QED
    BY <2>1, <2>2
<1>3. upToDate'[d] => Ended(toServer[d], drag[d], "move", {"drop"})
  BY DEF PageDrags, Ended
<1>4. upToDate'[d] => Ended(toServer'[d], drag'[d], "move", {"drop"})
  BY <1>2, <1>3
<1>5. ~silent'[d] => Ended(toServer'[d], drag'[d], "grab", {"drop", "release"})
  <2>1. silent'[d] = silent[d]
    BY <1>1
  <2> QED
    BY <1>2, <2>1 DEF PageDrags
<1>6. drag'[d] # NoDrag => drag'[d].group \in DOMAIN drag'[d].starts
  BY <1>1 DEF PageDrags
<1>7. drag'[d] # NoDrag /\ upToDate'[d] => KeepsGroup(view'[d].puzzle, drag'[d])
  BY <1>1 DEF PageDrags
<1> QED
  BY <1>4, <1>5, <1>6, <1>7 DEF PageDrags

\* A lock that the step leaves is one of before, unless the step is its grab.
LEMMA ServedHolds ==
  ASSUME SyncTypes, NEW c \in Connection, NEW d \in Connection, Served(c), PageInv(d),
         connections \subseteq connections',
         d \in connections' /\ OnlyPage(d)' => \A g \in Group : dragLocks'[g] = Owner[d] =>
           \/ /\ d \in connections /\ dragLocks[g] = Owner[d]
              /\ ~(d = c /\ Wanted(c).type = "release" /\ Wanted(c).group = g)
           \/ d = c /\ Wanted(c).type = "grab" /\ Wanted(c).group = g
  PROVE  PageHolds(d)'
<1>1. /\ toServer[c] # <<>> /\ toServer[c] \in Seq(ToServer) /\ UNCHANGED <<drag, silent>>
  BY PageTypes DEF Served
<1> SUFFICES ASSUME d \in connections', ~silent[d], OnlyPage(d)', NEW g \in Group,
                    dragLocks'[g] = Owner[d]
             PROVE  \/ InHand(drag[d], g)
                    \/ Later(toServer'[d], {"drop", "release"}, g, 0)
                    \/ QueuedIn(commands', d, g)
  BY <1>1 DEF PageHolds
<1>2. CASE /\ d \in connections /\ dragLocks[g] = Owner[d]
           /\ ~(d = c /\ Wanted(c).type = "release" /\ Wanted(c).group = g)
  <2>1. OnlyPage(d)
    BY DEF OnlyPage
  <2>2. \/ InHand(drag[d], g) \/ Later(toServer[d], {"drop", "release"}, g, 0)
        \/ QueuedIn(commands, d, g)
    BY <1>2, <2>1 DEF PageInv, PageHolds
  <2>3. CASE Later(toServer[d], {"drop", "release"}, g, 0)
    <3>1. CASE d # c
      BY <2>3, <3>1, ServedFields
    <3>2. CASE d = c /\ ~(Wanted(c).type = "drop" /\ Wanted(c).group = g)
      <4>1. ~(Head(toServer[c]).type \in {"drop", "release"} /\ Head(toServer[c]).group = g)
        BY <1>2, <3>2 DEF Wanted
      <4>2. Later(Tail(toServer[c]), {"drop", "release"}, g, 0)
        BY <1>1, <2>3, <3>2, <4>1, LaterTake
      <4> QED
        BY <3>2, <4>2, ServedFields
    <3>3. CASE d = c /\ Wanted(c).type = "drop" /\ Wanted(c).group = g
      BY <3>3, ServedFields
    <3> QED
      BY <3>1, <3>2, <3>3
  <2> QED
    BY <2>2, <2>3, ServedFields
<1>3. CASE d = c /\ Wanted(c).type = "grab" /\ Wanted(c).group = g
  <2>1. Ended(toServer[c], drag[c], "grab", {"drop", "release"})
    BY <1>3 DEF PageInv, PageDrags
  <2>2. 1 \in DOMAIN toServer[c] /\ toServer[c][1] = Wanted(c)
    BY <1>1 DEF Wanted
  <2>3. InHand(drag[c], g) \/ Later(toServer[c], {"drop", "release"}, g, 0 + 1)
    BY <1>3, <2>1, <2>2 DEF Ended
  <2>4. CASE Later(toServer[c], {"drop", "release"}, g, 0 + 1)
    <3>1. Later(Tail(toServer[c]), {"drop", "release"}, g, 0)
      BY <1>1, <2>4, LaterTail
    <3> QED
      BY <1>3, <3>1, ServedFields
  <2> QED
    BY <1>3, <2>3, <2>4
<1> QED
  BY <1>2, <1>3

LEMMA ServeKeeps ==
  ASSUME SyncIInv, NEW c \in Connection, Served(c), RoomInv', leaving' = leaving,
         toClient' \in [Connection -> Seq(ToClient)], upToDate' \in [Connection -> BOOLEAN],
         connections' = connections \cup {c},
         \A d \in Connection : d \notin connections' => toClient'[d] = toClient[d],
         \A d \in Connection : upToDate'[d] =>
           \/ upToDate[d]
           \/ /\ d = c /\ drag[c] = NoDrag
              /\ \A i \in DOMAIN toServer[c] : toServer[c][i].type # "move",
         \A d \in Connection : d \in connections' /\ OnlyPage(d)' =>
           \A g \in Group : dragLocks'[g] = Owner[d] =>
             \/ /\ d \in connections /\ dragLocks[g] = Owner[d]
                /\ ~(d = c /\ Wanted(c).type = "release" /\ Wanted(c).group = g)
             \/ d = c /\ Wanted(c).type = "grab" /\ Wanted(c).group = g,
         \A d \in Connection : PageAgrees(d)' /\ PageLocks(d)'
  PROVE  SyncIInv'
<1>1. SyncTypes /\ \A d \in Connection : PageInv(d)
  BY DEF SyncIInv
<1>2. SyncTypes'
  BY <1>1, ServedFields DEF SyncTypes, Served
<1>3. ASSUME NEW d \in Connection
      PROVE  PageInv(d)'
  <2>1. PageDrags(d)'
    BY <1>1, ServedDrags DEF PageInv
  <2>2. PageHolds(d)'
    BY <1>1, ServedHolds
  <2>3. PageOpens(d)'
    <3>1. PageOpens(d) /\ UNCHANGED <<view, drag>> /\ toServer[c] # <<>>
      BY <1>1 DEF PageInv, Served
    <3>2. CASE d = c
      BY <3>1, <3>2 DEF PageOpens
    <3>3. CASE d # c
      <4>1. toServer'[d] = toServer[d]
        BY <1>1, <3>3, ServedFields
      <4>2. d \in connections' <=> d \in connections
        BY <3>3
      <4> QED
        BY <3>1, <4>1, <4>2 DEF PageOpens
    <3> QED
      BY <3>2, <3>3
  <2> QED
    BY <2>1, <2>2, <2>3 DEF PageInv
<1> QED
  BY <1>2, <1>3 DEF SyncIInv

-----------------------------------------------------------------------------
(***************************************************************************)
(* What a step of the server says.                                         *)
(***************************************************************************)
LEMMA TellNone ==
  ASSUME SyncTypes, NEW except, BroadcastExcept(except, <<>>)
  PROVE  toClient' = toClient
<1>1. \A d \in Connection : toClient[d] \o <<>> = toClient[d]
  BY PageTypes
<1> QED
  BY <1>1 DEF SyncTypes, BroadcastExcept

LEMMA TellOne ==
  ASSUME SyncTypes, NEW except, NEW m \in ToClient, BroadcastExcept(except, <<m>>)
  PROVE  /\ toClient' \in [Connection -> Seq(ToClient)]
         /\ \A d \in Connection : toClient'[d] = IF d \in connections \ except
                                                 THEN Append(toClient[d], m) ELSE toClient[d]
<1>1. \A d \in Connection : /\ toClient[d] \in Seq(ToClient)
                            /\ toClient[d] \o <<m>> = Append(toClient[d], m)
                            /\ Append(toClient[d], m) \in Seq(ToClient)
  BY PageTypes
<1>2. toClient' = [d \in Connection |-> IF d \in connections \ except
                                       THEN Append(toClient[d], m) ELSE toClient[d]]
  BY <1>1 DEF BroadcastExcept
<1> QED
  BY <1>1, <1>2

LEMMA TellTwo ==
  ASSUME SyncTypes, NEW m \in ToClient, NEW n \in ToClient, BroadcastExcept({}, <<m, n>>)
  PROVE  /\ toClient' \in [Connection -> Seq(ToClient)]
         /\ \A d \in Connection :
              toClient'[d] = IF d \in connections THEN Append(Append(toClient[d], m), n)
                             ELSE toClient[d]
<1>1. \A d \in Connection :
        /\ toClient[d] \in Seq(ToClient)
        /\ toClient[d] \o <<m, n>> = Append(Append(toClient[d], m), n)
        /\ Append(Append(toClient[d], m), n) \in Seq(ToClient)
  BY PageTypes
<1>2. toClient' = [d \in Connection |-> IF d \in connections
                                       THEN Append(Append(toClient[d], m), n) ELSE toClient[d]]
  BY <1>1 DEF BroadcastExcept
<1> QED
  BY <1>1, <1>2

LEMMA TellPage ==
  ASSUME SyncTypes, NEW c \in Connection, NEW m \in ToClient, Answer(c, m)
  PROVE  /\ toClient' \in [Connection -> Seq(ToClient)]
         /\ toClient'[c] = Append(toClient[c], m)
         /\ \A d \in Connection : d # c => toClient'[d] = toClient[d]
<1>1. Append(toClient[c], m) \in Seq(ToClient)
  BY PageTypes
<1> QED
  BY <1>1 DEF SyncTypes, Answer

\* The stage of the puzzle of the server at the end of the messages to d.
At(d, s) ==
  /\ s \in Stage /\ s.puzzle = Puzzle
  /\ upToDate[d] => s.sure /\ s.open \subseteq Hand(d)
  /\ Runs(view[d].puzzle, toClient[d], s)

LEMMA AtSome ==
  ASSUME NEW d \in Connection, PageInv(d), d \in connections
  PROVE  \E s : At(d, s)
BY DEF PageInv, PageAgrees, At

LEMMA AtNext ==
  ASSUME NEW d \in Connection, NEW u \in Stage, u.puzzle = Puzzle',
         upToDate'[d] => u.sure /\ u.open \subseteq Hand(d)',
         Runs(view'[d].puzzle, toClient'[d], u)
  PROVE  PageAgrees(d)'
BY DEF PageAgrees

\* The puzzle is as it was, and nothing is said of it.
LEMMA AgreesUntold ==
  ASSUME SyncTypes, NEW d \in Connection, PageInv(d), d \in connections' <=> d \in connections,
         UNCHANGED <<puzzleVars, view>>, NEW m \in ToClient, NEW n \in ToClient,
         m.type \notin {"state", "moved", "patch", "arranged"},
         n.type \notin {"state", "moved", "patch", "arranged"},
         d \in connections => \/ toClient'[d] = toClient[d]
                              \/ toClient'[d] = Append(toClient[d], m)
                              \/ toClient'[d] = Append(Append(toClient[d], m), n),
         upToDate'[d] => upToDate[d] /\ Hand(d) \subseteq Hand(d)'
  PROVE  PageAgrees(d)'
<1>1. CASE d \notin connections
  BY <1>1 DEF PageAgrees
<1>2. CASE d \in connections
  <2>1. PICK s : At(d, s)
    BY <1>2, AtSome
  <2>2. s \in Stage /\ toClient[d] \in Seq(ToClient) /\ Runs(view[d].puzzle, toClient[d], s)
    BY <2>1, PageTypes DEF At
  <2>3. Puzzle' = Puzzle
    BY DEF Puzzle, puzzleVars
  <2>4. Append(toClient[d], m) \in Seq(ToClient) /\ Carries(m, s, s) /\ Carries(n, s, s)
    BY <2>2, CarriesNothing
  <2>5. Runs(view[d].puzzle, Append(toClient[d], m), s)
    BY <2>2, <2>4, RunsAppend
  <2>6. Runs(view[d].puzzle, Append(Append(toClient[d], m), n), s)
    BY <2>2, <2>4, <2>5, RunsAppend
  <2>7. Runs(view'[d].puzzle, toClient'[d], s)
    BY <1>2, <2>2, <2>5, <2>6
  <2>8. upToDate'[d] => s.sure /\ s.open \subseteq Hand(d)'
    BY <2>1 DEF At
  <2>9. s.puzzle = Puzzle'
    BY <2>1, <2>3 DEF At
  <2> QED
    BY <2>2, <2>7, <2>8, <2>9, AtNext
<1> QED
  BY <1>1, <1>2

\* The message m that carries the puzzle of the server to the next one.
CarriesOn(m, D) ==
  \A s \in Stage, u \in Stage :
    s.puzzle = Puzzle /\ u.puzzle = Puzzle' /\ u.sure = s.sure /\ s.open \ D \subseteq u.open
      => Carries(m, s, u)

LEMMA AgreesTold ==
  ASSUME SyncTypes, NEW d \in Connection, PageInv(d), connections' = connections, PuzzleInv',
         UNCHANGED view, NEW m \in ToClient, NEW n \in ToClient, NEW D \in SUBSET Group,
         CarriesOn(m, D), n.type \notin {"state", "moved", "patch", "arranged"},
         d \in connections => \/ toClient'[d] = Append(toClient[d], m)
                              \/ toClient'[d] = Append(Append(toClient[d], m), n),
         upToDate'[d] => upToDate[d] /\ Hand(d) \ D \subseteq Hand(d)'
  PROVE  PageAgrees(d)'
<1>1. CASE d \notin connections
  BY <1>1 DEF PageAgrees
<1>2. CASE d \in connections
  <2>1. PICK s : At(d, s)
    BY <1>2, AtSome
  <2>2. s \in Stage /\ toClient[d] \in Seq(ToClient) /\ Runs(view[d].puzzle, toClient[d], s)
    BY <2>1, PageTypes DEF At
  <2>3. PICK u \in Stage : u.puzzle = Puzzle' /\ u.sure = s.sure /\ u.open = s.open \ D
    <3> DEFINE u == [puzzle |-> Puzzle', sure |-> s.sure, open |-> s.open \ D]
    <3>1. u \in Stage
      BY <2>2, StageFacts, NextPuzzle DEF Stage
    <3> QED
      BY <3>1
  <2>4. Append(toClient[d], m) \in Seq(ToClient) /\ Carries(m, s, u) /\ Carries(n, u, u)
    <3>1. s.puzzle = Puzzle
      BY <2>1 DEF At
    <3>2. Carries(m, s, u)
      BY <2>2, <2>3, <3>1 DEF CarriesOn
    <3> QED
      BY <2>2, <3>2, CarriesNothing
  <2>5. Runs(view[d].puzzle, Append(toClient[d], m), u)
    BY <2>2, <2>4, RunsAppend
  <2>6. Runs(view[d].puzzle, Append(Append(toClient[d], m), n), u)
    BY <2>4, <2>5, RunsAppend
  <2>7. Runs(view'[d].puzzle, toClient'[d], u)
    BY <1>2, <2>5, <2>6
  <2>8. upToDate'[d] => u.sure /\ u.open \subseteq Hand(d)'
    BY <2>1, <2>3 DEF At
  <2> QED
    BY <2>3, <2>7, <2>8, AtNext
<1> QED
  BY <1>1, <1>2

\* A full state starts anew, from any copy.
LEMMA AgreesState ==
  ASSUME SyncTypes, NEW c \in Connection, PuzzleInv, UNCHANGED <<puzzleVars, view>>,
         NEW m \in ToClient, m.type = "state", m.puzzle = Puzzle,
         toClient'[c] = Append(toClient[c], m),
         NEW s \in Stage, Runs(view[c].puzzle, toClient[c], s)
  PROVE  PageAgrees(c)'
<1>1. Puzzle \in PuzzleRecord /\ Parted(Puzzle) /\ Whole(Puzzle) /\ Puzzle' = Puzzle
  BY ServerPuzzle DEF Puzzle, puzzleVars
<1>2. PICK u \in Stage : u.puzzle = Puzzle /\ u.sure /\ u.open = {}
  <2> DEFINE u == [puzzle |-> Puzzle, sure |-> TRUE, open |-> {}]
  <2>1. u \in Stage
    BY <1>1 DEF Stage
  <2> QED
    BY <2>1
<1>3. Carries(m, s, u)
  BY <1>1, <1>2, CarriesState
<1>4. toClient[c] \in Seq(ToClient)
  BY PageTypes
<1>5. Runs(view[c].puzzle, Append(toClient[c], m), u)
  BY <1>2, <1>3, <1>4, RunsAppend
<1>6. Runs(view'[c].puzzle, toClient'[c], u) /\ u.puzzle = Puzzle'
  BY <1>1, <1>2, <1>5
<1> QED
  BY <1>2, <1>6, AtNext

\* What is said of the locks.
LEMMA LocksTold ==
  ASSUME SyncTypes, NEW d \in Connection, PageLocks(d), d \in connections, view' = view,
         NEW m \in ToClient, NEW n \in ToClient,
         \/ toClient'[d] = toClient[d] /\ dragLocks' = dragLocks
         \/ /\ toClient'[d] = Append(toClient[d], m)
            /\ \A g \in Group : ~Touches(m, g) => dragLocks'[g] = dragLocks[g]
            /\ m.type = "locked" => dragLocks'[m.group] = m.player
         \/ /\ toClient'[d] = Append(Append(toClient[d], m), n)
            /\ m.type # "locked" /\ n.type # "locked"
            /\ \/ /\ \A g \in Group : ~Touches(m, g) => dragLocks'[g] = dragLocks[g]
               \/ /\ \A g \in Group : ~Touches(n, g) => dragLocks'[g] = dragLocks[g]
  PROVE  PageLocks(d)'
<1>1. LocksFollow(view[d].locks, toClient[d], dragLocks) /\ toClient[d] \in Seq(ToClient)
  BY PageTypes DEF PageLocks
<1>2. Append(toClient[d], m) \in Seq(ToClient)
  BY <1>1
<1>3. CASE toClient'[d] = toClient[d] /\ dragLocks' = dragLocks
  BY <1>1, <1>3 DEF PageLocks
<1>4. CASE /\ toClient'[d] = Append(toClient[d], m)
           /\ \A g \in Group : ~Touches(m, g) => dragLocks'[g] = dragLocks[g]
           /\ m.type = "locked" => dragLocks'[m.group] = m.player
  <2>1. LocksFollow(view[d].locks, Append(toClient[d], m), dragLocks')
    BY <1>1, <1>4, FollowAppend
  <2> QED
    BY <1>4, <2>1 DEF PageLocks
<1>5. CASE /\ toClient'[d] = Append(Append(toClient[d], m), n)
           /\ m.type # "locked" /\ n.type # "locked"
           /\ \A g \in Group : ~Touches(m, g) => dragLocks'[g] = dragLocks[g]
  <2>1. LocksFollow(view[d].locks, Append(toClient[d], m), dragLocks')
    BY <1>1, <1>5, FollowAppend
  <2>2. LocksFollow(view[d].locks, Append(Append(toClient[d], m), n), dragLocks')
    BY <1>2, <1>5, <2>1, FollowAppend
  <2> QED
    BY <1>5, <2>2 DEF PageLocks
<1>6. CASE /\ toClient'[d] = Append(Append(toClient[d], m), n)
           /\ m.type # "locked" /\ n.type # "locked"
           /\ \A g \in Group : ~Touches(n, g) => dragLocks'[g] = dragLocks[g]
  <2>1. LocksFollow(view[d].locks, Append(toClient[d], m), dragLocks)
    BY <1>1, <1>6, FollowAppend
  <2>2. LocksFollow(view[d].locks, Append(Append(toClient[d], m), n), dragLocks')
    BY <1>2, <1>6, <2>1, FollowAppend
  <2> QED
    BY <1>6, <2>2 DEF PageLocks
<1> QED
  BY <1>3, <1>4, <1>5, <1>6

LEMMA StateMessage ==
  ASSUME RoomInv
  PROVE  /\ RoomState \in ToClient /\ RoomState.type = "state" /\ RoomState.puzzle = Puzzle
         /\ [type |-> "paused"] \in ToClient
<1>1. Puzzle \in PuzzleRecord /\ timer.paused \in BOOLEAN
  BY ServerPuzzle DEF RoomInv, TypeOK, Timer
<1> QED
  BY <1>1 DEF RoomState, ToClient

\* What the answer with a full state keeps of the other pages.
LEMMA StateKeeps ==
  ASSUME SyncIInv, NEW c \in Connection, Served(c), AnswerWithState(c), RoomInv',
         leaving' = leaving, connections' = connections \cup {c},
         UNCHANGED <<puzzleVars, dragLocks>>,
         Wanted(c).type \in {"join", "request_state"},
         \A d \in Connection : d \in connections' /\ OnlyPage(d)' =>
           \A g \in Group : dragLocks[g] = Owner[d] => d \in connections,
         NEW s \in Stage, Runs(view[c].puzzle, toClient[c], s),
         c \notin connections => toClient[c] = <<>>
  PROVE  SyncIInv'
<1>1. /\ RoomInv /\ SyncTypes /\ \A d \in Connection : PageInv(d)
      /\ UNCHANGED view
  BY DEF SyncIInv, Served
<1>2. PICK m \in ToClient : m.type = "state" /\ m.puzzle = Puzzle /\ Answer(c, m)
  BY <1>1, StateMessage DEF AnswerWithState
<1>3. PICK n \in ToClient : n.type = "paused"
  BY <1>1, StateMessage
<1>4. /\ toClient' \in [Connection -> Seq(ToClient)] /\ toClient'[c] = Append(toClient[c], m)
      /\ \A d \in Connection : d # c => toClient'[d] = toClient[d]
  BY <1>1, <1>2, TellPage
<1>5. /\ upToDate' \in [Connection -> BOOLEAN]
      /\ \A d \in Connection : d # c => upToDate'[d] = upToDate[d]
      /\ upToDate'[c] => \/ upToDate[c]
                         \/ /\ drag[c] = NoDrag
                            /\ \A i \in DOMAIN toServer[c] : toServer[c][i].type # "move"
  BY <1>1 DEF AnswerWithState, SyncTypes
<1>6. ASSUME NEW d \in Connection
      PROVE  PageAgrees(d)'
  <2>1. CASE d = c
    BY <1>1, <1>2, <1>4, <2>1, AgreesState DEF RoomInv
  <2>2. CASE d # c
    <3>1. Hand(d) \subseteq Hand(d)'
      BY <1>1, HandStays
    <3>2. d \in connections' <=> d \in connections
      BY <2>2
    <3> QED
      BY <1>1, <1>3, <1>4, <1>5, <2>2, <3>1, <3>2, AgreesUntold
  <2> QED
    BY <2>1, <2>2
<1>7. ASSUME NEW d \in Connection
      PROVE  PageLocks(d)'
  <2>1. PageLocks(d)
    BY <1>1 DEF PageInv
  <2>2. CASE d = c /\ c \in connections
    <3>1. \A g \in Group : Touches(m, g)
      BY <1>2 DEF Touches
    <3> QED
      BY <1>1, <1>2, <1>4, <2>1, <2>2, <3>1, LocksTold
  <2>3. CASE d = c /\ c \notin connections
    <3>1. LocksFollow(view[c].locks, Append(<<>>, m), dragLocks)
      BY <1>2, FollowNew
    <3>2. toClient'[c] = Append(<<>>, m)
      BY <1>4, <2>3
    <3> QED
      BY <1>1, <2>3, <3>1, <3>2 DEF PageLocks
  <2>4. CASE d # c /\ d \in connections
    BY <1>1, <1>2, <1>4, <2>1, <2>4, LocksTold
  <2>5. CASE d # c /\ d \notin connections
    BY <2>5 DEF PageLocks
  <2> QED
    BY <2>2, <2>3, <2>4, <2>5
<1>8. \A d \in Connection : d \notin connections' => toClient'[d] = toClient[d]
  BY <1>4
<1>9. \A d \in Connection : upToDate'[d] =>
        \/ upToDate[d]
        \/ /\ d = c /\ drag[c] = NoDrag
           /\ \A i \in DOMAIN toServer[c] : toServer[c][i].type # "move"
  BY <1>5
<1>10. \A d \in Connection : d \in connections' /\ OnlyPage(d)' =>
         \A g \in Group : dragLocks'[g] = Owner[d] =>
           \/ /\ d \in connections /\ dragLocks[g] = Owner[d]
              /\ ~(d = c /\ Wanted(c).type = "release" /\ Wanted(c).group = g)
           \/ d = c /\ Wanted(c).type = "grab" /\ Wanted(c).group = g
  OBVIOUS
<1> QED
  BY <1>4, <1>5, <1>6, <1>7, <1>8, <1>9, <1>10, ServeKeeps

LEMMA HandleStateRequestKeeps ==
  ASSUME SyncIInv, NEW c \in Connection, HandleStateRequest(c)
  PROVE  SyncIInv'
<1>1. /\ toServer[c] # <<>> /\ Wanted(c).type = "request_state" /\ Served(c)
      /\ AnswerWithState(c) /\ UNCHANGED vars
  BY DEF HandleStateRequest, Asks, Wanted, Take, Served, AnswerWithState, pageVars
<1>2. c \in connections
  BY <1>1, OnlyJoined
<1>3. /\ UNCHANGED <<puzzleVars, dragLocks, leaving, connections>>
      /\ connections = connections \cup {c}
  BY <1>1, <1>2 DEF vars, roomVars
<1>4. RoomInv'
  BY <1>1, RoomStill DEF SyncIInv
<1>5. PICK s : At(c, s)
  BY <1>2, AtSome DEF SyncIInv
<1> QED
  BY <1>1, <1>2, <1>3, <1>4, <1>5, StateKeeps DEF At

LEMMA HandleJoinKeeps ==
  ASSUME SyncIInv, NEW c \in Connection, HandleJoin(c)
  PROVE  SyncIInv'
<1>1. /\ toServer[c] # <<>> /\ Wanted(c).type = "join" /\ Served(c)
      /\ AnswerWithState(c) /\ Join(c)
  BY DEF HandleJoin, Asks, Wanted, Take, Served, AnswerWithState, pageVars
<1>2. /\ RoomInv /\ SyncTypes /\ PageInv(c) /\ c \notin connections
      /\ connections' = connections \cup {c} /\ leaving = NoConnection
      /\ UNCHANGED <<puzzleVars, dragLocks, leaving>>
  BY <1>1 DEF SyncIInv, SyncTypes, Join, lockVars
<1>3. RoomInv'
  BY <1>1, <1>2, JoinKeeps
<1>4. toClient[c] = <<>> /\ view[c].puzzle \in PuzzleRecord /\ Parted(view[c].puzzle)
  BY <1>2, PageTypes DEF PageInv, PageOpens
<1>5. PICK s \in Stage : s.puzzle = view[c].puzzle /\ ~s.sure
  <2> DEFINE s == [puzzle |-> view[c].puzzle, sure |-> FALSE, open |-> {}]
  <2>1. s \in Stage
    BY <1>4 DEF Stage
  <2> QED
    BY <2>1
<1>6. Runs(view[c].puzzle, toClient[c], s)
  <2>1. Like(view[c].puzzle, s)
    BY <1>5 DEF Like, SameParts
  <2> QED
    BY <1>4, <2>1, RunsNil
<1>7. ASSUME NEW d \in Connection, d \in connections', OnlyPage(d)', NEW g \in Group,
             dragLocks[g] = Owner[d]
      PROVE  d \in connections
  <2>1. Owner[d] \in players
    BY <1>2, <1>7, OwnerAssumption, NoneAssumption DEF RoomInv, LocksHaveHolders
  <2>2. PICK e \in connections : Owner[e] = Owner[d]
    BY <1>2, <2>1 DEF RoomInv, PlayersHaveConnections, StillConnected
  <2>3. e = d
    BY <1>2, <1>7, <2>2 DEF OnlyPage
  <2> QED
    BY <2>2, <2>3
<1> QED
  BY <1>1, <1>2, <1>3, <1>4, <1>6, <1>7, StateKeeps

\* The other steps leave the people and the history as they are.
LEMMA WorkKeeps ==
  ASSUME SyncIInv, NEW c \in Connection, Served(c), RoomInv', UNCHANGED peopleVars,
         Wanted(c).type # "join", toClient' \in [Connection -> Seq(ToClient)],
         UNCHANGED upToDate,
         \A d \in Connection : d \notin connections => toClient'[d] = toClient[d],
         \A d \in Connection, g \in Group : dragLocks'[g] = Owner[d] =>
             \/ /\ dragLocks[g] = Owner[d]
                /\ ~(d = c /\ Wanted(c).type = "release" /\ Wanted(c).group = g)
             \/ d = c /\ Wanted(c).type = "grab" /\ Wanted(c).group = g
             \/ \E e \in connections : Owner[e] = Owner[d] /\ e # d,
         \A d \in Connection : PageAgrees(d)',
         \A d \in Connection : d \in connections => PageLocks(d)'
  PROVE  SyncIInv'
<1>1. toServer[c] # <<>>
  BY DEF Served
<1>2. c \in connections
  BY <1>1, OnlyJoined
<1>3. UNCHANGED connections /\ leaving' = leaving
  BY DEF peopleVars
<1>4. connections' = connections \cup {c}
  BY <1>2, <1>3
<1>5. \A d \in Connection : d \in connections' /\ OnlyPage(d)' =>
        \A g \in Group : dragLocks'[g] = Owner[d] =>
          \/ /\ d \in connections /\ dragLocks[g] = Owner[d]
             /\ ~(d = c /\ Wanted(c).type = "release" /\ Wanted(c).group = g)
          \/ d = c /\ Wanted(c).type = "grab" /\ Wanted(c).group = g
  BY <1>3 DEF OnlyPage
<1>6. \A d \in Connection : PageLocks(d)'
  BY <1>3 DEF PageLocks
<1>7. upToDate' \in [Connection -> BOOLEAN]
  BY DEF SyncIInv, SyncTypes
<1> QED
  BY <1>3, <1>4, <1>5, <1>6, <1>7, ServeKeeps

\* A request that is refused, or overtaken, changes nothing in the room.
LEMMA RefusalKeeps ==
  ASSUME SyncIInv, NEW c \in Connection, Served(c), UNCHANGED <<vars, upToDate>>,
         Wanted(c).type # "join",
         Wanted(c).type = "release" => dragLocks[Wanted(c).group] # Owner[c],
         toClient' = toClient \/ Answer(c, Refusal)
  PROVE  SyncIInv'
<1>1. /\ RoomInv /\ SyncTypes /\ \A d \in Connection : PageInv(d)
      /\ UNCHANGED <<view, puzzleVars, dragLocks, connections, peopleVars>>
  BY DEF SyncIInv, Served, vars, roomVars, peopleVars
<1>2. PICK m \in ToClient : m.type = "error" /\ (toClient' = toClient \/ Answer(c, m))
  <2>1. Refusal \in ToClient /\ Refusal.type = "error"
    <3>1. timer.paused \in BOOLEAN
      BY <1>1 DEF RoomInv, TypeOK, Timer
    <3> QED
      BY <3>1 DEF Refusal, ToClient
  <2> QED
    BY <2>1
<1>3. /\ toClient' \in [Connection -> Seq(ToClient)]
      /\ \A d \in Connection : /\ d # c => toClient'[d] = toClient[d]
                               /\ \/ toClient'[d] = toClient[d]
                                  \/ toClient'[d] = Append(toClient[d], m)
  <2>1. CASE toClient' = toClient
    BY <1>1, <2>1 DEF SyncTypes
  <2>2. CASE Answer(c, m)
    BY <1>1, <2>2, TellPage
  <2> QED
    BY <1>2, <2>1, <2>2
<1>4. ASSUME NEW d \in Connection
      PROVE  PageAgrees(d)'
  <2>1. Hand(d) \subseteq Hand(d)'
    BY <1>1, HandStays
  <2> QED
    BY <1>1, <1>2, <1>3, <2>1, AgreesUntold
<1>5. ASSUME NEW d \in Connection, d \in connections
      PROVE  PageLocks(d)'
  <2>1. PageLocks(d)
    BY <1>1 DEF PageInv
  <2>2. toClient'[d] = toClient[d] \/ toClient'[d] = Append(toClient[d], m)
    BY <1>3
  <2>3. dragLocks' = dragLocks /\ m.type # "locked"
    BY <1>1, <1>2
  <2> QED
    BY <1>1, <1>5, <2>1, <2>2, <2>3, LocksTold
<1>6. RoomInv'
  BY <1>1, RoomStill
<1>7. \A d \in Connection : d \notin connections => toClient'[d] = toClient[d]
  BY <1>3, OnlyJoined DEF Served
<1>8. \A d \in Connection, g \in Group : dragLocks'[g] = Owner[d] =>
        /\ dragLocks[g] = Owner[d]
        /\ ~(d = c /\ Wanted(c).type = "release" /\ Wanted(c).group = g)
  BY <1>1
<1> QED
  BY <1>1, <1>3, <1>4, <1>5, <1>6, <1>7, <1>8, WorkKeeps

LEMMA HandleGrabKeeps ==
  ASSUME SyncIInv, NEW c \in Connection, HandleGrab(c)
  PROVE  SyncIInv'
<1> DEFINE g == Wanted(c).group
           m == [type |-> "locked", group |-> g, player |-> Owner[c]]
<1>1. /\ toServer[c] # <<>> /\ Wanted(c).type = "grab" /\ Served(c) /\ UNCHANGED upToDate
  BY DEF HandleGrab, Asks, Wanted, Take, Served, pagesUnchanged, pageVars, historyVars
<1>2. /\ RoomInv /\ SyncTypes /\ \A d \in Connection : PageInv(d)
      /\ c \in connections /\ g \in Group /\ UNCHANGED view
  BY <1>1, OnlyJoined, WantedFields DEF SyncIInv, Served
<1>3. CASE GrabGroup(c, g) /\ Broadcast(c, <<m>>)
  <2>1. /\ RoomInv' /\ dragLocks' = [dragLocks EXCEPT ![g] = Owner[c]]
        /\ UNCHANGED <<puzzleVars, peopleVars, connections>>
    BY <1>2, <1>3, GrabKeeps DEF GrabGroup, peopleVars
  <2>2. m \in ToClient /\ m.type = "locked" /\ m.group = g /\ m.player = Owner[c]
    BY <1>2, OwnerAssumption DEF ToClient
  <2> HIDE DEF m, g
  <2>3. /\ toClient' \in [Connection -> Seq(ToClient)]
        /\ \A d \in Connection : toClient'[d] = IF d \in connections
                                                THEN Append(toClient[d], m) ELSE toClient[d]
    BY <1>2, <1>3, <2>2, TellOne DEF Broadcast
  <2>4. \A h \in Group : dragLocks'[h] = IF h = g THEN Owner[c] ELSE dragLocks[h]
    BY <1>2, <2>1 DEF RoomInv, TypeOK
  <2>5. ASSUME NEW d \in Connection
        PROVE  PageAgrees(d)'
    <3>1. Hand(d) \subseteq Hand(d)'
      BY <1>1, <1>2, HandStays
    <3> QED
      BY <1>1, <1>2, <2>1, <2>2, <2>3, <3>1, AgreesUntold
  <2>6. ASSUME NEW d \in Connection, d \in connections
        PROVE  PageLocks(d)'
    <3>1. PageLocks(d) /\ toClient'[d] = Append(toClient[d], m)
      BY <1>2, <2>3, <2>6 DEF PageInv
    <3>2. \A h \in Group : ~Touches(m, h) => dragLocks'[h] = dragLocks[h]
      BY <2>2, <2>4 DEF Touches
    <3>3. dragLocks'[m.group] = m.player
      BY <1>2, <2>2, <2>4
    <3> QED
      BY <1>2, <2>2, <2>6, <3>1, <3>2, <3>3, LocksTold
  <2>7. \A d \in Connection, h \in Group : dragLocks'[h] = Owner[d] =>
          \/ dragLocks[h] = Owner[d]
          \/ d = c /\ Wanted(c).group = h
          \/ \E e \in connections : Owner[e] = Owner[d] /\ e # d
    BY <1>2, <2>4 DEF g
  <2>8. \A d \in Connection : d \notin connections => toClient'[d] = toClient[d]
    BY <2>3
  <2> QED
    BY <1>1, <2>1, <2>3, <2>5, <2>6, <2>7, <2>8, WorkKeeps
<1>4. CASE Answer(c, Refusal) /\ UNCHANGED vars
  BY <1>1, <1>4, RefusalKeeps
<1> QED
  BY <1>3, <1>4 DEF HandleGrab

LEMMA UnlockedFields ==
  ASSUME NEW G \in SUBSET Group
  PROVE  /\ Unlocked(G) \in ToClient /\ Unlocked(G).type = "unlocked"
         /\ \A g \in Group : Touches(Unlocked(G), g) <=> g \in G
BY DEF Unlocked, ToClient, Touches

LEMMA HandleReleaseKeeps ==
  ASSUME SyncIInv, NEW c \in Connection, HandleRelease(c)
  PROVE  SyncIInv'
<1> DEFINE g == Wanted(c).group
<1>1. /\ toServer[c] # <<>> /\ Wanted(c).type = "release" /\ Served(c) /\ UNCHANGED upToDate
  BY DEF HandleRelease, Asks, Wanted, Take, Served, pagesUnchanged, pageVars, historyVars
<1>2. /\ RoomInv /\ SyncTypes /\ \A d \in Connection : PageInv(d)
      /\ c \in connections /\ g \in Group /\ UNCHANGED view
  BY <1>1, OnlyJoined, WantedFields DEF SyncIInv, Served
<1>3. CASE ReleaseGroup(c, g) /\ Broadcast(c, <<Unlocked({g})>>)
  <2>1. /\ RoomInv' /\ dragLocks' = [dragLocks EXCEPT ![g] = NoPlayer]
        /\ UNCHANGED <<puzzleVars, peopleVars, connections>>
    BY <1>2, <1>3, ReleaseKeeps DEF ReleaseGroup, peopleVars, Released
  <2>2. PICK m \in ToClient : /\ m.type = "unlocked" /\ Broadcast(c, <<m>>)
                              /\ \A h \in Group : Touches(m, h) <=> h = g
    <3>1. PICK G \in SUBSET Group : G = {g}
      BY <1>2
    <3>2. /\ Unlocked(G) \in ToClient /\ Unlocked(G).type = "unlocked"
          /\ \A h \in Group : Touches(Unlocked(G), h) <=> h \in G
      BY UnlockedFields
    <3> QED
      BY <1>3, <3>1, <3>2
  <2> HIDE DEF g
  <2>3. /\ toClient' \in [Connection -> Seq(ToClient)]
        /\ \A d \in Connection : toClient'[d] = IF d \in connections
                                                THEN Append(toClient[d], m) ELSE toClient[d]
    BY <1>2, <2>2, TellOne DEF Broadcast
  <2>4. \A h \in Group : dragLocks'[h] = IF h = g THEN NoPlayer ELSE dragLocks[h]
    BY <1>2, <2>1 DEF RoomInv, TypeOK
  <2>5. ASSUME NEW d \in Connection
        PROVE  PageAgrees(d)'
    <3>1. Hand(d) \subseteq Hand(d)'
      BY <1>1, <1>2, HandStays
    <3> QED
      BY <1>1, <1>2, <2>1, <2>2, <2>3, <3>1, AgreesUntold
  <2>6. ASSUME NEW d \in Connection, d \in connections
        PROVE  PageLocks(d)'
    <3>1. PageLocks(d) /\ toClient'[d] = Append(toClient[d], m)
      BY <1>2, <2>3, <2>6 DEF PageInv
    <3>2. \A h \in Group : ~Touches(m, h) => dragLocks'[h] = dragLocks[h]
      BY <2>2, <2>4
    <3> QED
      BY <1>2, <2>2, <2>6, <3>1, <3>2, LocksTold
  <2>7. \A d \in Connection, h \in Group : dragLocks'[h] = Owner[d] =>
          dragLocks[h] = Owner[d] /\ Wanted(c).group # h
    BY <1>2, <2>4, OwnerAssumption, NoneAssumption DEF g
  <2>8. \A d \in Connection : d \notin connections => toClient'[d] = toClient[d]
    BY <2>3
  <2> QED
    BY <1>1, <2>1, <2>3, <2>5, <2>6, <2>7, <2>8, WorkKeeps
<1>4. CASE dragLocks[g] # Owner[c] /\ UNCHANGED <<vars, toClient>>
  BY <1>1, <1>4, RefusalKeeps
<1> QED
  BY <1>3, <1>4 DEF HandleRelease

LEMMA HandlePauseKeeps ==
  ASSUME SyncIInv, NEW c \in Connection, HandlePause(c)
  PROVE  SyncIInv'
<1> DEFINE n == [type |-> "paused"]
<1>1. /\ toServer[c] # <<>> /\ Wanted(c).type = "pause" /\ Served(c) /\ UNCHANGED upToDate
  BY DEF HandlePause, Asks, Wanted, Take, Served, pagesUnchanged, pageVars, historyVars
<1>2. /\ RoomInv /\ SyncTypes /\ \A d \in Connection : PageInv(d)
      /\ c \in connections /\ UNCHANGED view
  BY <1>1, OnlyJoined DEF SyncIInv, Served
<1>3. CASE Pause(c) /\ Broadcast(c, <<Unlocked({g \in Group : dragLocks[g] # NoPlayer}), n>>)
  <2>1. /\ RoomInv' /\ dragLocks' = [g \in Group |-> NoPlayer]
        /\ UNCHANGED <<puzzleVars, peopleVars, connections>>
    BY <1>2, <1>3, TimerKeeps DEF Pause, peopleVars, AllLocksReleased
  <2>2. PICK m \in ToClient : /\ m.type = "unlocked" /\ Broadcast(c, <<m, n>>)
                              /\ \A h \in Group : Touches(m, h) <=> dragLocks[h] # NoPlayer
    <3>1. PICK G \in SUBSET Group : G = {g \in Group : dragLocks[g] # NoPlayer}
      OBVIOUS
    <3>2. /\ Unlocked(G) \in ToClient /\ Unlocked(G).type = "unlocked"
          /\ \A h \in Group : Touches(Unlocked(G), h) <=> h \in G
      BY UnlockedFields
    <3> QED
      BY <1>3, <3>1, <3>2
  <2>2a. n \in ToClient /\ n.type = "paused"
    BY DEF ToClient
  <2> HIDE DEF n
  <2>3. /\ toClient' \in [Connection -> Seq(ToClient)]
        /\ \A d \in Connection :
             toClient'[d] = IF d \in connections THEN Append(Append(toClient[d], m), n)
                            ELSE toClient[d]
    BY <1>2, <2>2, <2>2a, TellTwo DEF Broadcast
  <2>4. \A h \in Group : dragLocks'[h] = NoPlayer
    BY <2>1
  <2>5. ASSUME NEW d \in Connection
        PROVE  PageAgrees(d)'
    <3>1. Hand(d) \subseteq Hand(d)'
      BY <1>1, <1>2, HandStays
    <3> QED
      BY <1>1, <1>2, <2>1, <2>2, <2>2a, <2>3, <3>1, AgreesUntold
  <2>6. ASSUME NEW d \in Connection, d \in connections
        PROVE  PageLocks(d)'
    <3>1. PageLocks(d) /\ toClient'[d] = Append(Append(toClient[d], m), n)
      BY <1>2, <2>3, <2>6 DEF PageInv
    <3>2. \A h \in Group : ~Touches(m, h) => dragLocks'[h] = dragLocks[h]
      BY <2>2, <2>4
    <3> QED
      BY <1>2, <2>2, <2>2a, <2>6, <3>1, <3>2, LocksTold
  <2>7. \A d \in Connection, h \in Group : dragLocks'[h] # Owner[d]
    BY <2>4, OwnerAssumption, NoneAssumption
  <2>8. \A d \in Connection : d \notin connections => toClient'[d] = toClient[d]
    BY <2>3
  <2> QED
    BY <1>1, <2>1, <2>3, <2>5, <2>6, <2>7, <2>8, WorkKeeps
<1>4. CASE UNCHANGED <<vars, toClient>>
  BY <1>1, <1>4, RefusalKeeps
<1> QED
  BY <1>3, <1>4 DEF HandlePause

LEMMA HandleResumeKeeps ==
  ASSUME SyncIInv, NEW c \in Connection, HandleResume(c)
  PROVE  SyncIInv'
<1> DEFINE m == [type |-> "resumed"]
<1>1. /\ toServer[c] # <<>> /\ Wanted(c).type = "resume" /\ Served(c) /\ UNCHANGED upToDate
  BY DEF HandleResume, Asks, Wanted, Take, Served, pagesUnchanged, pageVars, historyVars
<1>2. /\ RoomInv /\ SyncTypes /\ \A d \in Connection : PageInv(d)
      /\ c \in connections /\ UNCHANGED view
  BY <1>1, OnlyJoined DEF SyncIInv, Served
<1>3. CASE Resume(c) /\ Broadcast(c, <<m>>)
  <2>1. /\ RoomInv' /\ dragLocks' = dragLocks
        /\ UNCHANGED <<puzzleVars, peopleVars, connections>>
    BY <1>2, <1>3, TimerKeeps DEF Resume, peopleVars, lockVars
  <2>2. m \in ToClient /\ m.type = "resumed"
    BY DEF ToClient
  <2> HIDE DEF m
  <2>3. /\ toClient' \in [Connection -> Seq(ToClient)]
        /\ \A d \in Connection : toClient'[d] = IF d \in connections
                                                THEN Append(toClient[d], m) ELSE toClient[d]
    BY <1>2, <1>3, <2>2, TellOne DEF Broadcast
  <2>5. ASSUME NEW d \in Connection
        PROVE  PageAgrees(d)'
    <3>1. Hand(d) \subseteq Hand(d)'
      BY <1>1, <1>2, HandStays
    <3> QED
      BY <1>1, <1>2, <2>1, <2>2, <2>3, <3>1, AgreesUntold
  <2>6. ASSUME NEW d \in Connection, d \in connections
        PROVE  PageLocks(d)'
    <3>1. PageLocks(d) /\ toClient'[d] = Append(toClient[d], m)
      BY <1>2, <2>3, <2>6 DEF PageInv
    <3> QED
      BY <1>2, <2>1, <2>2, <2>6, <3>1, LocksTold
  <2>8. \A d \in Connection : d \notin connections => toClient'[d] = toClient[d]
    BY <2>3
  <2> QED
    BY <1>1, <2>1, <2>3, <2>5, <2>6, <2>8, WorkKeeps
<1>4. CASE UNCHANGED <<vars, toClient>>
  BY <1>1, <1>4, RefusalKeeps
<1> QED
  BY <1>3, <1>4 DEF HandleResume

LEMMA HandleDropKeeps ==
  ASSUME SyncIInv, NEW c \in Connection, HandleDrop(c)
  PROVE  SyncIInv'
<1>1. /\ toServer[c] # <<>> /\ Wanted(c).type = "drop" /\ Served(c) /\ UNCHANGED upToDate
      /\ UNCHANGED <<vars, toClient>>
  BY DEF HandleDrop, Asks, Wanted, Take, Served, pageVars, historyVars
<1> QED
  BY <1>1, RefusalKeeps

LEMMA HandleArrangeKeeps ==
  ASSUME SyncIInv, NEW c \in Connection, HandleArrange(c)
  PROVE  SyncIInv'
<1> DEFINE m == [type |-> "arranged", puzzle |-> Puzzle',
                 pieces |-> UNION {pieceIds[g] : g \in LooseGroups}]
<1>1. /\ toServer[c] # <<>> /\ Wanted(c).type = "arrange" /\ Served(c) /\ UNCHANGED upToDate
  BY DEF HandleArrange, Asks, Wanted, Take, Served, pagesUnchanged, pageVars, historyVars
<1>2. /\ RoomInv /\ SyncTypes /\ \A d \in Connection : PageInv(d)
      /\ c \in connections /\ UNCHANGED view
  BY <1>1, OnlyJoined DEF SyncIInv, Served
<1>3. CASE ArrangeGroups(c) /\ Broadcast(c, <<m>>)
  <2>1. RoomInv' /\ UNCHANGED <<dragLocks, peopleVars, connections>>
    BY <1>2, <1>3, ArrangeKeeps DEF ArrangeGroups, peopleVars, roomVars
  <2>2. PuzzleInv /\ PuzzleInv' /\ ArrangeLoosePieces
    BY <1>2, <1>3, <2>1 DEF RoomInv, ArrangeGroups
  <2>3. /\ m \in ToClient /\ m.type = "arranged" /\ m.puzzle = Puzzle'
        /\ m.pieces = UNION {pieceIds[g] : g \in LooseGroups}
    <3>1. UNION {pieceIds[g] : g \in LooseGroups} \in SUBSET Piece
      BY <2>2 DEF PuzzleInv, PuzzleTypeOK, LooseGroups
    <3>2. Puzzle' \in PuzzleRecord
      BY <2>2, NextPuzzle
    <3> QED
      BY <3>1, <3>2 DEF ToClient
  <2> HIDE DEF m
  <2>4. PICK D \in SUBSET Group : D = {}
    OBVIOUS
  <2>5. CarriesOn(m, D)
    BY <2>2, <2>3, <2>4, CarriesArranged DEF CarriesOn
  <2>6. /\ toClient' \in [Connection -> Seq(ToClient)]
        /\ \A d \in Connection : toClient'[d] = IF d \in connections
                                                THEN Append(toClient[d], m) ELSE toClient[d]
    BY <1>2, <1>3, <2>3, TellOne DEF Broadcast
  <2>7. PICK n \in ToClient : n.type = "paused"
    BY <1>2, StateMessage
  <2>8. ASSUME NEW d \in Connection
        PROVE  PageAgrees(d)'
    <3>1. Hand(d) \ D \subseteq Hand(d)'
      BY <1>1, <1>2, HandStays
    <3> QED
      BY <1>1, <1>2, <2>1, <2>2, <2>3, <2>5, <2>6, <2>7, <3>1, AgreesTold
  <2>9. ASSUME NEW d \in Connection, d \in connections
        PROVE  PageLocks(d)'
    <3>1. PageLocks(d) /\ toClient'[d] = Append(toClient[d], m)
      BY <1>2, <2>6, <2>9 DEF PageInv
    <3> QED
      BY <1>2, <2>1, <2>3, <2>9, <3>1, LocksTold
  <2>10. \A d \in Connection : d \notin connections => toClient'[d] = toClient[d]
    BY <2>6
  <2> QED
    BY <1>1, <2>1, <2>6, <2>8, <2>9, <2>10, WorkKeeps
<1>4. CASE UNCHANGED <<vars, toClient>>
  BY <1>1, <1>4, RefusalKeeps
<1> QED
  BY <1>3, <1>4 DEF HandleArrange

\* A move of the server is one of a whole group.
LEMMA MoveIsLocal ==
  ASSUME PuzzleInv, NEW g \in Group, NEW t \in Int, Exists(g), g \notin lockedGroups,
         MoveGroupToAnchor(g, t), NEW Y \in SUBSET Group, Y = {g}
  PROVE  MovesOnly(Puzzle, Puzzle', Y)
<1>1. PuzzleInv'
  BY MovePreserves
<1>2. \A x \in Piece : x \in pieceIds[g] <=> groupOf[x] = g
  BY DEF PuzzleInv, GroupIndex
<1>3. /\ \A x \in Piece : offset'[x] = IF x \in pieceIds[g] THEN t ELSE offset[x]
      /\ placed' = placed \ pieceIds[g]
      /\ UNCHANGED <<pieceIds, groupOf, lockedGroups, lockedPieces>>
  BY MovedOffsets DEF MoveGroupToAnchor, PlacedAfterMove
<1>4. SameParts(Puzzle', Puzzle)
  BY <1>3 DEF SameParts, Puzzle
<1>5. Whole(Puzzle')
  BY <1>1, NextPuzzle
<1>6. \A x \in Piece : Puzzle.groupOf[x] \notin Y =>
        /\ Puzzle'.offset[x] = Puzzle.offset[x]
        /\ x \in Puzzle'.placed <=> x \in Puzzle.placed
  BY <1>2, <1>3 DEF Puzzle
<1> QED
  BY <1>4, <1>5, <1>6 DEF MovesOnly

\* The page that sends a move is not told of it.
LEMMA AgreesMover ==
  ASSUME SyncTypes, NEW c \in Connection, PageInv(c), c \in connections, Served(c),
         Wanted(c).type = "move", PuzzleInv', NEW Y \in SUBSET Group, Y = {Wanted(c).group},
         MovesOnly(Puzzle, Puzzle', Y), UNCHANGED upToDate, toClient'[c] = toClient[c]
  PROVE  PageAgrees(c)'
<1>1. PICK s : At(c, s)
  BY AtSome
<1>2. s \in Stage /\ toClient[c] \in Seq(ToClient) /\ Runs(view[c].puzzle, toClient[c], s)
  BY <1>1, PageTypes DEF At
<1>3. PICK u \in Stage : u.puzzle = Puzzle' /\ u.sure = s.sure /\ u.open = s.open \cup Y
  <2> DEFINE u == [puzzle |-> Puzzle', sure |-> s.sure, open |-> s.open \cup Y]
  <2>1. u \in Stage
    BY <1>2, StageFacts, NextPuzzle DEF Stage
  <2> QED
    BY <2>1
<1>4. MovesOnly(s.puzzle, u.puzzle, Y)
  BY <1>1, <1>3 DEF At
<1>5. Runs(view[c].puzzle, toClient[c], u)
  BY <1>2, <1>3, <1>4, PageTypes, RunsUntold
<1>6. ASSUME upToDate[c]
      PROVE  Wanted(c).group \in Hand(c)'
  <2>1. /\ toServer[c] # <<>> /\ toServer[c] \in Seq(ToServer) /\ UNCHANGED drag
        /\ Wanted(c).group \in Group
    BY PageTypes, WantedFields DEF Served
  <2>2. 1 \in DOMAIN toServer[c] /\ toServer[c][1] = Wanted(c)
    BY <2>1 DEF Wanted
  <2>3. \/ InHand(drag[c], Wanted(c).group)
        \/ Later(toServer[c], {"drop"}, Wanted(c).group, 0 + 1)
    BY <1>6, <2>2 DEF PageInv, PageDrags, Ended
  <2>4. CASE Later(toServer[c], {"drop"}, Wanted(c).group, 0 + 1)
    <3>1. Later(Tail(toServer[c]), {"drop"}, Wanted(c).group, 0)
      BY <2>1, <2>4, LaterTail
    <3>2. Later(toServer'[c], {"drop"}, Wanted(c).group, 0)
      BY <3>1, ServedFields
    <3> QED
      BY <2>1, <3>2 DEF Hand
  <2>5. CASE InHand(drag[c], Wanted(c).group)
    BY <2>1, <2>5 DEF Hand
  <2> QED
    BY <2>3, <2>4, <2>5
<1>7. upToDate'[c] => u.sure /\ u.open \subseteq Hand(c)'
  <2>1. Hand(c) \subseteq Hand(c)'
    BY HandStays
  <2> QED
    BY <1>1, <1>3, <1>6, <2>1 DEF At
<1>8. Runs(view'[c].puzzle, toClient'[c], u)
  BY <1>5 DEF Served
<1> QED
  BY <1>3, <1>7, <1>8, AtNext

LEMMA HandleMoveKeeps ==
  ASSUME SyncIInv, NEW c \in Connection, HandleMove(c)
  PROVE  SyncIInv'
<1> DEFINE g == Wanted(c).group
           t == Wanted(c).to
           m == [type |-> "moved", group |-> g, to |-> t]
<1>1. /\ toServer[c] # <<>> /\ Wanted(c).type = "move" /\ Served(c) /\ UNCHANGED upToDate
  BY DEF HandleMove, Asks, Wanted, Take, Served, pagesUnchanged, pageVars, historyVars
<1>2. /\ RoomInv /\ SyncTypes /\ \A d \in Connection : PageInv(d)
      /\ c \in connections /\ g \in Group /\ t \in Int /\ UNCHANGED view
  BY <1>1, OnlyJoined, WantedFields DEF SyncIInv, Served
<1>3. CASE Answer(c, Refusal) /\ UNCHANGED vars
  BY <1>1, <1>3, RefusalKeeps
<1>4. CASE /\ MoveGroup(c, g, t)
           /\ BroadcastExcept({c}, IF Exists(g) /\ g \notin lockedGroups THEN <<m>> ELSE <<>>)
  <2>1. /\ RoomInv' /\ UNCHANGED <<roomVars, dragLocks, peopleVars, connections>>
        /\ MoveGroupToAnchor(g, t) /\ dragLocks[g] = Owner[c]
    BY <1>2, <1>4, MoveKeeps DEF MoveGroup, peopleVars, roomVars
  <2>2. PuzzleInv /\ PuzzleInv'
    BY <1>2, <2>1 DEF RoomInv
  <2>3. g \notin lockedGroups
    BY <1>2, <2>1, OwnerAssumption, NoneAssumption DEF RoomInv, DraggedGroupsAreLoose
  <2>4. CASE ~Exists(g)
    <3>1. UNCHANGED puzzleVars
      BY <1>2, <2>1, <2>2, <2>4, DeadGroupsStay
    <3>2. UNCHANGED vars
      BY <2>1, <3>1 DEF vars
    <3>3. toClient' = toClient
      BY <1>2, <1>4, <2>4, TellNone
    <3> QED
      BY <1>1, <3>2, <3>3, RefusalKeeps
  <2>5. CASE Exists(g)
    <3>1. m \in ToClient /\ m.type = "moved" /\ m.group = g /\ m.to = t
      BY <1>2 DEF ToClient
    <3>2. BroadcastExcept({c}, <<m>>)
      BY <1>4, <2>3, <2>5
    <3> HIDE DEF m
    <3>3. PICK D \in SUBSET Group : D = {}
      OBVIOUS
    <3>4. CarriesOn(m, D)
      BY <1>2, <2>1, <2>2, <2>3, <2>5, <3>1, <3>3, CarriesMoved DEF CarriesOn
    <3>5. /\ toClient' \in [Connection -> Seq(ToClient)]
          /\ \A d \in Connection : toClient'[d] = IF d \in connections \ {c}
                                                  THEN Append(toClient[d], m) ELSE toClient[d]
      BY <1>2, <3>1, <3>2, TellOne
    <3>6. PICK n \in ToClient : n.type = "paused"
      BY <1>2, StateMessage
    <3>7. ASSUME NEW d \in Connection
          PROVE  PageAgrees(d)'
      <4>1. CASE d # c
        <5>1. Hand(d) \ D \subseteq Hand(d)'
          BY <1>1, <1>2, HandStays
        <5>2. d \in connections => toClient'[d] = Append(toClient[d], m)
          BY <3>5, <4>1
        <5> QED
          BY <1>1, <1>2, <2>1, <2>2, <3>1, <3>4, <3>6, <5>1, <5>2, AgreesTold
      <4>2. CASE d = c
        <5>1. PICK Y \in SUBSET Group : Y = {g}
          BY <1>2
        <5>2. MovesOnly(Puzzle, Puzzle', Y)
          BY <1>2, <2>1, <2>2, <2>3, <2>5, <5>1, MoveIsLocal
        <5>3. toClient'[c] = toClient[c]
          BY <3>5
        <5>4. PageAgrees(c)'
          BY <1>1, <1>2, <2>2, <5>1, <5>2, <5>3, AgreesMover
        <5> QED
          BY <4>2, <5>4
      <4> QED
        BY <4>1, <4>2
    <3>8. ASSUME NEW d \in Connection, d \in connections
          PROVE  PageLocks(d)'
      <4>1. PageLocks(d) /\ (toClient'[d] = toClient[d] \/ toClient'[d] = Append(toClient[d], m))
        BY <1>2, <3>5, <3>8 DEF PageInv
      <4> QED
        BY <1>2, <2>1, <3>1, <3>8, <4>1, LocksTold
    <3>9. \A d \in Connection : d \notin connections => toClient'[d] = toClient[d]
      BY <3>5
    <3> QED
      BY <1>1, <2>1, <3>5, <3>7, <3>8, <3>9, WorkKeeps
  <2> QED
    BY <2>4, <2>5
<1> QED
  BY <1>3, <1>4 DEF HandleMove

\* What everyone is told of a drop carries their copies along.
LEMMA DropTold ==
  ASSUME RoomInv, NEW c \in Connection, NEW g \in Group, NEW t \in Int, DropGroup(c, g, t),
         PuzzleInv', NEW D \in SUBSET Group, D = {g}
  PROVE  /\ DropMessage(g) \in ToClient /\ DropMessage(g).type \in {"patch", "moved"}
         /\ CarriesOn(DropMessage(g), D)
<1>1. PuzzleInv /\ SnapDroppedGroup(g, t) /\ g \notin lockedGroups
  BY OwnerAssumption, NoneAssumption DEF RoomInv, DropGroup, DraggedGroupsAreLoose
<1>2. CASE DropCorrect(g, t) \/ DropNeighbor(g, t)
  <2>1. OnlyWithin(g) /\ snapCount' # snapCount
    BY <1>1, <1>2, CorrectWithin, JoinWithin
  <2> DEFINE m == [type |-> "patch", puzzle |-> Puzzle', pieces |-> pieceIds'[g],
                   removed |-> {h \in Group : Exists(h) /\ pieceIds'[h] = {}}]
  <2>2. DropMessage(g) = m
    BY <2>1 DEF DropMessage
  <2>3. /\ m \in ToClient /\ m.type = "patch" /\ m.puzzle = Puzzle' /\ m.pieces = pieceIds'[g]
        /\ m.removed = {h \in Group : Exists(h) /\ pieceIds'[h] = {}}
    <3>1. Puzzle' \in PuzzleRecord /\ pieceIds'[g] \in SUBSET Piece
      BY NextPuzzle DEF PuzzleInv, PuzzleTypeOK
    <3> QED
      BY <3>1 DEF ToClient
  <2> HIDE DEF m
  <2>4. CarriesOn(m, D)
    BY <1>1, <2>1, <2>3, CarriesPatch DEF CarriesOn
  <2> QED
    BY <2>2, <2>3, <2>4
<1>3. CASE DropLoose(g, t)
  <2>1. MoveGroupToAnchor(g, t) /\ snapCount' = snapCount
    BY <1>3 DEF DropLoose, MoveGroupToAnchor
  <2> DEFINE m == [type |-> "moved", group |-> g, to |-> offset'[g]]
  <2>2. DropMessage(g) = m
    BY <2>1 DEF DropMessage
  <2>3. m \in ToClient /\ m.type = "moved" /\ m.group = g /\ m.to = offset'[g]
    <3>1. offset'[g] \in Int
      BY DEF PuzzleInv, PuzzleTypeOK, Group
    <3> QED
      BY <3>1 DEF ToClient
  <2> HIDE DEF m
  <2>4. CASE Exists(g)
    <3>1. m.to = t
      BY <1>1, <2>1, <2>3, <2>4, MovedOffsets DEF MoveGroupToAnchor, PuzzleInv, GroupIndex, Group
    <3>2. CarriesOn(m, D)
      BY <1>1, <2>1, <2>3, <2>4, <3>1, CarriesMoved DEF CarriesOn
    <3> QED
      BY <2>2, <2>3, <3>2
  <2>5. CASE ~Exists(g)
    <3>1. UNCHANGED puzzleVars
      BY <1>1, <2>1, <2>5, DeadGroupsStay
    <3>2. Puzzle' = Puzzle /\ Puzzle.pieceIds[g] = {}
      BY <2>5, <3>1 DEF Puzzle, puzzleVars, Exists
    <3>3. CarriesOn(m, D)
      BY <2>3, <3>2, CarriesDead DEF CarriesOn
    <3> QED
      BY <2>2, <2>3, <3>3
  <2> QED
    BY <2>4, <2>5
<1> QED
  BY <1>1, <1>2, <1>3 DEF SnapDroppedGroup

\* The drop at the head of the queue, whatever becomes of it.
LEMMA RunKeeps ==
  ASSUME SyncIInv, NEW c \in Connection, NEW g \in Group, commands # <<>>,
         Head(commands)[1] = c, Head(commands)[2] = g, commands' = Tail(commands),
         UNCHANGED <<toServer, view, drag, gestures, silent, peopleVars>>, RoomInv',
         toClient' \in [Connection -> Seq(ToClient)], upToDate' \in [Connection -> BOOLEAN],
         \A d \in Connection : upToDate'[d] => upToDate[d],
         \A d \in Connection : d \notin connections => toClient'[d] = toClient[d],
         \A d \in Connection, h \in Group : dragLocks'[h] = Owner[d] =>
           dragLocks[h] = Owner[d] /\ ~(d = c /\ h = g),
         \A d \in Connection : PageAgrees(d)',
         \A d \in Connection : d \in connections => PageLocks(d)'
  PROVE  SyncIInv'
<1>1. SyncTypes /\ \A d \in Connection : PageInv(d)
  BY DEF SyncIInv
<1>2. UNCHANGED connections /\ leaving' = leaving /\ commands \in Seq(Command)
  BY <1>1 DEF peopleVars, SyncTypes
<1>3. SyncTypes'
  BY <1>1, <1>2 DEF SyncTypes
<1>4. ASSUME NEW d \in Connection
      PROVE  PageInv(d)'
  <2>1. PageOpens(d)'
    BY <1>1, <1>2 DEF PageInv, PageOpens
  <2>2. PageDrags(d)'
    BY <1>1 DEF PageInv, PageDrags
  <2>3. PageLocks(d)'
    BY <1>2 DEF PageLocks
  <2>4. PageHolds(d)'
    <3> SUFFICES ASSUME d \in connections, ~silent[d], OnlyPage(d)', NEW h \in Group,
                        dragLocks'[h] = Owner[d]
                 PROVE  \/ InHand(drag[d], h)
                        \/ Later(toServer[d], {"drop", "release"}, h, 0)
                        \/ QueuedIn(commands', d, h)
      BY <1>2 DEF PageHolds
    <3>1. OnlyPage(d) /\ dragLocks[h] = Owner[d] /\ ~(d = c /\ h = g)
      BY <1>2 DEF OnlyPage
    <3>2. \/ InHand(drag[d], h)
          \/ Later(toServer[d], {"drop", "release"}, h, 0)
          \/ QueuedIn(commands, d, h)
      BY <1>1, <3>1 DEF PageInv, PageHolds
    <3> QED
      BY <1>2, <3>1, <3>2, QueuedTail
  <2> QED
    BY <2>1, <2>2, <2>3, <2>4 DEF PageInv
<1> QED
  BY <1>3, <1>4 DEF SyncIInv

\* The pages that have other drops waiting keep them.
LEMMA RunHand ==
  ASSUME SyncTypes, commands # <<>>, commands' = Tail(commands), UNCHANGED <<toServer, drag>>,
         NEW d \in Connection
  PROVE  /\ Hand(d) \ {Head(commands)[2]} \subseteq Hand(d)'
         /\ d # Head(commands)[1] => Hand(d) \subseteq Hand(d)'
<1>1. commands \in Seq(Command)
  BY DEF SyncTypes
<1>2. \A h : QueuedIn(commands, d, h) /\ ~(Head(commands)[1] = d /\ Head(commands)[2] = h)
               => QueuedIn(commands', d, h)
  BY <1>1, QueuedTail
<1> QED
  BY <1>2 DEF Hand

LEMMA RunDropKeeps ==
  ASSUME SyncIInv, RunDrop
  PROVE  SyncIInv'
<1> DEFINE c == Head(commands)[1]
           g == Head(commands)[2]
           t == Head(commands)[3]
<1>1. /\ RoomInv /\ SyncTypes /\ \A d \in Connection : PageInv(d)
      /\ commands # <<>> /\ commands' = Tail(commands)
      /\ UNCHANGED <<toServer, view, drag, gestures, silent>>
  BY DEF SyncIInv, RunDrop, pageVars
<1>2. c \in Connection /\ g \in Group /\ t \in Int
  <2>1. Head(commands) \in Command
    BY <1>1 DEF SyncTypes
  <2> QED
    BY <2>1 DEF Command
<1>3. \/ /\ DropGroup(c, g, t) /\ Broadcast(c, <<DropMessage(g), Unlocked({g})>>)
         /\ UNCHANGED upToDate
      \/ /\ DropRejected(c, g) /\ Broadcast(c, <<Unlocked({g})>>)
         /\ upToDate' = [upToDate EXCEPT ![c] = FALSE]
      \/ /\ dragLocks[g] # Owner[c] /\ UNCHANGED <<vars, toClient>>
         /\ upToDate' = [upToDate EXCEPT ![c] = FALSE]
  BY DEF RunDrop
<1>4. PICK D \in SUBSET Group : D = {g}
  BY <1>2
<1>5. PICK n \in ToClient : /\ n = Unlocked({g}) /\ n.type = "unlocked"
                            /\ \A h \in Group : Touches(n, h) <=> h = g
  <2>1. /\ Unlocked(D) \in ToClient /\ Unlocked(D).type = "unlocked"
        /\ \A h \in Group : Touches(Unlocked(D), h) <=> h \in D
    BY UnlockedFields
  <2> QED
    BY <1>4, <2>1
<1>6. \A d \in Connection : /\ Hand(d) \ D \subseteq Hand(d)'
                            /\ d # c => Hand(d) \subseteq Hand(d)'
  BY <1>1, <1>4, RunHand
<1>7. Head(commands)[1] = c /\ Head(commands)[2] = g
  OBVIOUS
<1> HIDE DEF c, g, t
<1>8. CASE /\ DropGroup(c, g, t) /\ Broadcast(c, <<DropMessage(g), Unlocked({g})>>)
           /\ UNCHANGED upToDate
  <2>1. /\ RoomInv' /\ dragLocks' = [dragLocks EXCEPT ![g] = NoPlayer]
        /\ UNCHANGED <<peopleVars, connections>>
    BY <1>1, <1>2, <1>8, DropKeeps DEF DropGroup, Released, peopleVars
  <2>2. PuzzleInv'
    BY <2>1 DEF RoomInv
  <2>3. PICK m \in ToClient : /\ m = DropMessage(g) /\ m.type \in {"patch", "moved"}
                              /\ CarriesOn(m, D)
    BY <1>1, <1>2, <1>4, <1>8, <2>2, DropTold
  <2>4. /\ toClient' \in [Connection -> Seq(ToClient)]
        /\ \A d \in Connection :
             toClient'[d] = IF d \in connections THEN Append(Append(toClient[d], m), n)
                            ELSE toClient[d]
    BY <1>1, <1>5, <1>8, <2>3, TellTwo DEF Broadcast
  <2>5. \A h \in Group : dragLocks'[h] = IF h = g THEN NoPlayer ELSE dragLocks[h]
    BY <1>1, <2>1 DEF RoomInv, TypeOK
  <2>6. ASSUME NEW d \in Connection
        PROVE  PageAgrees(d)'
    BY <1>1, <1>5, <1>6, <1>8, <2>1, <2>2, <2>3, <2>4, AgreesTold
  <2>7. ASSUME NEW d \in Connection, d \in connections
        PROVE  PageLocks(d)'
    <3>1. PageLocks(d) /\ toClient'[d] = Append(Append(toClient[d], m), n)
      BY <1>1, <2>4, <2>7 DEF PageInv
    <3>2. \A h \in Group : ~Touches(n, h) => dragLocks'[h] = dragLocks[h]
      BY <1>5, <2>5
    <3> QED
      BY <1>1, <1>5, <2>3, <2>7, <3>1, <3>2, LocksTold
  <2>8. \A d \in Connection, h \in Group : dragLocks'[h] = Owner[d] =>
          dragLocks[h] = Owner[d] /\ ~(d = c /\ h = g)
    BY <2>5, OwnerAssumption, NoneAssumption
  <2>9. /\ \A d \in Connection : d \notin connections => toClient'[d] = toClient[d]
        /\ \A d \in Connection : upToDate'[d] => upToDate[d]
        /\ upToDate' \in [Connection -> BOOLEAN]
    BY <1>1, <1>8, <2>4 DEF SyncTypes
  <2> QED
    BY <1>1, <1>2, <1>7, <2>1, <2>4, <2>6, <2>7, <2>8, <2>9, RunKeeps
<1>9. CASE /\ DropRejected(c, g) /\ Broadcast(c, <<Unlocked({g})>>)
           /\ upToDate' = [upToDate EXCEPT ![c] = FALSE]
  <2>1. /\ RoomInv' /\ dragLocks' = [dragLocks EXCEPT ![g] = NoPlayer]
        /\ UNCHANGED <<puzzleVars, peopleVars, connections>>
    BY <1>1, <1>2, <1>9, ReleaseKeeps DEF DropRejected, Released, peopleVars
  <2>2. /\ toClient' \in [Connection -> Seq(ToClient)]
        /\ \A d \in Connection : toClient'[d] = IF d \in connections
                                                THEN Append(toClient[d], n) ELSE toClient[d]
    <3>1. Broadcast(c, <<n>>)
      BY <1>5, <1>9
    <3> QED
      BY <1>1, <3>1, TellOne DEF Broadcast
  <2>3. \A h \in Group : dragLocks'[h] = IF h = g THEN NoPlayer ELSE dragLocks[h]
    BY <1>1, <2>1 DEF RoomInv, TypeOK
  <2>4. /\ upToDate' \in [Connection -> BOOLEAN] /\ ~upToDate'[c]
        /\ \A d \in Connection : upToDate'[d] => upToDate[d]
    BY <1>1, <1>2, <1>9 DEF SyncTypes
  <2>5. ASSUME NEW d \in Connection
        PROVE  PageAgrees(d)'
    <3>1. upToDate'[d] => upToDate[d] /\ Hand(d) \subseteq Hand(d)'
      BY <1>6, <2>4
    <3> QED
      BY <1>1, <1>5, <2>1, <2>2, <3>1, AgreesUntold
  <2>6. ASSUME NEW d \in Connection, d \in connections
        PROVE  PageLocks(d)'
    <3>1. PageLocks(d) /\ toClient'[d] = Append(toClient[d], n)
      BY <1>1, <2>2, <2>6 DEF PageInv
    <3>2. \A h \in Group : ~Touches(n, h) => dragLocks'[h] = dragLocks[h]
      BY <1>5, <2>3
    <3> QED
      BY <1>1, <1>5, <2>6, <3>1, <3>2, LocksTold
  <2>7. \A d \in Connection, h \in Group : dragLocks'[h] = Owner[d] =>
          dragLocks[h] = Owner[d] /\ ~(d = c /\ h = g)
    BY <2>3, OwnerAssumption, NoneAssumption
  <2>8. \A d \in Connection : d \notin connections => toClient'[d] = toClient[d]
    BY <2>2
  <2> QED
    BY <1>1, <1>2, <1>7, <2>1, <2>2, <2>4, <2>5, <2>6, <2>7, <2>8, RunKeeps
<1>10. CASE /\ dragLocks[g] # Owner[c] /\ UNCHANGED <<vars, toClient>>
            /\ upToDate' = [upToDate EXCEPT ![c] = FALSE]
  <2>1. /\ RoomInv' /\ UNCHANGED <<puzzleVars, peopleVars, connections, dragLocks, toClient>>
    BY <1>1, <1>10, RoomStill DEF vars, roomVars, peopleVars
  <2>2. /\ upToDate' \in [Connection -> BOOLEAN] /\ ~upToDate'[c]
        /\ \A d \in Connection : upToDate'[d] => upToDate[d]
    BY <1>1, <1>2, <1>10 DEF SyncTypes
  <2>3. ASSUME NEW d \in Connection
        PROVE  PageAgrees(d)'
    <3>1. upToDate'[d] => upToDate[d] /\ Hand(d) \subseteq Hand(d)'
      BY <1>6, <2>2
    <3> QED
      BY <1>1, <1>5, <2>1, <3>1, AgreesUntold
  <2>4. \A d \in Connection : PageLocks(d)'
    BY <1>1, <2>1 DEF PageInv, PageLocks
  <2>5. \A d \in Connection, h \in Group : dragLocks'[h] = Owner[d] =>
          dragLocks[h] = Owner[d] /\ ~(d = c /\ h = g)
    BY <1>10, <2>1
  <2>6. /\ toClient' \in [Connection -> Seq(ToClient)]
        /\ \A d \in Connection : d \notin connections => toClient'[d] = toClient[d]
    BY <1>1, <2>1 DEF SyncTypes
  <2> QED
    BY <1>1, <1>2, <1>7, <2>1, <2>2, <2>3, <2>4, <2>5, <2>6, RunKeeps
<1> QED
  BY <1>3, <1>8, <1>9, <1>10

-----------------------------------------------------------------------------
LEMMA SyncInitial == SyncInit => SyncIInv
<1> SUFFICES ASSUME SyncInit
             PROVE  SyncIInv
  OBVIOUS
<1>1. /\ RoomInv /\ leaving = NoConnection /\ connections = {}
      /\ Puzzle \in PuzzleRecord /\ Parted(Puzzle)
  BY RoomInitial, ServerPuzzle DEF SyncInit, Init, RoomInv
<1>2. /\ toServer = [c \in Connection |-> <<>>] /\ toClient = [c \in Connection |-> <<>>]
      /\ commands = <<>> /\ drag = [c \in Connection |-> NoDrag]
      /\ gestures = 0 /\ upToDate = [c \in Connection |-> TRUE]
      /\ silent = [c \in Connection |-> FALSE]
  BY DEF SyncInit
<1>3. PICK v \in PageRecord : /\ v.puzzle = Puzzle /\ ~v.opened
                              /\ view = [c \in Connection |-> v]
  <2> DEFINE none == [g \in Group |-> NoPlayer]
             v == [puzzle |-> Puzzle, paused |-> FALSE, opened |-> FALSE, locks |-> none]
  <2>1. none \in [Group -> Player \cup {NoPlayer}]
    OBVIOUS
  <2>2. view = [c \in Connection |-> v]
    BY DEF SyncInit
  <2> HIDE DEF none
  <2>3. v \in PageRecord /\ v.puzzle = Puzzle /\ ~v.opened
    BY <1>1, <2>1 DEF PageRecord
  <2> QED
    BY <2>2, <2>3
<1>4. SyncTypes
  BY <1>1, <1>2, <1>3, GesturesAssumption DEF SyncTypes
<1>5. ASSUME NEW c \in Connection
      PROVE  PageInv(c)
  <2>1. toServer[c] = <<>> /\ toClient[c] = <<>> /\ drag[c] = NoDrag /\ DOMAIN <<>> = {}
    BY <1>2
  <2>2. view[c] = v
    BY <1>3
  <2>3. PageOpens(c)
    BY <1>1, <1>3, <2>1, <2>2 DEF PageOpens
  <2>4. PageDrags(c)
    BY <2>1 DEF PageDrags, Ended
  <2> QED
    BY <1>1, <2>3, <2>4 DEF PageInv, PageAgrees, PageLocks, PageHolds
<1> QED
  BY <1>1, <1>4, <1>5 DEF SyncIInv

LEMMA SyncStep == SyncIInv /\ [SyncNext]_syncVars => SyncIInv'
<1> SUFFICES ASSUME SyncIInv, [SyncNext]_syncVars
             PROVE  SyncIInv'
  OBVIOUS
<1>1. ASSUME NEW c \in Connection,
             Open(c) \/ EndDrag(c) \/ CancelDrag(c) \/ Receive(c)
             \/ (\E x \in Piece : StartDrag(c, x)) \/ (\E t \in Offset : MoveDrag(c, t))
             \/ (\E type \in {"arrange", "pause", "resume"} : Click(c, type))
      PROVE  SyncIInv'
  BY <1>1, OpenKeeps, EndDragKeeps, CancelDragKeeps, ReceiveKeeps, StartDragKeeps,
     MoveDragKeeps, ClickKeeps
<1>2. ASSUME NEW c \in Connection, Serve(c)
      PROVE  SyncIInv'
  BY <1>2, HandleJoinKeeps, HandleStateRequestKeeps, HandleGrabKeeps, HandleMoveKeeps,
     HandleReleaseKeeps, HandleArrangeKeeps, HandlePauseKeeps, HandleResumeKeeps,
     HandleDropKeeps DEF Serve
<1>3. CASE RunDrop
  BY <1>3, RunDropKeeps
<1>4. CASE UNCHANGED syncVars
  <2>1. UNCHANGED <<vars, toServer, toClient, commands, view, drag, gestures, upToDate, silent>>
    BY <1>4 DEF syncVars, pageVars, historyVars
  <2>2. RoomInv'
    BY <2>1, RoomStill DEF SyncIInv
  <2>3. \A c \in Connection : PageInv(c)'
    BY <2>1, PageStill DEF SyncIInv
  <2>4. SyncTypes'
    BY <2>1 DEF SyncIInv, SyncTypes, vars, roomVars
  <2> QED
    BY <2>2, <2>3, <2>4 DEF SyncIInv
<1> QED
  BY <1>1, <1>2, <1>3, <1>4 DEF SyncNext

\* A quiet page has nothing in hand and nothing to be told.
LEMMA QuietPage ==
  ASSUME SyncIInv, NEW c \in Connection, Quiet(c)
  PROVE  upToDate[c] => view[c].puzzle = Puzzle
<1>1. /\ RoomInv /\ SyncTypes /\ PageInv(c) /\ c \in connections
      /\ toServer[c] = <<>> /\ toClient[c] = <<>> /\ drag[c] = NoDrag
      /\ \A i \in DOMAIN commands : commands[i][1] # c
  BY DEF SyncIInv, Quiet
<1>2. DOMAIN <<>> = {}
  OBVIOUS
<1>3. Hand(c) = {}
  BY <1>1, <1>2 DEF Hand, InHand, Later, QueuedIn
<1> SUFFICES ASSUME upToDate[c]
             PROVE  view[c].puzzle = Puzzle
  OBVIOUS
<1>4. PICK s : At(c, s)
  BY <1>1, AtSome
<1>5. Like(view[c].puzzle, s) /\ s.puzzle = Puzzle /\ s.sure /\ s.open = {}
  BY <1>1, <1>3, <1>4, NilRun DEF At
<1> DEFINE p == view[c].puzzle
<1>6. p \in PuzzleRecord /\ Puzzle \in PuzzleRecord
  BY <1>1, PageTypes, ServerPuzzle DEF RoomInv
<1>7. /\ SameParts(p, Puzzle)
      /\ \A x \in Piece : p.offset[x] = Puzzle.offset[x] /\ (x \in p.placed <=> x \in Puzzle.placed)
  BY <1>5 DEF Like, Agree
<1> HIDE DEF p
<1>8. p.offset = Puzzle.offset /\ p.placed = Puzzle.placed
  <2>1. /\ p.offset \in [Piece -> Int] /\ Puzzle.offset \in [Piece -> Int]
        /\ p.placed \subseteq Piece /\ Puzzle.placed \subseteq Piece
    BY <1>6 DEF PuzzleRecord
  <2> QED
    BY <1>7, <2>1
<1>9. \A q \in PuzzleRecord : \A r \in PuzzleRecord :
        q.offset = r.offset /\ q.placed = r.placed /\ SameParts(q, r) => q = r
  BY DEF PuzzleRecord, SameParts
<1>10. p = Puzzle
  BY <1>6, <1>7, <1>8, <1>9
<1> QED
  BY <1>10 DEF p

LEMMA SyncIInvGives == SyncIInv => SyncInv
<1> SUFFICES ASSUME SyncIInv
             PROVE  SyncInv
  OBVIOUS
<1>1. RoomInv /\ SyncTypes /\ \A c \in Connection : PageInv(c)
  BY DEF SyncIInv
<1>2. DOMAIN <<>> = {} /\ connections \subseteq Connection
  BY <1>1 DEF RoomInv, TypeOK
<1>3. SyncTypeOK
  <2>1. ASSUME NEW c \in Connection
        PROVE  /\ view[c].puzzle.offset \in [Piece -> Int]
               /\ view[c].locks \in [Group -> Player \cup {NoPlayer}]
               /\ view[c].paused \in BOOLEAN /\ view[c].opened \in BOOLEAN
               /\ drag[c].group \in Group \cup {NoPlayer}
    <3>1. view[c].puzzle.offset \in [Piece -> Int]
      BY <1>1, PageTypes DEF PuzzleRecord
    <3>2. drag[c].group \in Group \cup {NoPlayer}
      BY <1>1, PageTypes DEF DragRecord, NoDrag
    <3> QED
      BY <1>1, <3>1, <3>2, PageTypes
  <2> QED
    BY <1>1, <2>1 DEF SyncTypeOK, RoomInv, SyncTypes
<1>4. SettledPagesAgree
  BY QuietPage DEF SettledPagesAgree
<1>5. NoPhantomLocks
  <2> SUFFICES ASSUME NEW c \in connections, NEW g \in Group, toClient[c] = <<>>,
                      view[c].locks[g] # NoPlayer
               PROVE  view[c].locks[g] = dragLocks[g]
    BY DEF NoPhantomLocks
  <2>1. LocksFollow(view[c].locks, toClient[c], dragLocks)
    BY <1>1, <1>2 DEF PageInv, PageLocks
  <2> QED
    BY <1>2, <2>1 DEF LocksFollow
<1>6. LocksEndWithDrags
  <2> SUFFICES ASSUME NEW c \in connections, NEW g \in Group, Quiet(c), OnlyPage(c),
                      dragLocks[g] = Owner[c], ~silent[c]
               PROVE  FALSE
    <3>1. \A c \in connections : silent[c] \in BOOLEAN
      BY <1>1, <1>2, PageTypes
    <3> QED
      BY <3>1 DEF LocksEndWithDrags
  <2>1. \/ InHand(drag[c], g) \/ Later(toServer[c], {"drop", "release"}, g, 0)
        \/ QueuedIn(commands, c, g)
    BY <1>1, <1>2 DEF PageInv, PageHolds
  <2> QED
    BY <1>2, <2>1 DEF Quiet, InHand, Later, QueuedIn
<1> QED
  BY <1>3, <1>4, <1>5, <1>6 DEF SyncInv

\* A page that is quiet shows the puzzle of the server, no page that has read
\* everything shows a lock that nobody holds, and a quiet page has given back
\* its locks, for any players, pages, pieces and moves.
THEOREM PagesAgree == SyncSpec => []SyncInv
<1>1. SyncSpec => []SyncIInv
  BY SyncInitial, SyncStep, PTL DEF SyncSpec
<1> QED
  BY <1>1, SyncIInvGives, PTL

-----------------------------------------------------------------------------
(* The page that creates rooms. *)
EffectKind == {"list", "history", "preview"}
EffectRequest == [kind : EffectKind, selected : BuildOrNothing, disposed : BOOLEAN]

CreationStores ==
  /\ stored \in TokenOrNothing /\ session \in TokenOrNothing
  /\ checking \in TokenOrNothing /\ creating \in TokenOrNothing
  /\ ended \subseteq issued /\ issued \subseteq Token /\ confirmed \subseteq issued
  /\ stored # Nothing => stored \in issued
  /\ session # Nothing => session \in issued
  /\ login \in {"none", "button", "widget"} /\ widget \in {"hidden", "shown", "lost"}
  /\ loading \subseteq {"auth"} \cup EffectKind
  /\ requests \subseteq EffectRequest
  /\ builds \subseteq Build
  /\ link \in BuildOrNothing /\ selected \in BuildOrNothing /\ preview \in BuildOrNothing
  /\ turns \in 0 .. MaxTurns

\* What a request knows while its effect has not disposed of it.
IsCurrent(request, chosen) ==
  /\ request.kind \in OfSelection => request.selected = chosen
  /\ request.kind = "history" => request.selected = Nothing
  /\ request.kind = "preview" => chosen # Nothing
HeardAreCurrent ==
  \A request \in requests : IsHeard(request) => session # Nothing /\ IsCurrent(request, selected)

\* Until the stored session is checked the page shows nothing else, and nobody
\* logs in.
ChecksAreAwaited ==
  /\ checking # Nothing => "auth" \in loading /\ login = "none" /\ session = checking
  /\ session # Nothing => session \in confirmed \/ checking # Nothing

\* A preview is awaited for a selection.
PreviewsNeedSelection == "preview" \in loading => selected # Nothing

\* The inductive invariant.
CreationIInv ==
  /\ CreationStores /\ HeardAreCurrent /\ ChecksAreAwaited /\ PreviewsNeedSelection
  /\ PreviewIsOfSelection /\ WaitsEnd /\ RoomsNeedCheckedSession

\* What the effects ask for.
LEMMA AskedFacts ==
  ASSUME NEW kinds \in SUBSET EffectKind, NEW token, NEW build \in BuildOrNothing,
         NEW request \in Asked(kinds, token, build)
  PROVE  /\ request \in EffectRequest /\ token # Nothing /\ request.kind \in kinds
         /\ IsHeard(request) /\ IsCurrent(request, build)
<1>1. PICK kind \in kinds :
        /\ token # Nothing /\ (kind = "preview" => build # Nothing)
        /\ request = [kind |-> kind, selected |-> IF kind = "history" THEN Nothing ELSE build,
                      disposed |-> FALSE]
  BY DEF Asked
<1>2. QED
  BY <1>1 DEF EffectRequest, EffectKind, BuildOrNothing, IsHeard, IsCurrent, OfSelection

LEMMA AskedKinds ==
  ASSUME NEW kinds \in SUBSET EffectKind, NEW token, token # Nothing,
         NEW build \in BuildOrNothing,
         NEW kind \in kinds, kind = "preview" => build # Nothing
  PROVE  \E request \in Asked(kinds, token, build) : request.kind = kind /\ IsHeard(request)
<1>a. PICK request : request = [kind |-> kind,
                                selected |-> IF kind = "history" THEN Nothing ELSE build,
                                disposed |-> FALSE]
  OBVIOUS
<1>1. request \in Asked(kinds, token, build)
  BY <1>a DEF Asked
<1>2. request.kind = kind /\ IsHeard(request)
  BY <1>a DEF IsHeard
<1>3. QED
  BY <1>1, <1>2

\* What is in flight once the effects of these kinds have run again.
LEMMA AskedAgainFacts ==
  ASSUME requests \subseteq EffectRequest, NEW kinds \in SUBSET EffectKind, NEW token,
         NEW build \in BuildOrNothing,
         NEW request \in AskedAgain(kinds, token, build)
  PROVE  /\ request \in EffectRequest
         /\ IsHeard(request) =>
              \/ request \in requests /\ request.kind \notin kinds
              \/ token # Nothing /\ IsCurrent(request, build)
<1>1. CASE request \in Asked(kinds, token, build)
  BY <1>1, AskedFacts
<1>2. CASE request \in {[r EXCEPT !.disposed = @ \/ (r.kind \in kinds)] : r \in requests}
  <2>1. PICK r \in requests : request = [r EXCEPT !.disposed = r.disposed \/ (r.kind \in kinds)]
    BY <1>2
  <2>2. r \in EffectRequest /\ (r.disposed \/ (r.kind \in kinds)) \in BOOLEAN
    BY DEF EffectRequest
  <2>3. request \in EffectRequest
    BY <2>1, <2>2 DEF EffectRequest
  <2>4. ASSUME IsHeard(request) PROVE request = r /\ request.kind \notin kinds
    <3>1. request.disposed = (r.disposed \/ (r.kind \in kinds)) /\ request.kind = r.kind
      BY <2>1, <2>2 DEF EffectRequest
    <3>2. ~r.disposed /\ r.kind \notin kinds
      BY <2>4, <3>1 DEF IsHeard
    <3>3. r.disposed = FALSE /\ request = [r EXCEPT !.disposed = FALSE]
      BY <2>1, <2>2, <3>2 DEF EffectRequest
    <3>4. request = r
      BY <2>2, <3>3 DEF EffectRequest
    <3>5. QED
      BY <3>2, <3>4
  <2>5. QED
    BY <2>3, <2>4
<1>3. QED
  BY <1>1, <1>2 DEF AskedAgain

\* Requests that the effects leave alone are still there.
LEMMA AskedAgainKeeps ==
  ASSUME requests \subseteq EffectRequest, NEW kinds \in SUBSET EffectKind, NEW token,
         NEW build, NEW r \in requests, IsHeard(r), r.kind \notin kinds
  PROVE  r \in AskedAgain(kinds, token, build)
<1>1. r \in EffectRequest /\ r.disposed = FALSE
  BY DEF EffectRequest, IsHeard
<1>2. r = [r EXCEPT !.disposed = r.disposed \/ (r.kind \in kinds)]
  BY <1>1 DEF EffectRequest
<1>3. QED
  BY <1>2 DEF AskedAgain

LEMMA AskedAgainHears ==
  ASSUME NEW kinds \in SUBSET EffectKind, NEW token, token # Nothing,
         NEW build \in BuildOrNothing, NEW kind \in kinds, kind = "preview" => build # Nothing
  PROVE  \E request \in AskedAgain(kinds, token, build) : request.kind = kind /\ IsHeard(request)
BY AskedKinds DEF AskedAgain

-----------------------------------------------------------------------------
LEMMA CreationInitial == CreationInit => CreationIInv
<1> SUFFICES ASSUME CreationInit PROVE CreationIInv
  OBVIOUS
<1>1. /\ stored \in TokenOrNothing /\ issued = {stored} \ {Nothing} /\ ended \in SUBSET issued
      /\ link \in BuildOrNothing /\ session = stored /\ checking = stored /\ confirmed = {}
      /\ login = "none" /\ widget = "hidden" /\ loading = LoadingAtFirst(stored, link)
      /\ requests = Asked(OfSession, stored, link)
      /\ builds = {} /\ selected = link /\ preview = Nothing /\ creating = Nothing /\ turns = 0
  BY DEF CreationInit
<1>2. OfSession \in SUBSET EffectKind
  BY DEF OfSession, EffectKind
<1>3. \A r \in requests : /\ r \in EffectRequest /\ stored # Nothing /\ r.kind \in EffectKind
                          /\ IsHeard(r) /\ IsCurrent(r, link)
  BY <1>1, <1>2, AskedFacts DEF OfSession, EffectKind
<1>4. /\ loading \subseteq {"auth"} \cup EffectKind
      /\ "auth" \in loading <=> stored # Nothing
      /\ \A kind \in loading \ {"auth"} : \E r \in requests : r.kind = kind /\ IsHeard(r)
      /\ "preview" \in loading => link # Nothing
  <2>1. loading = {r.kind : r \in requests} \cup (IF stored # Nothing THEN {"auth"} ELSE {})
    BY <1>1 DEF LoadingAtFirst
  <2>2. "auth" \notin EffectKind
    BY DEF EffectKind
  <2>3. QED
    BY <1>3, <2>1, <2>2 DEF IsCurrent
<1>5. CreationStores
  <2>1. 0 \in 0 .. MaxTurns
    BY MaxTurnsAssumption
  <2>2. issued \subseteq Token
    BY <1>1 DEF TokenOrNothing
  <2>3. QED
    BY <1>1, <1>3, <1>4, <2>1, <2>2 DEF CreationStores, TokenOrNothing, BuildOrNothing
<1>6. QED
  BY <1>1, <1>3, <1>4, <1>5
     DEF CreationIInv, HeardAreCurrent, ChecksAreAwaited, PreviewsNeedSelection,
         PreviewIsOfSelection, WaitsEnd, RoomsNeedCheckedSession

\* The effects of the session run again.
LEMMA EffectsOfSessionKeep ==
  ASSUME requests \subseteq EffectRequest, selected \in BuildOrNothing, EffectsOfSession
  PROVE  /\ requests' \subseteq EffectRequest
         /\ \A r \in requests' : IsHeard(r) => session' # Nothing /\ IsCurrent(r, selected)
         /\ \A kind \in EffectKind :
              session' # Nothing /\ (kind = "preview" => selected # Nothing) =>
                \E r \in requests' : r.kind = kind /\ IsHeard(r)
<1>a. PICK token : token = session'
  OBVIOUS
<1>b. PICK chosen : chosen = selected
  OBVIOUS
<1>1. requests' = AskedAgain(OfSession, token, chosen)
  BY <1>a, <1>b DEF EffectsOfSession
<1>2. OfSession \in SUBSET EffectKind /\ OfSession = EffectKind /\ chosen \in BuildOrNothing
  BY <1>b DEF OfSession, EffectKind
<1>3. ASSUME NEW r \in requests'
      PROVE  r \in EffectRequest /\ (IsHeard(r) => token # Nothing /\ IsCurrent(r, chosen))
  <2>1. /\ r \in EffectRequest
        /\ IsHeard(r) => \/ r \in requests /\ r.kind \notin OfSession
                         \/ token # Nothing /\ IsCurrent(r, chosen)
    BY <1>1, <1>2, <1>3, AskedAgainFacts
  <2>2. r.kind \in OfSession
    BY <1>2, <2>1 DEF EffectRequest
  <2>3. QED
    BY <2>1, <2>2
<1>4. ASSUME NEW kind \in EffectKind, token # Nothing, kind = "preview" => chosen # Nothing
      PROVE  \E r \in requests' : r.kind = kind /\ IsHeard(r)
  BY <1>1, <1>2, <1>4, AskedAgainHears
<1>5. QED
  BY <1>3, <1>4, <1>a, <1>b

LEMMA CheckAnsweredKeeps ==
  ASSUME CreationIInv, CheckAnswered, UNCHANGED turns PROVE CreationIInv'
<1>1. /\ CreationStores /\ HeardAreCurrent /\ ChecksAreAwaited /\ PreviewsNeedSelection
      /\ PreviewIsOfSelection /\ WaitsEnd /\ RoomsNeedCheckedSession
  BY DEF CreationIInv
<1>2. /\ checking # Nothing /\ checking' = Nothing /\ EffectsOfSession
      /\ loading' = IF session' = Nothing THEN {} ELSE loading \ {"auth"}
      /\ UNCHANGED <<issued, ended, login, widget, builds, link, selected, preview,
                     creating, turns>>
  BY DEF CheckAnswered, serverVars, buildVars
<1>3. /\ session = checking /\ checking \in issued /\ checking \in Token
  BY <1>1, <1>2 DEF CreationStores, ChecksAreAwaited, TokenOrNothing
<1>4. /\ stored' \in TokenOrNothing /\ (stored' # Nothing => stored' \in issued)
      /\ \/ session' = checking /\ confirmed' = confirmed \cup {checking}
         \/ session' = Nothing /\ confirmed' = confirmed
  <2>1. Cleared(checking) \in {stored, Nothing}
    BY DEF Cleared
  <2>2. QED
    BY <1>1, <1>3, <2>1 DEF CheckAnswered, FetchAuthMe, CreationStores, TokenOrNothing
<1>5. /\ requests' \subseteq EffectRequest
      /\ \A r \in requests' : IsHeard(r) => session' # Nothing /\ IsCurrent(r, selected)
      /\ \A kind \in EffectKind :
           session' # Nothing /\ (kind = "preview" => selected # Nothing) =>
             \E r \in requests' : r.kind = kind /\ IsHeard(r)
  BY <1>1, <1>2, EffectsOfSessionKeep DEF CreationStores
<1>6. loading' \subseteq loading \ {"auth"} /\ loading \subseteq {"auth"} \cup EffectKind
  BY <1>1, <1>2 DEF CreationStores
<1>7. CreationStores'
  BY <1>1, <1>2, <1>3, <1>4, <1>5, <1>6 DEF CreationStores, TokenOrNothing
<1>8. HeardAreCurrent' /\ ChecksAreAwaited' /\ PreviewsNeedSelection' /\ PreviewIsOfSelection'
  BY <1>1, <1>2, <1>3, <1>4, <1>5, <1>6
     DEF HeardAreCurrent, ChecksAreAwaited, PreviewsNeedSelection, PreviewIsOfSelection
<1>9. WaitsEnd'
  <2>1. \A kind \in loading' \ {"auth"} :
          kind \in EffectKind /\ (kind = "preview" => selected # Nothing)
    BY <1>1, <1>6 DEF PreviewsNeedSelection
  <2>2. QED
    BY <1>5, <1>6, <2>1 DEF WaitsEnd
<1>10. RoomsNeedCheckedSession'
  BY <1>1, <1>2, <1>4 DEF RoomsNeedCheckedSession
<1>11. QED
  BY <1>7, <1>8, <1>9, <1>10 DEF CreationIInv

LEMMA LoginAnsweredKeeps ==
  ASSUME CreationIInv, LoginAnswered, UNCHANGED turns PROVE CreationIInv'
<1>1. /\ CreationStores /\ HeardAreCurrent /\ ChecksAreAwaited /\ PreviewsNeedSelection
      /\ PreviewIsOfSelection /\ WaitsEnd /\ RoomsNeedCheckedSession
  BY DEF CreationIInv
<1>2. /\ login # "none" /\ login' = "none" /\ checking = Nothing
      /\ UNCHANGED <<ended, checking, builds, link, selected, preview, creating, turns>>
  BY <1>1 DEF LoginAnswered, buildVars, ChecksAreAwaited
<1>3. CASE /\ RequestAuth /\ EffectsOfSession
           /\ loading' = (loading \ {"auth"}) \cup Awaited
           /\ widget' = IF login = "widget" THEN "hidden" ELSE widget
  <2>1. PICK token \in Token \ issued :
          /\ issued' = issued \cup {token} /\ stored' = token /\ session' = token
          /\ confirmed' = confirmed \cup {token}
    BY <1>3 DEF RequestAuth
  <2>2. token # Nothing
    BY NothingAssumption
  <2>3. /\ requests' \subseteq EffectRequest
        /\ \A r \in requests' : IsHeard(r) => session' # Nothing /\ IsCurrent(r, selected)
        /\ \A kind \in EffectKind :
             session' # Nothing /\ (kind = "preview" => selected # Nothing) =>
               \E r \in requests' : r.kind = kind /\ IsHeard(r)
    BY <1>1, <1>3, EffectsOfSessionKeep DEF CreationStores
  <2>4. /\ loading' \subseteq EffectKind
        /\ "preview" \in loading' => selected # Nothing
    BY <1>1, <1>3 DEF CreationStores, EffectKind, Awaited, PreviewsNeedSelection
  <2>5. CreationStores'
    BY <1>1, <1>2, <1>3, <2>1, <2>3, <2>4 DEF CreationStores, TokenOrNothing
  <2>6. HeardAreCurrent' /\ ChecksAreAwaited' /\ PreviewsNeedSelection' /\ PreviewIsOfSelection'
    BY <1>1, <1>2, <2>1, <2>3, <2>4
       DEF HeardAreCurrent, ChecksAreAwaited, PreviewsNeedSelection, PreviewIsOfSelection
  <2>7. WaitsEnd'
    <3>1. "auth" \notin EffectKind
      BY DEF EffectKind
    <3>2. \A kind \in loading' : kind \in EffectKind /\ (kind = "preview" => selected # Nothing)
      BY <2>4
    <3>3. QED
      BY <2>1, <2>2, <2>3, <3>1, <3>2 DEF WaitsEnd
  <2>8. RoomsNeedCheckedSession'
    BY <1>1, <1>2, <2>1 DEF RoomsNeedCheckedSession
  <2>9. QED
    BY <2>5, <2>6, <2>7, <2>8 DEF CreationIInv
<1>4. CASE /\ loading' = loading \ {"auth"}
           /\ UNCHANGED <<stored, issued, session, confirmed, requests, widget>>
  <2>1. CreationStores'
    BY <1>1, <1>2, <1>4 DEF CreationStores
  <2>2. HeardAreCurrent' /\ ChecksAreAwaited' /\ PreviewsNeedSelection' /\ PreviewIsOfSelection'
    BY <1>1, <1>2, <1>4
       DEF HeardAreCurrent, ChecksAreAwaited, PreviewsNeedSelection, PreviewIsOfSelection
  <2>3. WaitsEnd' /\ RoomsNeedCheckedSession'
    BY <1>1, <1>2, <1>4 DEF WaitsEnd, RoomsNeedCheckedSession
  <2>4. QED
    BY <2>1, <2>2, <2>3 DEF CreationIInv
<1>5. QED
  BY <1>3, <1>4 DEF LoginAnswered

-----------------------------------------------------------------------------
\* An answer without another effect takes its request and its flag.
LEMMA AnswerKeeps ==
  ASSUME CreationIInv, NEW request \in requests, IsHeard(request),
         requests' = requests \ {request}, loading' = loading \ {request.kind},
         builds' \subseteq Build, preview' \in {Nothing, selected},
         UNCHANGED <<stored, issued, ended, session, checking, confirmed, login, widget,
                     link, selected, creating, turns>>
  PROVE  CreationIInv'
<1>1. /\ CreationStores /\ HeardAreCurrent /\ ChecksAreAwaited /\ PreviewsNeedSelection
      /\ PreviewIsOfSelection /\ WaitsEnd /\ RoomsNeedCheckedSession
  BY DEF CreationIInv
<1>2. request.kind \in EffectKind /\ request.kind # "auth"
  BY <1>1 DEF CreationStores, EffectRequest, EffectKind
<1>3. CreationStores'
  BY <1>1 DEF CreationStores, BuildOrNothing
<1>4. HeardAreCurrent' /\ ChecksAreAwaited' /\ PreviewsNeedSelection' /\ PreviewIsOfSelection'
  BY <1>1, <1>2 DEF HeardAreCurrent, ChecksAreAwaited, PreviewsNeedSelection, PreviewIsOfSelection
<1>5. WaitsEnd'
  <2>1. "auth" \in loading' => checking' # Nothing \/ login' # "none"
    BY <1>1 DEF WaitsEnd
  <2>2. ASSUME session # Nothing, NEW kind \in loading' \ {"auth"}
        PROVE  \E r \in requests' : r.kind = kind /\ IsHeard(r)
    <3>1. PICK r \in requests : r.kind = kind /\ IsHeard(r)
      BY <1>1, <2>2 DEF WaitsEnd
    <3>2. r # request
      BY <2>2, <3>1
    <3>3. QED
      BY <3>1, <3>2
  <2>3. QED
    BY <2>1, <2>2 DEF WaitsEnd
<1>6. RoomsNeedCheckedSession'
  BY <1>1 DEF RoomsNeedCheckedSession
<1>7. QED
  BY <1>3, <1>4, <1>5, <1>6 DEF CreationIInv

\* The effects of a selection run again, at most with one answer taken.
LEMMA SelectionKeeps ==
  ASSUME CreationIInv, NEW build \in Build, selected' = build,
         NEW taken, IsHeard(taken) => taken.kind = "list" /\ taken.selected # build,
         requests' = AskedAgain(OfSelection, session, build) \ {taken},
         loading' \in {loading \cup {"preview"}, (loading \ {"list"}) \cup {"preview"}},
         builds' \subseteq Build, preview' = Nothing,
         UNCHANGED <<stored, issued, ended, session, checking, confirmed, login, widget,
                     link, creating>>,
         turns' \in 0 .. MaxTurns
  PROVE  CreationIInv'
<1>1. /\ CreationStores /\ HeardAreCurrent /\ ChecksAreAwaited /\ PreviewsNeedSelection
      /\ PreviewIsOfSelection /\ WaitsEnd /\ RoomsNeedCheckedSession
  BY DEF CreationIInv
<1>a. PICK token : token = session
  OBVIOUS
<1>2. /\ build # Nothing /\ build \in BuildOrNothing
      /\ OfSelection \in SUBSET EffectKind /\ requests \subseteq EffectRequest
  BY <1>1, NothingAssumption DEF OfSelection, EffectKind, BuildOrNothing, CreationStores
<1>3. ASSUME NEW r \in requests'
      PROVE  r \in EffectRequest /\ (IsHeard(r) => token # Nothing /\ IsCurrent(r, build))
  <2>1. r \in AskedAgain(OfSelection, token, build)
    BY <1>3, <1>a
  <2>2. /\ r \in EffectRequest
        /\ IsHeard(r) => \/ r \in requests /\ r.kind \notin OfSelection
                         \/ token # Nothing /\ IsCurrent(r, build)
    BY <1>2, <2>1, AskedAgainFacts
  <2>3. ASSUME IsHeard(r), r \in requests, r.kind \notin OfSelection
        PROVE  token # Nothing /\ IsCurrent(r, build)
    <3>1. session # Nothing /\ IsCurrent(r, selected)
      BY <1>1, <2>3 DEF HeardAreCurrent
    <3>2. QED
      BY <1>a, <2>3, <3>1 DEF IsCurrent, OfSelection
  <2>4. QED
    BY <2>2, <2>3
<1>4. CreationStores'
  BY <1>1, <1>2, <1>3 DEF CreationStores, EffectKind, BuildOrNothing
<1>5. HeardAreCurrent' /\ ChecksAreAwaited' /\ PreviewsNeedSelection' /\ PreviewIsOfSelection'
  BY <1>1, <1>2, <1>3, <1>a
     DEF HeardAreCurrent, ChecksAreAwaited, PreviewsNeedSelection, PreviewIsOfSelection
<1>6. ASSUME session # Nothing, NEW kind \in loading' \ {"auth"}
      PROVE  \E r \in requests' : r.kind = kind /\ IsHeard(r)
  <2>1. CASE kind \in OfSelection
    <3>1. PICK r \in Asked(OfSelection, token, build) : r.kind = kind /\ IsHeard(r)
      BY <1>2, <1>6, <1>a, <2>1, AskedKinds
    <3>2. IsCurrent(r, build)
      BY <1>2, AskedFacts
    <3>3. r # taken
      BY <2>1, <3>1, <3>2 DEF IsCurrent
    <3>4. QED
      BY <1>a, <3>1, <3>3 DEF AskedAgain
  <2>2. CASE kind \notin OfSelection
    <3>1. kind \in loading \ {"auth"}
      BY <1>6, <2>2 DEF OfSelection
    <3>2. PICK r \in requests : r.kind = kind /\ IsHeard(r)
      BY <1>1, <1>6, <3>1 DEF WaitsEnd
    <3>3. r \in AskedAgain(OfSelection, token, build)
      BY <1>2, <2>2, <3>2, AskedAgainKeeps
    <3>4. r # taken
      BY <2>2, <3>2 DEF OfSelection
    <3>5. QED
      BY <1>a, <3>2, <3>3, <3>4
  <2>3. QED
    BY <2>1, <2>2
<1>7. "auth" \in loading' => checking' # Nothing \/ login' # "none"
  BY <1>1 DEF WaitsEnd
<1>8. WaitsEnd'
  BY <1>6, <1>7 DEF WaitsEnd
<1>9. RoomsNeedCheckedSession'
  BY <1>1 DEF RoomsNeedCheckedSession
<1>10. QED
  BY <1>4, <1>5, <1>8, <1>9 DEF CreationIInv

LEMMA RequestAnsweredKeeps ==
  ASSUME CreationIInv, RequestAnswered, UNCHANGED turns PROVE CreationIInv'
<1>1. /\ CreationStores /\ HeardAreCurrent /\ ChecksAreAwaited /\ PreviewsNeedSelection
      /\ PreviewIsOfSelection /\ WaitsEnd /\ RoomsNeedCheckedSession
  BY DEF CreationIInv
<1>2. PICK request \in requests : \/ ListAnswered(request) \/ PreviewAnswered(request)
                                  \/ HistoryAnswered(request) \/ AnswerIgnored(request)
  BY DEF RequestAnswered
<1>3. UNCHANGED <<stored, issued, ended, session, checking, confirmed, login, widget,
                  creating, turns>>
  BY DEF RequestAnswered, serverVars, loginVars
<1>4. preview \in {Nothing, selected} /\ builds \subseteq Build
  BY <1>1 DEF PreviewIsOfSelection, CreationStores
<1>5. CASE ListAnswered(request)
  <2>1. IsHeard(request) /\ request.kind = "list" /\ UNCHANGED <<link, preview>>
    BY <1>5 DEF ListAnswered
  <2>2. request.selected = selected
    BY <1>1, <2>1 DEF HeardAreCurrent, IsCurrent, OfSelection
  <2>3. CASE \E items \in {{}, Build}, first \in BuildOrNothing :
               /\ builds' = items
               /\ first \in IF items = {} THEN {Nothing} ELSE items
               /\ request.selected = Nothing /\ items # {}
               /\ selected' = first
               /\ requests' = AskedAgain(OfSelection, session, first) \ {request}
               /\ loading' = (loading \ {"list"}) \cup {"preview"}
    <3>1. PICK first \in Build :
            /\ builds' \subseteq Build /\ request.selected = Nothing /\ selected' = first
            /\ requests' = AskedAgain(OfSelection, session, first) \ {request}
            /\ loading' = (loading \ {"list"}) \cup {"preview"}
      BY <2>3
    <3>2. request.selected # first /\ preview' = Nothing
      BY <1>4, <2>1, <2>2, <3>1, NothingAssumption
    <3>3. turns' \in 0 .. MaxTurns
      BY <1>1, <1>3 DEF CreationStores
    <3>4. QED
      BY <1>3, <2>1, <3>1, <3>2, <3>3, SelectionKeeps
  <2>4. CASE /\ requests' = requests \ {request} /\ loading' = loading \ {"list"}
             /\ builds' \subseteq Build /\ UNCHANGED selected
    BY <1>3, <1>4, <2>1, <2>4, AnswerKeeps
  <2>5. QED
    BY <1>4, <1>5, <2>3, <2>4 DEF ListAnswered
<1>6. CASE PreviewAnswered(request)
  <2>1. /\ IsHeard(request) /\ request.kind = "preview" /\ preview' \in {preview, request.selected}
        /\ loading' = loading \ {"preview"} /\ requests' = requests \ {request}
        /\ UNCHANGED <<builds, link, selected>>
    BY <1>6 DEF PreviewAnswered
  <2>2. request.selected = selected
    BY <1>1, <2>1 DEF HeardAreCurrent, IsCurrent, OfSelection
  <2>3. preview' \in {Nothing, selected} /\ builds' \subseteq Build
    BY <1>4, <2>1, <2>2
  <2>4. QED
    BY <1>3, <2>1, <2>3, AnswerKeeps
<1>7. CASE HistoryAnswered(request)
  <2>1. /\ IsHeard(request) /\ request.kind = "history"
        /\ loading' = loading \ {"history"} /\ requests' = requests \ {request}
        /\ UNCHANGED <<builds, link, selected, preview>>
    BY <1>7 DEF HistoryAnswered, buildVars
  <2>2. QED
    BY <1>3, <1>4, <2>1, AnswerKeeps
<1>8. CASE AnswerIgnored(request)
  <2>1. /\ ~IsHeard(request) /\ requests' = requests \ {request}
        /\ UNCHANGED <<loading, builds, link, selected, preview>>
    BY <1>8 DEF AnswerIgnored, buildVars
  <2>2. CreationStores' /\ HeardAreCurrent' /\ ChecksAreAwaited' /\ PreviewsNeedSelection'
    BY <1>1, <1>3, <2>1
       DEF CreationStores, HeardAreCurrent, ChecksAreAwaited, PreviewsNeedSelection
  <2>3. PreviewIsOfSelection' /\ WaitsEnd' /\ RoomsNeedCheckedSession'
    BY <1>1, <1>3, <2>1 DEF PreviewIsOfSelection, WaitsEnd, RoomsNeedCheckedSession
  <2>4. QED
    BY <2>2, <2>3 DEF CreationIInv
<1>9. QED
  BY <1>2, <1>5, <1>6, <1>7, <1>8

LEMMA ReloadKeeps ==
  ASSUME CreationIInv, PageReloaded, turns' \in 0 .. MaxTurns PROVE CreationIInv'
<1>1. CreationStores
  BY DEF CreationIInv
<1>a. PICK token : token = stored'
  OBVIOUS
<1>2. /\ token \in Readings /\ stored' = token /\ session' = token /\ checking' = token
      /\ confirmed' = {} /\ login' = "none" /\ widget' = "hidden"
      /\ requests' = Asked(OfSession, token, link)
      /\ loading' = {r.kind : r \in requests'} \cup (IF token # Nothing THEN {"auth"} ELSE {})
      /\ builds' = {} /\ selected' = link /\ preview' = Nothing /\ creating' = Nothing
      /\ UNCHANGED <<link, issued, ended>>
  BY <1>a DEF PageReloaded, LoadingAtFirst, serverVars
<1>3. token \in TokenOrNothing /\ (token # Nothing => token \in issued)
  BY <1>1, <1>2 DEF Readings, CreationStores, TokenOrNothing
<1>4. \A r \in requests' : /\ r \in EffectRequest /\ token # Nothing /\ r.kind \in EffectKind
                           /\ IsHeard(r) /\ IsCurrent(r, link)
  <2>1. OfSession \in SUBSET EffectKind /\ link \in BuildOrNothing
    BY <1>1 DEF OfSession, EffectKind, CreationStores
  <2>2. QED
    BY <1>2, <2>1, AskedFacts DEF EffectRequest
<1>5. /\ loading' \subseteq {"auth"} \cup EffectKind
      /\ "auth" \in loading' <=> token # Nothing
      /\ \A kind \in loading' \ {"auth"} : \E r \in requests' : r.kind = kind /\ IsHeard(r)
      /\ "preview" \in loading' => link # Nothing
  <2>1. "auth" \notin EffectKind
    BY DEF EffectKind
  <2>2. QED
    BY <1>2, <1>4, <2>1 DEF IsCurrent
<1>6. CreationStores'
  BY <1>1, <1>2, <1>3, <1>4, <1>5 DEF CreationStores, TokenOrNothing, BuildOrNothing
<1>7. HeardAreCurrent' /\ ChecksAreAwaited' /\ PreviewsNeedSelection'
  BY <1>2, <1>4, <1>5 DEF HeardAreCurrent, ChecksAreAwaited, PreviewsNeedSelection
<1>8. PreviewIsOfSelection' /\ WaitsEnd' /\ RoomsNeedCheckedSession'
  BY <1>2, <1>4, <1>5 DEF PreviewIsOfSelection, WaitsEnd, RoomsNeedCheckedSession
<1>9. QED
  BY <1>6, <1>7, <1>8 DEF CreationIInv

LEMMA TurnKeeps ==
  ASSUME CreationIInv, Turn, turns' \in 0 .. MaxTurns PROVE CreationIInv'
<1>1. /\ CreationStores /\ HeardAreCurrent /\ ChecksAreAwaited /\ PreviewsNeedSelection
      /\ PreviewIsOfSelection /\ WaitsEnd /\ RoomsNeedCheckedSession
  BY DEF CreationIInv
<1>2. CASE StartLogin
  <2>1. /\ "auth" \notin loading /\ login' \in {"button", "widget"}
        /\ loading' = loading \cup {"auth"}
        /\ widget' \in {"hidden", "shown", "lost"}
        /\ UNCHANGED <<stored, issued, ended, session, checking, confirmed, requests,
                       builds, link, selected, preview, creating>>
    BY <1>1, <1>2 DEF StartLogin, BeginsLogin, IsLoading, serverVars, buildVars, CreationStores
  <2>2. CreationStores' /\ HeardAreCurrent' /\ ChecksAreAwaited' /\ PreviewsNeedSelection'
    BY <1>1, <2>1
       DEF CreationStores, HeardAreCurrent, ChecksAreAwaited, PreviewsNeedSelection
  <2>3. PreviewIsOfSelection' /\ WaitsEnd' /\ RoomsNeedCheckedSession'
    BY <1>1, <2>1 DEF PreviewIsOfSelection, WaitsEnd, RoomsNeedCheckedSession
  <2>4. QED
    BY <2>2, <2>3 DEF CreationIInv
<1>3. CASE ShowWidget \/ OtherTab \/ SessionEnds
  <2>1. UNCHANGED <<session, checking, confirmed, login, loading, requests, builds, link,
                    selected, preview, creating>>
    BY <1>3 DEF ShowWidget, OtherTab, SessionEnds, loginVars, buildVars
  <2>2. /\ stored' \in TokenOrNothing /\ issued \subseteq issued' /\ issued' \subseteq Token
        /\ ended' \subseteq issued' /\ (stored' # Nothing => stored' \in issued')
        /\ widget' \in {"hidden", "shown", "lost"}
    <3>1. \A token : Cleared(token) \in {stored, Nothing}
      BY DEF Cleared
    <3>2. QED
      BY <1>1, <1>3, <3>1
         DEF ShowWidget, OtherTab, SessionEnds, serverVars, loginVars, CreationStores,
             TokenOrNothing
  <2>3. CreationStores' /\ HeardAreCurrent' /\ ChecksAreAwaited' /\ PreviewsNeedSelection'
    BY <1>1, <2>1, <2>2
       DEF CreationStores, HeardAreCurrent, ChecksAreAwaited, PreviewsNeedSelection
  <2>4. PreviewIsOfSelection' /\ WaitsEnd' /\ RoomsNeedCheckedSession'
    BY <1>1, <2>1, <2>2 DEF PreviewIsOfSelection, WaitsEnd, RoomsNeedCheckedSession
  <2>5. QED
    BY <2>3, <2>4 DEF CreationIInv
<1>4. CASE SelectComposition
  <2>1. PICK build \in builds \ {selected} :
          /\ selected' = build /\ preview' = Nothing
          /\ requests' = AskedAgain(OfSelection, session, build)
    BY <1>4 DEF SelectComposition
  <2>2. /\ loading' = loading \cup {"preview"}
        /\ UNCHANGED <<stored, issued, ended, session, checking, confirmed, login, widget,
                       builds, link, creating>>
    BY <1>4 DEF SelectComposition, serverVars, loginVars
  <2>3. build \in Build /\ builds' \subseteq Build
    BY <1>1, <2>1, <2>2 DEF CreationStores
  <2>a. PICK taken : taken = [kind |-> "none", disposed |-> TRUE]
    OBVIOUS
  <2>4. ~IsHeard(taken)
    BY <2>a DEF IsHeard
  <2>5. taken \notin requests'
    <3>1. \A r \in AskedAgain(OfSelection, session, build) : r \in EffectRequest
      <4>a. PICK token : token = session
        OBVIOUS
      <4>1. /\ OfSelection \in SUBSET EffectKind /\ requests \subseteq EffectRequest
            /\ build \in BuildOrNothing
        BY <1>1, <2>3 DEF OfSelection, EffectKind, CreationStores, BuildOrNothing
      <4>2. QED
        BY <4>a, <4>1, AskedAgainFacts
    <3>2. taken \notin EffectRequest
      BY <2>a DEF EffectRequest, EffectKind
    <3>3. QED
      BY <2>1, <3>1, <3>2
  <2>6. requests' = AskedAgain(OfSelection, session, build) \ {taken}
    BY <2>1, <2>5
  <2>7. QED
    BY <2>1, <2>2, <2>3, <2>4, <2>6, SelectionKeeps
<1>5. CASE PageReloaded
  BY <1>5, ReloadKeeps
<1>6. QED
  BY <1>2, <1>3, <1>4, <1>5 DEF Turn

LEMMA CreationStep == CreationIInv /\ [CreationNext]_creationVars => CreationIInv'
<1> SUFFICES ASSUME CreationIInv, [CreationNext]_creationVars PROVE CreationIInv'
  OBVIOUS
<1>1. /\ CreationStores /\ HeardAreCurrent /\ ChecksAreAwaited /\ PreviewsNeedSelection
      /\ PreviewIsOfSelection /\ WaitsEnd /\ RoomsNeedCheckedSession
  BY DEF CreationIInv
<1>2. CASE turns < MaxTurns /\ turns' = turns + 1 /\ Turn
  <2>1. turns' \in 0 .. MaxTurns
    BY <1>1, <1>2, MaxTurnsAssumption DEF CreationStores
  <2>2. QED
    BY <1>2, <2>1, TurnKeeps
<1>3. CASE (CheckAnswered \/ LoginAnswered \/ RequestAnswered) /\ UNCHANGED turns
  BY <1>3, CheckAnsweredKeeps, LoginAnsweredKeeps, RequestAnsweredKeeps
<1>4. CASE (CreateRoom \/ RoomAnswered) /\ UNCHANGED turns
  <2>1. /\ UNCHANGED <<stored, issued, ended, session, checking, confirmed, login, widget,
                       loading, requests, builds, selected, preview, turns>>
        /\ link' \in {link, Nothing} /\ creating' \in {session, Nothing}
        /\ creating' # Nothing => creating' \in confirmed
    <3>1. CASE CreateRoom
      BY <1>1, <1>4, <3>1
         DEF CreateRoom, CanCreate, ChecksAreAwaited, serverVars, loginVars, buildVars
    <3>2. CASE RoomAnswered
      BY <1>4, <3>2 DEF RoomAnswered, serverVars, loginVars
    <3>3. QED
      BY <1>4, <3>1, <3>2
  <2>2. CreationStores' /\ HeardAreCurrent' /\ ChecksAreAwaited' /\ PreviewsNeedSelection'
    BY <1>1, <2>1 DEF CreationStores, HeardAreCurrent, ChecksAreAwaited, PreviewsNeedSelection,
         BuildOrNothing, TokenOrNothing
  <2>3. PreviewIsOfSelection' /\ WaitsEnd' /\ RoomsNeedCheckedSession'
    BY <1>1, <2>1 DEF PreviewIsOfSelection, WaitsEnd, RoomsNeedCheckedSession
  <2>4. QED
    BY <2>2, <2>3 DEF CreationIInv
<1>5. CASE UNCHANGED creationVars
  <2>1. UNCHANGED <<stored, issued, ended, session, checking, confirmed, login, widget,
                    loading, requests, builds, link, selected, preview, creating, turns>>
    BY <1>5 DEF creationVars, serverVars, loginVars, buildVars
  <2>2. CreationStores' /\ HeardAreCurrent' /\ ChecksAreAwaited' /\ PreviewsNeedSelection'
    BY <1>1, <2>1 DEF CreationStores, HeardAreCurrent, ChecksAreAwaited, PreviewsNeedSelection
  <2>3. PreviewIsOfSelection' /\ WaitsEnd' /\ RoomsNeedCheckedSession'
    BY <1>1, <2>1 DEF PreviewIsOfSelection, WaitsEnd, RoomsNeedCheckedSession
  <2>4. QED
    BY <2>2, <2>3 DEF CreationIInv
<1>6. QED
  BY <1>2, <1>3, <1>4, <1>5 DEF CreationNext

\* At most one request of a kind is heard, and none without a session.
LEMMA OneIsHeard ==
  ASSUME CreationStores, HeardAreCurrent, NEW kind \in EffectKind
  PROVE  Cardinality({r \in requests : r.kind = kind /\ ~r.disposed})
           <= IF session = Nothing THEN 0 ELSE 1
<1> DEFINE heard == {r \in requests : r.kind = kind /\ ~r.disposed}
<1>1. \A r \in heard : session # Nothing /\ r \in EffectRequest /\ r.disposed = FALSE
                       /\ r.kind = kind /\ IsCurrent(r, selected)
  BY DEF CreationStores, HeardAreCurrent, IsHeard, EffectRequest
<1>2. \A q, r \in heard : q = r
  <2>1. \A q, r \in heard : q.selected = r.selected
    BY <1>1 DEF IsCurrent, OfSelection, EffectKind
  <2>2. QED
    BY <1>1, <2>1 DEF EffectRequest
<1> HIDE DEF heard
<1>3. CASE heard = {}
  <2>1. Cardinality(heard) = 0
    BY <1>3, FS_EmptySet
  <2>2. QED
    BY <2>1 DEF heard
<1>4. CASE heard # {}
  <2>1. PICK r \in heard : TRUE
    BY <1>4
  <2>2. heard = {r}
    BY <1>2, <2>1
  <2>3. Cardinality(heard) = 1
    BY <2>2, FS_Singleton
  <2>4. session # Nothing
    BY <1>1, <2>1
  <2>5. QED
    BY <2>3, <2>4 DEF heard
<1>5. QED
  BY <1>3, <1>4

\* The page that creates rooms shows what is selected, waits only for what will
\* be answered, and uses only a session that the server has confirmed, for any
\* number of builds, tokens and turns of users, tabs and server
\* (RoomCreatePage.tsx, auth.ts).
THEOREM CreationInvariant == CreationSpec => []CreationInv
<1>1. CreationIInv => CreationInv
  <2> SUFFICES ASSUME CreationIInv PROVE CreationInv
    OBVIOUS
  <2>1. CreationStores /\ HeardAreCurrent
    BY DEF CreationIInv
  <2>2. \A kind \in {"list", "history", "preview"} :
          Cardinality({r \in requests : r.kind = kind /\ ~r.disposed})
            <= IF session = Nothing THEN 0 ELSE 1
    BY <2>1, OneIsHeard DEF EffectKind
  <2>3. CreationTypeOK
    BY <2>1, <2>2 DEF CreationStores, CreationTypeOK, EffectRequest, EffectKind
  <2>4. QED
    BY <2>3 DEF CreationIInv, CreationInv
<1>2. QED
  BY <1>1, CreationInitial, CreationStep, PTL DEF CreationSpec

\* A session leaves the storage only once the server refuses it: the refusal of
\* an older one, which comes late, does not log the user out (auth.ts,
\* clearLocalAuthSession).
THEOREM OnlyRefusedAreForgotten == CreationSpec => OnlyRefusedIsForgotten
<1>1. ASSUME CreationIInv, [CreationNext]_creationVars
      PROVE  [stored # Nothing /\ stored' = Nothing => stored \in ended]_stored
  <2>1. CreationStores
    BY <1>1 DEF CreationIInv
  <2> SUFFICES ASSUME stored # Nothing, stored' = Nothing PROVE stored \in ended
    OBVIOUS
  <2>2. Nothing \notin Token /\ Nothing \notin issued
    BY <2>1, NothingAssumption DEF CreationStores
  <2>3. CASE CheckAnswered
    BY <2>2, <2>3 DEF CheckAnswered, FetchAuthMe, Cleared
  <2>4. CASE LoginAnswered
    BY <2>2, <2>4 DEF LoginAnswered, RequestAuth
  <2>5. CASE PageReloaded
    BY <2>5 DEF PageReloaded, Readings
  <2>6. CASE OtherTab
    BY <2>2, <2>6 DEF OtherTab, Cleared
  <2>7. CASE UNCHANGED stored
    BY <2>7
  <2>8. QED
    BY <1>1, <2>3, <2>4, <2>5, <2>6, <2>7
       DEF CreationNext, Turn, StartLogin, ShowWidget, SelectComposition, SessionEnds,
           RequestAnswered, CreateRoom, RoomAnswered, creationVars
<1>2. QED
  BY <1>1, CreationInitial, CreationStep, PTL DEF CreationSpec, OnlyRefusedIsForgotten
=============================================================================
