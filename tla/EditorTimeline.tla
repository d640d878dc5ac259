--------------------------- MODULE EditorTimeline ---------------------------
(***************************************************************************)
(* What the undo and redo of the composition editor promise: the layouts   *)
(* form one line of time with a point on it.  An edit forgets what lies    *)
(* after the point and appends, undo and redo only move the point, and     *)
(* the oldest layouts are forgotten beyond a limit.                        *)
(***************************************************************************)
EXTENDS Naturals, Sequences

CONSTANT Limit    \* how many steps can be undone

VARIABLES timeline, point

Init == Len(timeline) = 1 /\ point = 1

Latest(line) ==
  SubSeq(line, IF Len(line) > Limit + 1 THEN Len(line) - Limit ELSE 1, Len(line))

\* A new layout, which is not the present one, becomes the present.
Edit ==
  /\ point' = Len(timeline')
  /\ timeline'[point'] # timeline[point]
  /\ timeline' = Latest(Append(SubSeq(timeline, 1, point), timeline'[point']))

Undo == point > 1 /\ point' = point - 1 /\ UNCHANGED timeline
Redo == point < Len(timeline) /\ point' = point + 1 /\ UNCHANGED timeline
Load == Len(timeline') = 1 /\ point' = 1

Next == Edit \/ Undo \/ Redo \/ Load

Spec == Init /\ [][Next]_<<timeline, point>>
=============================================================================
