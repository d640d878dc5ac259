---------------------------- MODULE EditorProofs ----------------------------
(***************************************************************************)
(* Proofs about the composition editor: undo and redo implement one line   *)
(* of time, for every series of edits, drags, typed values, loads and undo *)
(* and any length of the history; what is open and what the document holds *)
(* part in one way only, for any number of compositions and requests.      *)
(***************************************************************************)
EXTENDS EditorDocument, CompositionSession, SequenceTheorems, TLAPS

-----------------------------------------------------------------------------
(***************************************************************************)
(* The line of time of a past, a present and a future.                     *)
(***************************************************************************)
Line(before, present, after) == before \o <<present>> \o Reverse(after)

\* What there is at each of its points.
IsLineOf(l, S, b, p, a) ==
  /\ l \in Seq(S) /\ Len(l) = Len(b) + 1 + Len(a)
  /\ \A i \in 1 .. Len(b) : l[i] = b[i]
  /\ l[Len(b) + 1] = p
  /\ \A i \in 1 .. Len(a) : l[Len(b) + 1 + i] = a[Len(a) - i + 1]

LEMMA LineFacts ==
  ASSUME NEW S, NEW b \in Seq(S), NEW p \in S, NEW a \in Seq(S)
  PROVE  IsLineOf(Line(b, p, a), S, b, p, a)
<1>1. /\ Reverse(a) \in Seq(S) /\ Len(Reverse(a)) = Len(a)
      /\ \A i \in 1 .. Len(a) : Reverse(a)[i] = a[Len(a) - i + 1]
  BY DEF Reverse
<1> DEFINE rest == Reverse(a)
<1>2. /\ b \o <<p>> \in Seq(S) /\ Len(b \o <<p>>) = Len(b) + 1
      /\ \A i \in 1 .. Len(b) : (b \o <<p>>)[i] = b[i]
      /\ (b \o <<p>>)[Len(b) + 1] = p
  OBVIOUS
<1> DEFINE start == b \o <<p>>
<1> HIDE DEF start, rest
<1>3. /\ start \o rest \in Seq(S) /\ Len(start \o rest) = Len(start) + Len(rest)
      /\ \A i \in 1 .. Len(start) : (start \o rest)[i] = start[i]
      /\ \A i \in 1 .. Len(rest) : (start \o rest)[Len(start) + i] = rest[i]
  <2>1. start \in Seq(S) /\ rest \in Seq(S)
    BY <1>1, <1>2 DEF start, rest
  <2>2. QED
    BY <2>1, ConcatProperties
<1>4. Line(b, p, a) = start \o rest
  BY DEF Line, start, rest
<1>5. Len(b) \in Nat /\ Len(a) \in Nat /\ Len(start) = Len(b) + 1 /\ Len(rest) = Len(a)
  BY <1>1, <1>2 DEF start, rest
<1>6. /\ \A i \in 1 .. Len(b) : i \in 1 .. Len(start) /\ start[i] = b[i]
      /\ Len(b) + 1 \in 1 .. Len(start) /\ start[Len(b) + 1] = p
      /\ \A i \in 1 .. Len(a) : rest[i] = a[Len(a) - i + 1]
  BY <1>1, <1>2, <1>5 DEF start, rest
<1>7. QED
  BY <1>3, <1>4, <1>5, <1>6 DEF IsLineOf

\* Two lines with the same layouts at the same points are the same.
LEMMA SameLine ==
  ASSUME NEW S, NEW s \in Seq(S), NEW t \in Seq(S), Len(s) = Len(t),
         \A i \in 1 .. Len(s) : s[i] = t[i]
  PROVE  s = t
BY SeqEqual

\* One step back or forth leaves the line as it is.
LEMMA Shifted ==
  ASSUME NEW S, NEW b \in Seq(S), NEW p \in S, NEW a \in Seq(S), NEW q \in S
  PROVE  Line(Append(b, q), p, a) = Line(b, q, Append(a, p))
<1>a. PICK bq : bq = Append(b, q)
  OBVIOUS
<1>b. PICK ap : ap = Append(a, p)
  OBVIOUS
<1> DEFINE s == Line(bq, p, a)
           t == Line(b, q, ap)
<1>1. /\ bq \in Seq(S) /\ Len(bq) = Len(b) + 1 /\ bq[Len(b) + 1] = q
      /\ \A i \in 1 .. Len(b) : bq[i] = b[i]
      /\ ap \in Seq(S) /\ Len(ap) = Len(a) + 1 /\ ap[Len(a) + 1] = p
      /\ \A i \in 1 .. Len(a) : ap[i] = a[i]
      /\ Len(a) \in Nat /\ Len(b) \in Nat
  BY <1>a, <1>b
<1>2. /\ s \in Seq(S) /\ Len(s) = Len(b) + 1 + 1 + Len(a)
      /\ \A i \in 1 .. Len(b) + 1 : s[i] = bq[i]
      /\ s[Len(b) + 2] = p
      /\ \A i \in 1 .. Len(a) : s[Len(b) + 2 + i] = a[Len(a) - i + 1]
  <2>a. IsLineOf(s, S, bq, p, a)
    BY <1>1, LineFacts
  <2>1. /\ s \in Seq(S) /\ Len(s) = Len(bq) + 1 + Len(a)
        /\ \A i \in 1 .. Len(bq) : s[i] = bq[i]
        /\ s[Len(bq) + 1] = p
        /\ \A i \in 1 .. Len(a) : s[Len(bq) + 1 + i] = a[Len(a) - i + 1]
    BY <1>1, <2>a DEF IsLineOf
  <2> HIDE DEF s
  <2>2. Len(bq) + 1 = Len(b) + 2
    BY <1>1
  <2>3. QED
    BY <1>1, <2>1, <2>2
<1>3. /\ t \in Seq(S) /\ Len(t) = Len(b) + 1 + (Len(a) + 1)
      /\ \A i \in 1 .. Len(b) : t[i] = b[i]
      /\ t[Len(b) + 1] = q
      /\ \A i \in 1 .. Len(a) + 1 : t[Len(b) + 1 + i] = ap[Len(a) + 1 - i + 1]
  <2>a. IsLineOf(t, S, b, q, ap)
    BY <1>1, LineFacts
  <2>1. /\ t \in Seq(S) /\ Len(t) = Len(b) + 1 + Len(ap)
        /\ \A i \in 1 .. Len(b) : t[i] = b[i]
        /\ t[Len(b) + 1] = q
        /\ \A i \in 1 .. Len(ap) : t[Len(b) + 1 + i] = ap[Len(ap) - i + 1]
    BY <1>1, <2>a DEF IsLineOf
  <2> HIDE DEF t
  <2>2. QED
    BY <1>1, <2>1
<1> HIDE DEF s, t
<1>4. ASSUME NEW i \in 1 .. Len(s) PROVE s[i] = t[i]
  <2>1. CASE i = Len(b) + 1
    BY <1>1, <1>2, <1>3, <2>1
  <2>5. CASE i <= Len(b)
    <3>1. i \in 1 .. Len(b) /\ i \in 1 .. Len(b) + 1
      BY <1>1, <1>2, <2>5
    <3>2. QED
      BY <1>1, <1>2, <1>3, <3>1
  <2>2. CASE i = Len(b) + 2
    <3>1. t[Len(b) + 1 + 1] = ap[Len(a) + 1 - 1 + 1]
      BY <1>1, <1>3
    <3>2. QED
      BY <1>1, <1>2, <2>2, <3>1
  <2>3. CASE i > Len(b) + 2
    <3>1. PICK k \in 1 .. Len(a) : i = Len(b) + 2 + k
      <4>1. i - (Len(b) + 2) \in 1 .. Len(a)
        BY <1>1, <1>2, <2>3
      <4>2. i = Len(b) + 2 + (i - (Len(b) + 2))
        BY <1>1, <1>2
      <4>3. QED
        BY <4>1, <4>2
    <3>2. s[i] = a[Len(a) - k + 1]
      BY <1>2, <3>1
    <3>3. i = Len(b) + 1 + (k + 1) /\ k + 1 \in 1 .. Len(a) + 1
      BY <1>1, <3>1
    <3>4. t[i] = ap[Len(a) + 1 - (k + 1) + 1]
      BY <1>3, <3>3
    <3>5. Len(a) + 1 - (k + 1) + 1 = Len(a) - k + 1 /\ Len(a) - k + 1 \in 1 .. Len(a)
      BY <1>1, <3>1
    <3>6. QED
      BY <1>1, <3>2, <3>4, <3>5
  <2>4. i \in Int /\ Len(b) \in Int
    BY <1>1, <1>2
  <2>6. QED
    BY <2>1, <2>2, <2>3, <2>4, <2>5
<1>5. s = t
  BY <1>1, <1>2, <1>3, <1>4, SameLine
<1>6. QED
  BY <1>5, <1>a, <1>b DEF s, t

\* The line of an edit: what was after the point is gone, the new layout comes
\* after it, and the oldest one is forgotten beyond the limit.
IsLineOfEdit(kept, none, S, b, p, a, e) ==
  /\ Line(kept, e, none)
       = Timeline!Latest(Append(SubSeq(Line(b, p, a), 1, Len(b) + 1), e))
  /\ kept \in Seq(S) /\ Len(kept) <= HistoryLimit
  /\ Len(Line(kept, e, none)) = Len(kept) + 1
  /\ Line(kept, e, none)[Len(kept) + 1] = e

LEMMA Edited ==
  ASSUME NEW S, NEW b \in Seq(S), NEW p \in S, NEW a \in Seq(S), NEW e \in S,
         HistoryLimit \in Nat, Len(b) <= HistoryLimit,
         NEW kept, kept = Recent(Append(b, p)),
         NEW none, none = <<>>
  PROVE  IsLineOfEdit(kept, none, S, b, p, a, e)
<1>a. PICK bp : bp = Append(b, p)
  OBVIOUS
<1>b. PICK line : line = Line(b, p, a)
  OBVIOUS
<1>c. PICK all : all = Append(bp, e)
  OBVIOUS
<1>d. PICK s : s = Line(kept, e, none)
  OBVIOUS
<1>1. /\ bp \in Seq(S) /\ Len(bp) = Len(b) + 1 /\ bp[Len(b) + 1] = p
      /\ \A i \in 1 .. Len(b) : bp[i] = b[i]
      /\ Len(b) \in Nat /\ Len(a) \in Nat
  BY <1>a
<1>2. SubSeq(line, 1, Len(b) + 1) = bp
  <2>b. IsLineOf(line, S, b, p, a)
    BY <1>b, LineFacts
  <2>1. /\ line \in Seq(S) /\ Len(line) = Len(b) + 1 + Len(a)
        /\ \A i \in 1 .. Len(b) : line[i] = b[i]
        /\ line[Len(b) + 1] = p
    BY <2>b DEF IsLineOf
  <2>a. PICK part : part = SubSeq(line, 1, Len(b) + 1)
    OBVIOUS
  <2>2. /\ part \in Seq(S) /\ Len(part) = Len(b) + 1
        /\ \A i \in 1 .. Len(b) + 1 : part[i] = line[i]
    BY <1>1, <2>1, <2>a
  <2>3. ASSUME NEW i \in 1 .. Len(b) + 1 PROVE part[i] = bp[i]
    <3>1. i = Len(b) + 1 \/ i \in 1 .. Len(b)
      BY <1>1
    <3>2. QED
      BY <1>1, <2>1, <2>2, <3>1
  <2>4. QED
    BY <1>1, <2>a, <2>2, <2>3, SameLine
<1>3. /\ all \in Seq(S) /\ Len(all) = Len(b) + 2 /\ all[Len(b) + 2] = e
      /\ \A i \in 1 .. Len(b) + 1 : all[i] = bp[i]
  BY <1>1, <1>c
<1>4. none \in Seq(S) /\ Len(none) = 0
  OBVIOUS
<1>5. Timeline!Latest(all)
        = SubSeq(all, IF Len(all) > HistoryLimit + 1 THEN Len(all) - HistoryLimit ELSE 1, Len(all))
  BY DEF Timeline!Latest
<1>6. /\ kept \in Seq(S) /\ Len(kept) <= HistoryLimit
      /\ \/ Len(bp) <= HistoryLimit /\ kept = bp
         \/ /\ Len(b) = HistoryLimit /\ Len(kept) = Len(b)
            /\ \A i \in 1 .. Len(b) : kept[i] = bp[i + 1]
  <2>1. kept = IF Len(bp) > HistoryLimit THEN Tail(bp) ELSE bp
    BY <1>a DEF Recent
  <2>2. bp # <<>>
    BY <1>1
  <2>3. /\ Tail(bp) \in Seq(S) /\ Len(Tail(bp)) = Len(b)
        /\ \A i \in 1 .. Len(b) : Tail(bp)[i] = bp[i + 1]
    BY <1>1, <2>2
  <2>4. QED
    BY <1>1, <2>1, <2>3
<1>7. /\ s \in Seq(S) /\ Len(s) = Len(kept) + 1
      /\ \A i \in 1 .. Len(kept) : s[i] = kept[i]
      /\ s[Len(kept) + 1] = e
  <2>b. IsLineOf(s, S, kept, e, none)
    BY <1>4, <1>6, <1>d, LineFacts
  <2>1. /\ s \in Seq(S) /\ Len(s) = Len(kept) + 1 + Len(none)
        /\ \A i \in 1 .. Len(kept) : s[i] = kept[i]
        /\ s[Len(kept) + 1] = e
    BY <2>b DEF IsLineOf
  <2>2. Len(kept) \in Nat
    BY <1>6
  <2>3. QED
    BY <1>4, <2>1, <2>2
<1>8. s = Timeline!Latest(all)
  <2>1. CASE Len(bp) <= HistoryLimit /\ kept = bp
    <3>1. Timeline!Latest(all) = SubSeq(all, 1, Len(all))
      <4>1. ~(Len(all) > HistoryLimit + 1)
        BY <1>1, <1>3, <2>1
      <4>2. QED
        BY <1>5, <4>1
    <3>2. SubSeq(all, 1, Len(all)) = all
      BY <1>3, SubSeqFull
    <3>3. ASSUME NEW i \in 1 .. Len(s) PROVE s[i] = all[i]
      <4>1. i = Len(b) + 2 \/ i \in 1 .. Len(b) + 1
        BY <1>1, <1>7, <2>1
      <4>2. QED
        BY <1>1, <1>3, <1>7, <2>1, <4>1
    <3>4. QED
      BY <1>1, <1>3, <1>7, <2>1, <3>1, <3>2, <3>3, SameLine
  <2>2. CASE /\ Len(b) = HistoryLimit /\ Len(kept) = Len(b)
             /\ \A i \in 1 .. Len(b) : kept[i] = bp[i + 1]
    <3>1. Timeline!Latest(all) = SubSeq(all, 2, Len(b) + 2)
      <4>1. Len(all) > HistoryLimit + 1 /\ Len(all) - HistoryLimit = 2
        BY <1>1, <1>3, <2>2
      <4>2. QED
        BY <1>3, <1>5, <4>1
    <3>a. PICK rest : rest = SubSeq(all, 2, Len(b) + 2)
      OBVIOUS
    <3>2. /\ rest \in Seq(S) /\ Len(rest) = Len(b) + 1
          /\ \A i \in 1 .. Len(b) + 1 : rest[i] = all[i + 1]
      BY <1>1, <1>3, <3>a
    <3>3. ASSUME NEW i \in 1 .. Len(s) PROVE s[i] = rest[i]
      <4>1. i = Len(b) + 1 \/ (i \in 1 .. Len(b) /\ i + 1 \in 1 .. Len(b) + 1)
        BY <1>1, <1>7, <2>2
      <4>2. Len(b) + 1 \in 1 .. Len(b) + 1
        BY <1>1
      <4>3. i \in 1 .. Len(b) + 1
        BY <1>1, <4>1
      <4>4. QED
        BY <1>1, <1>3, <1>7, <2>2, <3>2, <4>1, <4>2, <4>3
    <3>4. QED
      BY <1>7, <2>2, <3>1, <3>a, <3>2, <3>3, SameLine
  <2>3. QED
    BY <1>6, <2>1, <2>2
<1>9. QED
  BY <1>2, <1>6, <1>7, <1>8, <1>a, <1>b, <1>c, <1>d DEF IsLineOfEdit

-----------------------------------------------------------------------------
(***************************************************************************)
(* The history.                                                            *)
(***************************************************************************)
\* The inductive invariant: a history of layouts that is never too long.
HistoryInv ==
  /\ \E S : past \in Seq(S) /\ future \in Seq(S)
  /\ Len(past) + Len(future) <= HistoryLimit

\* Seen along the line of time, a step of the document does nothing, moves the
\* point, or records one edit.
Stays == UNCHANGED <<past, future, Present>>
Edits == /\ past' = Recent(Append(past, Present)) /\ future' = <<>>
         /\ Present' # Present
Undoes == /\ past # <<>> /\ past' = Front(past) /\ future' = Append(future, Present)
          /\ Present' = past[Len(past)]
Redoes == /\ future # <<>> /\ future' = Front(future) /\ past' = Append(past, Present)
          /\ Present' = future[Len(future)]
Reloads == past' = <<>> /\ future' = <<>>

LEMMA FinishIsAStep ==
  ASSUME NEW token, token # 0, NEW disposition \in {"commit", "rollback"},
         FinishTransaction(token, disposition)
  PROVE  Stays \/ Edits
<1>1. CASE transaction.token # token
  <2>1. UNCHANGED documentVars
    BY <1>1 DEF FinishTransaction
  <2>2. QED
    BY <2>1 DEF documentVars, Stays, Present
<1>2. CASE transaction.token = token
  <2>1. transaction # NoTransaction
    BY <1>2 DEF NoTransaction
  <2>2. Present = transaction.baseline
    BY <2>1 DEF Present
  <2>3. Present' = layout'
    BY <1>2 DEF FinishTransaction, Present
  <2>4. CASE disposition = "rollback"
    BY <1>2, <2>2, <2>3, <2>4 DEF FinishTransaction, Stays
  <2>5. CASE disposition = "commit" /\ layout = transaction.baseline
    BY <1>2, <2>2, <2>3, <2>5 DEF FinishTransaction, Stays
  <2>6. CASE disposition = "commit" /\ layout # transaction.baseline
    BY <1>2, <2>2, <2>3, <2>6 DEF FinishTransaction, Edits
  <2>7. QED
    BY <2>4, <2>5, <2>6
<1>3. QED
  BY <1>1, <1>2

LEMMA PreviewIsAStep == ASSUME NEW token, PreviewTransaction(token) PROVE Stays
<1>1. transaction # NoTransaction /\ UNCHANGED <<past, future, transaction>>
  BY DEF PreviewTransaction, NoTransaction
<1>2. QED
  BY <1>1 DEF Stays, Present

LEMMA BeginIsAStep ==
  ASSUME NEW interaction, NEW chosen, Begins(interaction, chosen) PROVE Stays
<1>1. /\ transaction = NoTransaction /\ transaction'.baseline = layout
      /\ UNCHANGED <<layout, past, future>>
  BY DEF Begins
<1>2. QED
  BY <1>1 DEF Stays, Present

LEMMA CommitIsAStep ==
  ASSUME NEW edited, NEW chosen, CommitEdit(edited, chosen) PROVE Stays \/ Edits
<1>1. transaction = NoTransaction /\ UNCHANGED transaction
  BY DEF CommitEdit
<1>2. Present = layout /\ Present' = layout'
  BY <1>1 DEF Present
<1>3. CASE edited = layout
  BY <1>2, <1>3 DEF CommitEdit, Stays
<1>4. CASE edited # layout
  BY <1>2, <1>4 DEF CommitEdit, Edits
<1>5. QED
  BY <1>3, <1>4

LEMMA EveryStep ==
  ASSUME [EditorNext]_editorVars
  PROVE  Stays \/ Edits \/ Undoes \/ Redoes \/ Reloads
<1>1. CASE ApplyLayout
  BY <1>1 DEF ApplyLayout, Loaded, Reloads
<1>2. CASE SelectItem \/ ClearSelection
  BY <1>2, CommitIsAStep DEF SelectItem, ClearSelection
<1>3. CASE NudgeSelection
  BY <1>3, CommitIsAStep DEF NudgeSelection
<1>4. CASE ChangeLayer
  BY <1>4, CommitIsAStep DEF ChangeLayer
<1>5. CASE ChangeCanvas
  BY <1>5, CommitIsAStep DEF ChangeCanvas
<1>6. CASE UndoEdit
  BY <1>6 DEF UndoEdit, Undoes, Present
<1>7. CASE RedoEdit
  BY <1>7 DEF RedoEdit, Redoes, Present
<1>8. CASE StartDrag
  BY <1>8, BeginIsAStep DEF StartDrag
<1>9. CASE DragMoves \/ TypeValue
  BY <1>9, PreviewIsAStep DEF DragMoves, TypeValue
<1>10. CASE DragEnds
  BY <1>10, FinishIsAStep DEF DragEnds
<1>11. CASE FocusField
  BY <1>11, BeginIsAStep DEF FocusField
<1>12. CASE LeaveField
  BY <1>12, FinishIsAStep DEF LeaveField
<1>13. CASE UNCHANGED editorVars
  BY <1>13 DEF editorVars, documentVars, Stays, Present
<1>14. QED
  BY <1>1, <1>2, <1>3, <1>4, <1>5, <1>6, <1>7, <1>8, <1>9, <1>10, <1>11, <1>12, <1>13
     DEF EditorNext

LEMMA FrontFacts ==
  ASSUME NEW S, NEW s \in Seq(S), s # <<>>
  PROVE  \E b \in Seq(S), q \in S :
           b = Front(s) /\ q = s[Len(s)] /\ s = Append(b, q) /\ Len(b) = Len(s) - 1
<1>a. PICK b : b = Front(s)
  OBVIOUS
<1>1. Len(s) \in Nat /\ Len(s) > 0
  OBVIOUS
<1>2. /\ b \in Seq(S) /\ Len(b) = Len(s) - 1
      /\ \A i \in 1 .. Len(s) - 1 : b[i] = s[i]
  <2>1. b = SubSeq(s, 1, Len(s) - 1)
    BY <1>a DEF Front
  <2>2. Len(s) - 1 \in Nat /\ 1 \in 1 .. Len(s) + 1 /\ Len(s) - 1 \in 0 .. Len(s)
    BY <1>1
  <2>3. \A i \in 1 .. Len(s) - 1 : i \in 1 .. Len(s)
    BY <1>1
  <2>4. \A i \in 1 .. Len(s) - 1 : s[i] \in S
    BY <2>3
  <2>a. PICK m : m = Len(s) - 1
    OBVIOUS
  <2>5. /\ b \in Seq(S) /\ Len(b) = IF 1 <= m THEN m - 1 + 1 ELSE 0
        /\ \A i \in 1 .. m - 1 + 1 : b[i] = s[1 + i - 1]
    BY <2>1, <2>2, <2>4, <2>a, SubSeqProperties
  <2>6. \A i \in 1 .. m : b[i] = s[i]
    BY <2>2, <2>5, <2>a
  <2>7. QED
    BY <1>1, <2>2, <2>5, <2>6, <2>a
<1>3. s[Len(s)] \in S
  BY <1>1
<1>4. s = Append(b, s[Len(s)])
  <2>a. PICK t : t = Append(b, s[Len(s)])
    OBVIOUS
  <2>1. /\ t \in Seq(S) /\ Len(t) = Len(s) /\ t[Len(s)] = s[Len(s)]
        /\ \A i \in 1 .. Len(s) - 1 : t[i] = b[i]
    BY <1>1, <1>2, <1>3, <2>a
  <2>2. ASSUME NEW i \in 1 .. Len(s) PROVE s[i] = t[i]
    <3>1. i = Len(s) \/ i \in 1 .. Len(s) - 1
      BY <1>1
    <3>2. QED
      BY <1>2, <2>1, <3>1
  <2>3. QED
    BY <2>a, <2>1, <2>2, SameLine
<1>5. QED
  BY <1>a, <1>2, <1>3, <1>4

\* Of each kind of step: the history stays within its limit, and the line of
\* time takes the step of the abstract editor.
LEMMA TimelineStep ==
  ASSUME HistoryInv, Stays \/ Edits \/ Undoes \/ Redoes \/ Reloads
  PROVE  /\ HistoryInv'
         /\ \/ Timeline!Next
            \/ UNCHANGED <<past \o <<Present>> \o Reverse(future), Len(past) + 1>>
<1>a. PICK S0 : past \in Seq(S0) /\ future \in Seq(S0)
  BY DEF HistoryInv
<1>b. PICK p, e : p = Present /\ e = Present'
  OBVIOUS
<1>c. PICK S : S = S0 \cup {p, e}
  OBVIOUS
<1>d. PICK b, a : b = past /\ a = future
  OBVIOUS
<1>e. PICK b2, a2 : b2 = past' /\ a2 = future'
  OBVIOUS
<1>1. /\ b \in Seq(S) /\ a \in Seq(S) /\ p \in S /\ e \in S
      /\ Len(b) \in Nat /\ Len(a) \in Nat /\ Len(b) + Len(a) <= HistoryLimit
  <2>1. S0 \subseteq S
    BY <1>c
  <2>2. b \in Seq(S) /\ a \in Seq(S)
    BY <1>a, <1>d, <2>1, SeqMonotonic
  <2>3. QED
    BY <1>c, <1>d, <2>2 DEF HistoryInv
<1>2. /\ past \o <<Present>> \o Reverse(future) = Line(b, p, a)
      /\ (past \o <<Present>> \o Reverse(future))' = Line(b2, e, a2)
  BY <1>b, <1>d, <1>e DEF Line
<1> DEFINE line == Line(b, p, a)
           line2 == Line(b2, e, a2)
<1>3. /\ past \o <<Present>> \o Reverse(future) = line
      /\ (past \o <<Present>> \o Reverse(future))' = line2
      /\ Len(past) = Len(b) /\ Len(past') = Len(b2)
  BY <1>2, <1>d, <1>e
<1>4. (b2 \in Seq(S) /\ a2 \in Seq(S) /\ Len(b2) + Len(a2) <= HistoryLimit) => HistoryInv'
  BY <1>e DEF HistoryInv
<1> HIDE DEF line, line2
<1>5. CASE Stays
  <2>1. b2 = b /\ a2 = a /\ e = p
    BY <1>5, <1>b, <1>d, <1>e DEF Stays
  <2>2. UNCHANGED <<past \o <<Present>> \o Reverse(future), Len(past) + 1>>
    BY <1>3, <2>1 DEF line, line2
  <2>3. QED
    BY <1>1, <1>4, <2>1, <2>2
<1>6. CASE Edits
  <2>1. b2 = Recent(Append(b, p)) /\ a2 = <<>> /\ e # p
    BY <1>6, <1>b, <1>d, <1>e DEF Edits
  <2>2. Len(b) <= HistoryLimit /\ HistoryLimit \in Nat
    BY <1>1, LimitAssumption
  <2>3. IsLineOfEdit(b2, a2, S, b, p, a, e)
    BY <1>1, <2>1, <2>2, Edited
  <2>4. /\ line2 = Timeline!Latest(Append(SubSeq(line, 1, Len(b) + 1), e))
        /\ b2 \in Seq(S) /\ Len(b2) <= HistoryLimit
        /\ Len(line2) = Len(b2) + 1 /\ line2[Len(b2) + 1] = e
    BY <2>3 DEF IsLineOfEdit, line, line2
  <2>5. IsLineOf(line, S, b, p, a)
    BY <1>1, LineFacts DEF line
  <2>6. line[Len(b) + 1] = p
    BY <2>5 DEF IsLineOf
  <2>7. a2 \in Seq(S) /\ Len(a2) = 0 /\ Len(b2) \in Nat
    BY <2>1, <2>4
  <2>8. HistoryInv'
    BY <1>4, <2>4, <2>7
  <2>9. Timeline!Edit
    BY <1>3, <2>1, <2>4, <2>6 DEF Timeline!Edit
  <2>10. QED
    BY <2>8, <2>9 DEF Timeline!Next
<1>7. CASE Undoes
  <2>1. b # <<>> /\ b2 = Front(b) /\ a2 = Append(a, p) /\ e = b[Len(b)]
    BY <1>7, <1>b, <1>d, <1>e DEF Undoes
  <2>2. b2 \in Seq(S) /\ b = Append(b2, e) /\ Len(b2) = Len(b) - 1
    BY <1>1, <2>1, FrontFacts
  <2>3. line = line2
    <3>1. Line(Append(b2, e), p, a) = Line(b2, e, Append(a, p))
      BY <1>1, <2>2, Shifted
    <3>2. QED
      BY <2>1, <2>2, <3>1 DEF line, line2
  <2>4. a2 \in Seq(S) /\ Len(a2) = Len(a) + 1 /\ Len(b2) \in Nat
    BY <1>1, <2>1, <2>2
  <2>5. HistoryInv'
    BY <1>1, <1>4, <2>2, <2>4
  <2>6. Len(b) + 1 > 1 /\ Len(b2) + 1 = Len(b) + 1 - 1
    BY <1>1, <2>2, <2>4
  <2>7. Timeline!Undo
    <3>1. Len(past) + 1 > 1 /\ Len(past') + 1 = Len(past) + 1 - 1
      BY <1>3, <2>6
    <3>2. UNCHANGED (past \o <<Present>> \o Reverse(future))
      BY <1>3, <2>3
    <3>3. QED
      BY <3>1, <3>2 DEF Timeline!Undo
  <2>8. QED
    BY <2>5, <2>7 DEF Timeline!Next
<1>8. CASE Redoes
  <2>1. a # <<>> /\ a2 = Front(a) /\ b2 = Append(b, p) /\ e = a[Len(a)]
    BY <1>8, <1>b, <1>d, <1>e DEF Redoes
  <2>2. a2 \in Seq(S) /\ a = Append(a2, e) /\ Len(a2) = Len(a) - 1
    BY <1>1, <2>1, FrontFacts
  <2>3. line2 = line
    <3>1. Line(Append(b, p), e, a2) = Line(b, p, Append(a2, e))
      BY <1>1, <2>2, Shifted
    <3>2. QED
      BY <2>1, <2>2, <3>1 DEF line, line2
  <2>4. b2 \in Seq(S) /\ Len(b2) = Len(b) + 1 /\ Len(a2) \in Nat
    BY <1>1, <2>1, <2>2
  <2>5. HistoryInv'
    BY <1>1, <1>4, <2>2, <2>4
  <2>6. IsLineOf(line, S, b, p, a)
    BY <1>1, LineFacts DEF line
  <2>7. Len(line) = Len(b) + 1 + Len(a)
    BY <2>6 DEF IsLineOf
  <2>8. Len(b) + 1 < Len(line) /\ Len(b2) + 1 = Len(b) + 1 + 1
    BY <1>1, <2>2, <2>4, <2>7
  <2>9. Timeline!Redo
    BY <1>3, <2>3, <2>8 DEF Timeline!Redo
  <2>10. QED
    BY <2>5, <2>9 DEF Timeline!Next
<1>9. CASE Reloads
  <2>1. b2 = <<>> /\ a2 = <<>>
    BY <1>9, <1>e DEF Reloads
  <2>2. b2 \in Seq(S) /\ a2 \in Seq(S) /\ Len(b2) = 0 /\ Len(a2) = 0
    BY <2>1
  <2>3. IsLineOf(line2, S, b2, e, a2)
    BY <1>1, <2>2, LineFacts DEF line2
  <2>4. Len(line2) = 1 /\ Len(b2) + 1 = 1
    BY <2>2, <2>3 DEF IsLineOf
  <2>5. Len(b2) + Len(a2) <= HistoryLimit
    BY <2>2, LimitAssumption
  <2>6. Timeline!Load
    BY <1>3, <2>4 DEF Timeline!Load
  <2>7. QED
    BY <1>4, <2>2, <2>5, <2>6 DEF Timeline!Next
<1>10. QED
  BY <1>5, <1>6, <1>7, <1>8, <1>9

LEMMA TimelineInitial == EditorInit => HistoryInv /\ Timeline!Init
<1> SUFFICES ASSUME EditorInit PROVE HistoryInv /\ Timeline!Init
  OBVIOUS
<1>1. past = <<>> /\ future = <<>>
  BY DEF EditorInit
<1>a. PICK p, S : p = Present /\ S = {p}
  OBVIOUS
<1>b. PICK b : b = <<>>
  OBVIOUS
<1>2. p \in S /\ b \in Seq(S) /\ Len(b) = 0
  BY <1>a, <1>b
<1>c. IsLineOf(Line(b, p, b), S, b, p, b)
  BY <1>2, LineFacts
<1>3. Len(Line(b, p, b)) = Len(b) + 1 + Len(b)
  BY <1>c DEF IsLineOf
<1>4. past \o <<Present>> \o Reverse(future) = Line(b, p, b)
  BY <1>1, <1>a, <1>b DEF Line
<1>5. HistoryInv
  BY <1>1, <1>2, <1>b, LimitAssumption DEF HistoryInv
<1>6. QED
  BY <1>1, <1>2, <1>3, <1>4, <1>5, <1>b DEF Timeline!Init

\* Undo and redo keep their promise: along every series of edits, drags and
\* typed values, commits and roll-backs, loads and stale tokens, the document's
\* history is one line of time that only edits change, forgotten from its old
\* end (commitEdit, finishTransaction, undo, redo of editor-document.ts).
THEOREM EditorImplementsTimeline == EditorSpec => ImplementsTimeline
<1>1. HistoryInv /\ [EditorNext]_editorVars =>
        /\ HistoryInv'
        /\ [Timeline!Next]_<<past \o <<Present>> \o Reverse(future), Len(past) + 1>>
  BY EveryStep, TimelineStep
<1>2. QED
  BY <1>1, TimelineInitial, PTL DEF EditorSpec, ImplementsTimeline, Timeline!Spec

-----------------------------------------------------------------------------
(***************************************************************************)
(* Transactions and their holders.                                         *)
(***************************************************************************)
\* The inductive invariant: no token is held that was not given out.
HoldersInv ==
  /\ nextToken \in Nat \ {0}
  /\ {drag, field} \subseteq 0 .. nextToken - 1
  /\ TransactionsHaveHolders

LEMMA BeginHasHolder ==
  ASSUME HoldersInv, NEW interaction, NEW chosen, Begins(interaction, chosen),
         \/ drag' = nextToken /\ UNCHANGED field
         \/ field' = nextToken /\ UNCHANGED drag
  PROVE  HoldersInv'
<1>1. nextToken' = nextToken + 1 /\ transaction'.token = nextToken
  BY DEF Begins
<1>2. /\ nextToken \in Nat \ {0} /\ drag \in 0 .. nextToken - 1
      /\ field \in 0 .. nextToken - 1
  BY DEF HoldersInv
<1>3. nextToken' \in Nat \ {0} /\ {drag', field'} \subseteq 0 .. nextToken' - 1
  BY <1>1, <1>2
<1>4. TransactionsHaveHolders'
  BY <1>1, <1>2 DEF TransactionsHaveHolders
<1>5. QED
  BY <1>3, <1>4 DEF HoldersInv

LEMMA FinishKeepsHolders ==
  ASSUME HoldersInv, NEW token, NEW disposition, FinishTransaction(token, disposition),
         token # 0,
         \/ token = drag /\ drag' = 0 /\ UNCHANGED field
         \/ token = field /\ field' = 0 /\ UNCHANGED drag
  PROVE  HoldersInv'
<1>1. \/ transaction' = NoTransaction
      \/ UNCHANGED transaction /\ transaction.token # token
  BY DEF FinishTransaction, documentVars
<1>2. UNCHANGED nextToken
  BY DEF FinishTransaction, documentVars
<1>3. /\ nextToken' \in Nat \ {0} /\ {drag', field'} \subseteq 0 .. nextToken' - 1
      /\ drag' # 0 => drag' # field'
  BY <1>2 DEF HoldersInv, TransactionsHaveHolders
<1>4. transaction' # NoTransaction => transaction'.token \in {drag', field'}
  BY <1>1 DEF HoldersInv, TransactionsHaveHolders
<1>5. QED
  BY <1>3, <1>4 DEF HoldersInv, TransactionsHaveHolders

LEMMA HoldersStep == HoldersInv /\ [EditorNext]_editorVars => HoldersInv'
<1> SUFFICES ASSUME HoldersInv, [EditorNext]_editorVars PROVE HoldersInv'
  OBVIOUS
<1>1. CASE UNCHANGED <<transaction, nextToken, drag, field>>
  BY <1>1 DEF HoldersInv, TransactionsHaveHolders
<1>2. CASE ApplyLayout
  BY <1>2 DEF ApplyLayout, Loaded, HoldersInv, TransactionsHaveHolders
<1>3. CASE StartDrag
  BY <1>3, BeginHasHolder DEF StartDrag
<1>4. CASE FocusField
  BY <1>4, BeginHasHolder DEF FocusField
<1>5. CASE DragEnds
  BY <1>5, FinishKeepsHolders DEF DragEnds
<1>6. CASE LeaveField
  BY <1>6, FinishKeepsHolders DEF LeaveField
<1>7. CASE SelectItem \/ ClearSelection \/ NudgeSelection \/ ChangeLayer \/ ChangeCanvas
  <2>1. \E edited, chosen : CommitEdit(edited, chosen)
    BY <1>7 DEF SelectItem, ClearSelection, NudgeSelection, ChangeLayer, ChangeCanvas
  <2>2. QED
    BY <1>1, <2>1 DEF CommitEdit
<1>8. CASE UndoEdit \/ RedoEdit
  BY <1>1, <1>8 DEF UndoEdit, RedoEdit
<1>9. CASE DragMoves \/ TypeValue
  BY <1>1, <1>9 DEF DragMoves, TypeValue, PreviewTransaction
<1>10. CASE UNCHANGED editorVars
  BY <1>1, <1>10 DEF editorVars, documentVars
<1>11. QED
  BY <1>2, <1>3, <1>4, <1>5, <1>6, <1>7, <1>8, <1>9, <1>10 DEF EditorNext

\* An open transaction can always be finished: the pointer or a field holds its
\* token, also after a load has superseded the one that either of them held,
\* and they never hold the same (beginTransaction, finishTransaction).
THEOREM TransactionsCanEnd == EditorSpec => []TransactionsHaveHolders
<1>1. EditorInit => HoldersInv
  BY DEF EditorInit, HoldersInv, TransactionsHaveHolders
<1>2. HoldersInv => TransactionsHaveHolders
  BY DEF HoldersInv
<1>3. QED
  BY <1>1, <1>2, HoldersStep, PTL DEF EditorSpec

-----------------------------------------------------------------------------
(***************************************************************************)
(* The requests of the editor's session.                                   *)
(***************************************************************************)
LEMMA BagFacts ==
  ASSUME NEW B, NEW x
  PROVE  /\ BagToSet(BagAdd(B, x)) = BagToSet(B) \cup {x}
         /\ BagToSet(BagRemove(B, x)) \subseteq BagToSet(B)
BY DEF BagToSet, BagAdd, BagRemove

LoadRequest == [composition : Compositions, byEffect : BOOLEAN]
SendRequest == [composition : Compositions, type : {"save", "render"},
                layout : Compositions \cup {NoComposition}]

\* What makes the editor wait is set together with what is waited for.
WaitsForSomething ==
  /\ isCompositionLoading => BagToSet(loads) # {}
  /\ authSession # "none" /\ settledToken # Token(authSession) => listAsked

\* The inductive invariant.
SessionIInv == CompositionTypeOK /\ WaitsForSomething

LEMMA EffectsKeep ==
  ASSUME CompositionTypeOK,
         NEW session \in {"none", "stored", "restored", "linked"},
         NEW composition \in Compositions \cup {NoComposition},
         NEW ended, BagToSet(ended) \subseteq LoadRequest,
         NEW waits \in BOOLEAN, waits => BagToSet(ended) # {},
         Effects(session, composition, didLoadRemote, ended, waits)
  PROVE  /\ authSession' \in {"none", "stored", "restored", "linked"}
         /\ remote' \in Compositions \cup {NoComposition}
         /\ {listAsked', didLoadRemote', isCompositionLoading'} \subseteq BOOLEAN
         /\ BagToSet(loads') \subseteq LoadRequest
         /\ isCompositionLoading' => BagToSet(loads') # {}
         /\ authSession' # "none" => listAsked'
<1>1. /\ authSession' = session /\ remote' = composition
      /\ listAsked' = (session # "none")
      /\ didLoadRemote' = (didLoadRemote \/ LoadsRemote(session, composition, didLoadRemote))
      /\ isCompositionLoading' = (waits \/ LoadsRemote(session, composition, didLoadRemote))
  BY DEF Effects, AsksList
<1>2. didLoadRemote \in BOOLEAN /\ LoadsRemote(session, composition, didLoadRemote) \in BOOLEAN
  BY DEF CompositionTypeOK, LoadsRemote
<1>3. CASE LoadsRemote(session, composition, didLoadRemote)
  <2>a. PICK request : request = [composition |-> composition, byEffect |-> TRUE]
    OBVIOUS
  <2>1. loads' = BagAdd(ended, request)
    BY <1>3, <2>a DEF Effects
  <2>2. request \in LoadRequest
    BY <1>3, <2>a DEF LoadsRemote, LoadRequest
  <2>3. BagToSet(loads') = BagToSet(ended) \cup {request}
    BY <2>1, BagFacts
  <2>4. QED
    BY <1>1, <1>2, <2>2, <2>3
<1>4. CASE ~LoadsRemote(session, composition, didLoadRemote)
  <2>1. loads' = ended
    BY <1>4 DEF Effects
  <2>2. QED
    BY <1>1, <1>2, <1>4, <2>1
<1>5. QED
  BY <1>3, <1>4

LEMMA BeginsLoadKeeps ==
  ASSUME CompositionTypeOK, NEW composition \in Compositions, BeginsLoad(composition)
  PROVE  /\ isCompositionLoading' = TRUE
         /\ BagToSet(loads') \subseteq LoadRequest /\ BagToSet(loads') # {}
<1>a. PICK request : request = [composition |-> composition, byEffect |-> FALSE]
  OBVIOUS
<1>1. loads' = BagAdd(loads, request) /\ isCompositionLoading' = TRUE
  BY <1>a DEF BeginsLoad
<1>2. request \in LoadRequest /\ BagToSet(loads) \subseteq LoadRequest
  BY <1>a DEF LoadRequest, CompositionTypeOK
<1>3. BagToSet(loads') = BagToSet(loads) \cup {request}
  BY <1>1, BagFacts
<1>4. QED
  BY <1>1, <1>2, <1>3

LEMMA SessionStep == SessionIInv /\ [CompositionNext]_compositionVars => SessionIInv'
<1> SUFFICES ASSUME SessionIInv, [CompositionNext]_compositionVars PROVE SessionIInv'
  OBVIOUS
<1>1. CompositionTypeOK /\ WaitsForSomething
  BY DEF SessionIInv
<1>2. BagToSet(loads) \subseteq LoadRequest /\ BagToSet(sends) \subseteq SendRequest
  BY <1>1 DEF CompositionTypeOK, LoadRequest, SendRequest
<1>3. Token(authSession) \in {"none", "old", "linked"}
  BY <1>1 DEF CompositionTypeOK, Token
<1>4. CASE SessionChecked
  <2>1. PICK session \in {"restored", "none"} :
          Effects(session, remote, didLoadRemote, loads, isCompositionLoading)
    BY <1>4 DEF SessionChecked
  <2>2. UNCHANGED <<loginPending, selected, listed, settledToken, sends, opened>>
    BY <1>4 DEF SessionChecked
  <2>3. /\ authSession' \in {"none", "stored", "restored", "linked"}
        /\ remote' \in Compositions \cup {NoComposition}
        /\ {listAsked', didLoadRemote', isCompositionLoading'} \subseteq BOOLEAN
        /\ BagToSet(loads') \subseteq LoadRequest
        /\ isCompositionLoading' => BagToSet(loads') # {}
        /\ authSession' # "none" => listAsked'
    BY <1>1, <1>2, <2>1, EffectsKeep DEF CompositionTypeOK, WaitsForSomething
  <2>4. QED
    BY <1>1, <2>2, <2>3
       DEF SessionIInv, CompositionTypeOK, WaitsForSomething, LoadRequest
<1>5. CASE StartLogin
  BY <1>1, <1>5 DEF StartLogin, SessionIInv, CompositionTypeOK, WaitsForSomething
<1>6. CASE LoginAnswered
  <2>1. CASE Effects("linked", remote, didLoadRemote, loads, isCompositionLoading)
    <3>1. loginPending' = FALSE /\ UNCHANGED <<selected, listed, settledToken, sends, opened>>
      BY <1>6 DEF LoginAnswered
    <3>2. /\ authSession' \in {"none", "stored", "restored", "linked"}
          /\ remote' \in Compositions \cup {NoComposition}
          /\ {listAsked', didLoadRemote', isCompositionLoading'} \subseteq BOOLEAN
          /\ BagToSet(loads') \subseteq LoadRequest
          /\ isCompositionLoading' => BagToSet(loads') # {}
          /\ authSession' # "none" => listAsked'
      BY <1>1, <1>2, <2>1, EffectsKeep DEF CompositionTypeOK, WaitsForSomething
    <3>3. QED
      BY <1>1, <3>1, <3>2
         DEF SessionIInv, CompositionTypeOK, WaitsForSomething, LoadRequest
  <2>2. CASE UNCHANGED <<authSession, remote, listAsked, loads, isCompositionLoading,
                         didLoadRemote>>
    BY <1>1, <1>6, <2>2
       DEF LoginAnswered, SessionIInv, CompositionTypeOK, WaitsForSomething
  <2>3. QED
    BY <1>6, <2>1, <2>2 DEF LoginAnswered
<1>7. CASE ListAnswered
  <2>1. /\ settledToken' = Token(authSession')
        /\ UNCHANGED <<authVars, remote, sends, didLoadRemote, opened>>
    BY <1>7 DEF ListAnswered, authVars
  <2>2. CASE \E first \in Compositions :
               /\ listed' = TRUE
               /\ selected' = first /\ BeginsLoad(first) /\ UNCHANGED listAsked
    <3>1. PICK first \in Compositions :
            listed' = TRUE /\ selected' = first /\ BeginsLoad(first) /\ UNCHANGED listAsked
      BY <2>2
    <3>2. /\ isCompositionLoading' = TRUE
          /\ BagToSet(loads') \subseteq LoadRequest /\ BagToSet(loads') # {}
      BY <1>1, <3>1, BeginsLoadKeeps
    <3>3. QED
      BY <1>1, <1>3, <2>1, <3>1, <3>2
         DEF SessionIInv, CompositionTypeOK, WaitsForSomething, LoadRequest, authVars
  <2>3. CASE /\ listed' \in BOOLEAN /\ listAsked' = FALSE
             /\ UNCHANGED <<selected, loads, isCompositionLoading>>
    BY <1>1, <1>3, <2>1, <2>3
       DEF SessionIInv, CompositionTypeOK, WaitsForSomething, authVars
  <2>4. listed \in BOOLEAN
    BY <1>1 DEF CompositionTypeOK
  <2>5. QED
    BY <1>7, <2>2, <2>3, <2>4 DEF ListAnswered
<1>8. CASE SelectComposition
  <2>1. PICK composition \in Compositions :
          selected' = composition /\ BeginsLoad(composition)
    BY <1>8 DEF SelectComposition
  <2>2. /\ isCompositionLoading' = TRUE
        /\ BagToSet(loads') \subseteq LoadRequest /\ BagToSet(loads') # {}
    BY <1>1, <2>1, BeginsLoadKeeps
  <2>3. QED
    BY <1>1, <1>8, <2>1, <2>2
       DEF SelectComposition, SessionIInv, CompositionTypeOK, WaitsForSomething, LoadRequest,
           authVars
<1>9. CASE LoadFromCode
  <2>1. PICK composition \in Compositions : BeginsLoad(composition)
    BY <1>9 DEF LoadFromCode
  <2>2. /\ isCompositionLoading' = TRUE
        /\ BagToSet(loads') \subseteq LoadRequest /\ BagToSet(loads') # {}
    BY <1>1, <2>1, BeginsLoadKeeps
  <2>3. QED
    BY <1>1, <1>9, <2>2
       DEF LoadFromCode, SessionIInv, CompositionTypeOK, WaitsForSomething, LoadRequest, authVars
<1>10. CASE LoadAnswered
  <2>1. PICK load \in BagToSet(loads) :
          \/ /\ opened' = load.composition
             /\ Effects(authSession, load.composition, didLoadRemote, BagRemove(loads, load), FALSE)
          \/ /\ loads' = BagRemove(loads, load) /\ isCompositionLoading' = FALSE
             /\ didLoadRemote' = (didLoadRemote /\ ~load.byEffect)
             /\ UNCHANGED <<authSession, remote, listAsked, opened>>
    BY <1>10 DEF LoadAnswered
  <2>2. UNCHANGED <<loginPending, selected, listed, settledToken, sends>>
    BY <1>10 DEF LoadAnswered
  <2>a. PICK others : others = BagRemove(loads, load)
    OBVIOUS
  <2>3. load.composition \in Compositions /\ BagToSet(others) \subseteq LoadRequest
    BY <1>2, <2>a, BagFacts DEF LoadRequest
  <2>4. CASE /\ opened' = load.composition
             /\ Effects(authSession, load.composition, didLoadRemote, others, FALSE)
    <3>1. /\ authSession' \in {"none", "stored", "restored", "linked"}
          /\ remote' \in Compositions \cup {NoComposition}
          /\ {listAsked', didLoadRemote', isCompositionLoading'} \subseteq BOOLEAN
          /\ BagToSet(loads') \subseteq LoadRequest
          /\ isCompositionLoading' => BagToSet(loads') # {}
          /\ authSession' # "none" => listAsked'
      BY <1>1, <2>3, <2>4, EffectsKeep DEF CompositionTypeOK
    <3>2. QED
      BY <1>1, <2>2, <2>3, <2>4, <3>1
         DEF SessionIInv, CompositionTypeOK, WaitsForSomething, LoadRequest
  <2>5. CASE /\ loads' = others /\ isCompositionLoading' = FALSE
             /\ didLoadRemote' = (didLoadRemote /\ ~load.byEffect)
             /\ UNCHANGED <<authSession, remote, listAsked, opened>>
    BY <1>1, <2>2, <2>3, <2>5
       DEF SessionIInv, CompositionTypeOK, WaitsForSomething, LoadRequest
  <2>6. QED
    BY <2>1, <2>a, <2>4, <2>5
<1>11. CASE Save \/ Render
  <2>1. PICK type \in {"save", "render"} : Sends(type)
    BY <1>11 DEF Save, Render
  <2>a. PICK send : send = [composition |-> remote, type |-> type, layout |-> opened]
    OBVIOUS
  <2>2. sends' = BagAdd(sends, send) /\ remote # NoComposition
    BY <2>1, <2>a DEF Sends
  <2>3. send \in SendRequest
    BY <1>1, <2>a, <2>2 DEF SendRequest, CompositionTypeOK
  <2>4. BagToSet(sends') \subseteq SendRequest
    BY <1>2, <2>2, <2>3, BagFacts
  <2>5. QED
    BY <1>1, <2>1, <2>4
       DEF Sends, SessionIInv, CompositionTypeOK, WaitsForSomething, SendRequest, authVars
<1>12. CASE SendAnswered
  <2>1. PICK send \in BagToSet(sends) :
          /\ sends' = BagRemove(sends, send)
          /\ \/ Effects(authSession, send.composition, didLoadRemote, loads, isCompositionLoading)
             \/ UNCHANGED <<authSession, remote, listAsked, loads, isCompositionLoading,
                            didLoadRemote>>
    BY <1>12 DEF SendAnswered
  <2>2. UNCHANGED <<loginPending, selected, listed, settledToken, opened>>
    BY <1>12 DEF SendAnswered
  <2>3. send.composition \in Compositions /\ BagToSet(sends') \subseteq SendRequest
    BY <1>2, <2>1, BagFacts DEF SendRequest
  <2>4. CASE Effects(authSession, send.composition, didLoadRemote, loads, isCompositionLoading)
    <3>1. /\ authSession' \in {"none", "stored", "restored", "linked"}
          /\ remote' \in Compositions \cup {NoComposition}
          /\ {listAsked', didLoadRemote', isCompositionLoading'} \subseteq BOOLEAN
          /\ BagToSet(loads') \subseteq LoadRequest
          /\ isCompositionLoading' => BagToSet(loads') # {}
          /\ authSession' # "none" => listAsked'
      BY <1>1, <1>2, <2>3, <2>4, EffectsKeep DEF CompositionTypeOK, WaitsForSomething
    <3>2. QED
      BY <1>1, <2>2, <2>3, <3>1
         DEF SessionIInv, CompositionTypeOK, WaitsForSomething, LoadRequest, SendRequest
  <2>5. CASE UNCHANGED <<authSession, remote, listAsked, loads, isCompositionLoading,
                         didLoadRemote>>
    BY <1>1, <2>2, <2>3, <2>5
       DEF SessionIInv, CompositionTypeOK, WaitsForSomething, SendRequest
  <2>6. QED
    BY <2>1, <2>4, <2>5
<1>13. CASE UNCHANGED compositionVars
  BY <1>1, <1>13
     DEF compositionVars, SessionIInv, CompositionTypeOK, WaitsForSomething
<1>14. QED
  BY <1>4, <1>5, <1>6, <1>7, <1>8, <1>9, <1>10, <1>11, <1>12, <1>13 DEF CompositionNext

LEMMA SessionInitial == CompositionInit => SessionIInv
<1> SUFFICES ASSUME CompositionInit PROVE SessionIInv
  OBVIOUS
<1>1. /\ authSession \in {"none", "stored"} /\ loginPending = FALSE
      /\ remote \in Compositions \cup {NoComposition}
      /\ selected = NoComposition /\ listed = FALSE /\ settledToken = "none"
      /\ listAsked = (authSession # "none")
      /\ didLoadRemote = LoadsRemote(authSession, remote, FALSE)
      /\ isCompositionLoading = didLoadRemote
      /\ opened = NoComposition
  BY DEF CompositionInit
<1>a. PICK request : request = [composition |-> remote, byEffect |-> TRUE]
  OBVIOUS
<1>2. BagToSet(loads) = IF didLoadRemote THEN {request} ELSE {}
  BY <1>a DEF CompositionInit, BagToSet, SetToBag, EmptyBag
<1>3. didLoadRemote \in BOOLEAN /\ (didLoadRemote => remote \in Compositions)
  BY <1>1 DEF LoadsRemote
<1>4. BagToSet(sends) = {}
  BY DEF CompositionInit, BagToSet, SetToBag, EmptyBag
<1>5. BagToSet(loads) \subseteq [composition: Compositions, byEffect: BOOLEAN]
  <2>1. CASE didLoadRemote
    <3>1. request \in [composition: Compositions, byEffect: BOOLEAN]
      BY <1>3, <1>a, <2>1
    <3>2. QED
      BY <1>2, <2>1, <3>1
  <2>2. CASE ~didLoadRemote
    BY <1>2, <2>2
  <2>3. QED
    BY <2>1, <2>2
<1>6. CompositionTypeOK
  BY <1>1, <1>3, <1>4, <1>5 DEF CompositionTypeOK
<1>7. WaitsForSomething
  BY <1>1, <1>2, <1>3 DEF WaitsForSomething
<1>8. QED
  BY <1>6, <1>7 DEF SessionIInv

\* The editor waits only for what is still to come, in whatever order the
\* session, lists, loads, saves and renders are answered, and for any number
\* of compositions and requests (isLoading, loadComposition).
THEOREM SessionInvariant == CompositionSpec => []CompositionInv
<1>1. SessionIInv => CompositionInv
  BY DEF SessionIInv, WaitsForSomething, CompositionInv, SkeletonIsTemporary, IsLoading
<1>2. QED
  BY <1>1, SessionInitial, SessionStep, PTL DEF CompositionSpec

\* The open composition and the one that the document holds part only by the
\* late answer to a save or a render (loadComposition, save and render of
\* use-composition-session.ts).
THEOREM OnlyLateAnswersPart == CompositionSpec => OnlyLateAnswersSplit
<1> DEFINE Parts == remote = opened /\ remote' # opened'
                      => \E send \in BagToSet(sends) : /\ sends' = BagRemove(sends, send)
                                                       /\ send.composition = remote'
                                                       /\ send.composition # opened
<1>1. ASSUME CompositionNext PROVE Parts
  <2>1. CASE LoadAnswered
    BY <2>1 DEF LoadAnswered, Effects
  <2>2. CASE SendAnswered
    BY <2>2 DEF SendAnswered, Effects
  <2>3. CASE SessionChecked \/ LoginAnswered
    BY <2>3 DEF SessionChecked, LoginAnswered, Effects
  <2>4. CASE StartLogin \/ ListAnswered \/ SelectComposition \/ LoadFromCode \/ Save \/ Render
    BY <2>4 DEF StartLogin, ListAnswered, SelectComposition, LoadFromCode, Save, Render, Sends
  <2>5. QED
    BY <1>1, <2>1, <2>2, <2>3, <2>4 DEF CompositionNext
<1>2. [CompositionNext]_compositionVars => [Parts]_compositionVars
  BY <1>1
<1>3. QED
  BY <1>2, PTL DEF CompositionSpec, OnlyLateAnswersSplit
=============================================================================
