---------------------------- MODULE ServerProofs ----------------------------
(***************************************************************************)
(* Proofs about the parts of the server that share no variable: cursors,   *)
(* pings, the results of completed rooms and the players' sessions.        *)
(***************************************************************************)
EXTENDS RoomFinalization, RoomCursors, RoomPings, PlayerIdentity, FiniteSetTheorems,
        WellFoundedInduction, TLAPS

-----------------------------------------------------------------------------
(***************************************************************************)
(* The cursors.  What a page will show of a player once it has read its    *)
(* messages is what the last message about the player says, or what it     *)
(* shows already when there is none.                                       *)
(***************************************************************************)
ViewRecord == [drawn : BOOLEAN, active : BOOLEAN, bubble : BOOLEAN]
CursorMessage == [type : {"state"}, cursors : SUBSET Guest]
                   \cup [type : {"moved", "hidden", "left"}, by : Guest]
                   \cup [type : {"chat"}, by : Guest, placed : BOOLEAN]

CursorStores ==
  /\ page \in [Tab -> {"none", "open", "entered", "joined", "deaf", "left"}]
  /\ leaves \subseteq Guest /\ cursors \subseteq Guest /\ late \subseteq Guest
  /\ views \in [Tab -> [Guest -> ViewRecord]]
  /\ inbox \in [Tab -> Seq(CursorMessage)]

Concerns(m, g) == m.type = "state" \/ (m.type \in {"moved", "hidden", "left"} /\ m.by = g)
SaysShown(m, g) == IF m.type = "state" THEN g \in m.cursors ELSE m.type = "moved"

\* A page with this view of g shows its cursor, once it has read the messages, if
\* g is among those who have one.
EndsShown(messages, g, view, who) ==
  /\ \A i \in 1 .. Len(messages) :
       /\ Concerns(messages[i], g)
       /\ \A j \in i + 1 .. Len(messages) : ~Concerns(messages[j], g)
       => (SaysShown(messages[i], g) <=> g \in who)
  /\ (\A i \in 1 .. Len(messages) : ~Concerns(messages[i], g)) => (view.active <=> g \in who)

\* Whose cursors a page is sure to show in the end.
Settled(t, g) == g \in Guest \ (late \cup leaves \cup {GuestOf[t]})

PagesCatchUp ==
  \A t \in Tab, g \in Guest : page[t] = "joined" /\ Settled(t, g) =>
    EndsShown(inbox[t], g, views[t][g], cursors)

\* The inductive invariant.
CursorsIInv == CursorStores /\ CursorsTypeOK /\ NoViewIsLeftOver /\ PagesCatchUp

\* One more message.
LEMMA OneMore ==
  ASSUME NEW messages \in Seq(CursorMessage), NEW m \in CursorMessage, NEW g \in Guest,
         NEW view, NEW who,
         IF Concerns(m, g) THEN SaysShown(m, g) <=> g \in who
         ELSE EndsShown(messages, g, view, who)
  PROVE  EndsShown(Append(messages, m), g, view, who)
<1> DEFINE n == Len(messages)
           all == Append(messages, m)
<1>1. /\ n \in Nat /\ Len(all) = n + 1 /\ all[n + 1] = m
      /\ \A i \in 1 .. n : all[i] = messages[i]
  OBVIOUS
<1> HIDE DEF n, all
<1>2. CASE Concerns(m, g)
  BY <1>1, <1>2 DEF EndsShown
<1>3. CASE ~Concerns(m, g)
  <2>1. EndsShown(messages, g, view, who)
    BY <1>3
  <2>2. ASSUME NEW i \in 1 .. n + 1, Concerns(all[i], g),
               \A j \in i + 1 .. n + 1 : ~Concerns(all[j], g)
        PROVE  SaysShown(all[i], g) <=> g \in who
    <3>1. i \in 1 .. n /\ all[i] = messages[i]
      BY <1>1, <1>3, <2>2
    <3>2. \A j \in i + 1 .. n : ~Concerns(messages[j], g)
      BY <1>1, <2>2, <3>1
    <3>3. QED
      BY <2>1, <2>2, <3>1, <3>2 DEF EndsShown, n
  <2>3. ASSUME \A i \in 1 .. n + 1 : ~Concerns(all[i], g) PROVE view.active <=> g \in who
    <3>1. \A i \in 1 .. n : ~Concerns(messages[i], g)
      BY <1>1, <2>3
    <3>2. QED
      BY <2>1, <3>1 DEF EndsShown, n
  <2>4. EndsShown(all, g, view, who)
    BY <1>1, <2>2, <2>3 DEF EndsShown
  <2>5. QED
    BY <2>4 DEF all
<1>4. QED
  BY <1>2, <1>3 DEF all

\* The first message is read.
LEMMA OneLess ==
  ASSUME NEW messages \in Seq(CursorMessage), messages # <<>>, NEW g \in Guest,
         NEW view, NEW who, NEW now,
         EndsShown(messages, g, view, who),
         now.active <=> IF Concerns(Head(messages), g) THEN SaysShown(Head(messages), g) ELSE view.active
  PROVE  EndsShown(Tail(messages), g, now, who)
<1> DEFINE n == Len(messages)
           rest == Tail(messages)
<1>1. /\ n \in Nat \ {0} /\ Len(rest) = n - 1 /\ Head(messages) = messages[1]
      /\ \A i \in 1 .. n - 1 : rest[i] = messages[i + 1]
  OBVIOUS
<1> HIDE DEF n, rest
<1>2. \A i \in 2 .. n : messages[i] = rest[i - 1]
  BY <1>1
<1>3. ASSUME NEW i \in 1 .. n - 1, Concerns(rest[i], g),
             \A j \in i + 1 .. n - 1 : ~Concerns(rest[j], g)
      PROVE  SaysShown(rest[i], g) <=> g \in who
  <2>1. \A j \in (i + 1) + 1 .. n : ~Concerns(messages[j], g)
    BY <1>1, <1>2, <1>3
  <2>2. i + 1 \in 1 .. n /\ messages[i + 1] = rest[i]
    BY <1>1, <1>3
  <2>3. QED
    BY <1>3, <2>1, <2>2 DEF EndsShown, n
<1>4. ASSUME \A i \in 1 .. n - 1 : ~Concerns(rest[i], g) PROVE now.active <=> g \in who
  <2>1. \A i \in 2 .. n : ~Concerns(messages[i], g)
    BY <1>1, <1>2, <1>4
  <2>2. CASE Concerns(messages[1], g)
    <3>1. SaysShown(messages[1], g) <=> g \in who
      BY <1>1, <2>1, <2>2 DEF EndsShown, n
    <3>2. QED
      BY <1>1, <2>2, <3>1
  <2>3. CASE ~Concerns(messages[1], g)
    <3>1. \A i \in 1 .. n : ~Concerns(messages[i], g)
      BY <1>1, <2>1, <2>3
    <3>2. view.active <=> g \in who
      BY <3>1 DEF EndsShown, n
    <3>3. QED
      BY <1>1, <2>3, <3>2
  <2>4. QED
    BY <2>2, <2>3
<1>5. EndsShown(rest, g, now, who)
  BY <1>1, <1>3, <1>4 DEF EndsShown
<1>6. QED
  BY <1>5 DEF rest

\* The first two conditions of the invariant say what a message does to a view.
LEMMA ReceivedViews ==
  ASSUME CursorsIInv, NEW t \in Tab, NEW m \in CursorMessage
  PROVE  LET new == Received(views[t], t, m)
         IN  /\ new \in [Guest -> ViewRecord]
             /\ ~new[GuestOf[t]].drawn
             /\ \A g \in Guest : new[g].drawn <=> new[g].active \/ new[g].bubble
             /\ \A g \in Guest \ {GuestOf[t]} :
                  new[g].active <=> IF Concerns(m, g) THEN SaysShown(m, g) ELSE views[t][g].active
<1> DEFINE old == views[t]
           me == GuestOf[t]
<1>1. /\ old \in [Guest -> ViewRecord] /\ me \in Guest /\ ~old[me].drawn
      /\ \A g \in Guest : old[g].drawn <=> old[g].active \/ old[g].bubble
  BY CursorsAssumption DEF CursorsIInv, CursorStores, CursorsTypeOK, NoViewIsLeftOver
<1>2. \A v \in ViewRecord :
        /\ Applied(v) \in ViewRecord /\ Applied(v).drawn /\ Applied(v).active
        /\ Removed(v) \in ViewRecord /\ ~Removed(v).active
        /\ (v.drawn <=> v.active \/ v.bubble) => (Removed(v).drawn <=> Removed(v).bubble)
        /\ Removed(v).drawn => v.bubble
  BY DEF ViewRecord, Applied, Removed, NoView
<1>3. \A v \in ViewRecord : \A placed \in BOOLEAN :
        /\ Chatted(v, placed) \in ViewRecord /\ Chatted(v, placed).active = v.active
        /\ (v.drawn <=> v.active \/ v.bubble) =>
             (Chatted(v, placed).drawn <=> Chatted(v, placed).active \/ Chatted(v, placed).bubble)
  BY DEF ViewRecord, Chatted
<1> HIDE DEF old, me
<1>4. CASE m.type = "state"
  <2>1. /\ m.cursors \subseteq Guest
        /\ Received(old, t, m) = [g \in Guest |-> IF g \in m.cursors /\ g # me THEN Applied(old[g])
                                                 ELSE Removed(old[g])]
    BY <1>4 DEF Received, Synced, CursorMessage, me
  <2>2. \A g \in Guest : Concerns(m, g) /\ (SaysShown(m, g) <=> g \in m.cursors)
    BY <1>4 DEF Concerns, SaysShown
  <2>3. QED
    BY <1>1, <1>2, <2>1, <2>2 DEF old, me
<1>5. CASE m.type = "moved"
  <2>1. /\ m.by \in Guest
        /\ Received(old, t, m) = IF m.by # me THEN [old EXCEPT ![m.by] = Applied(@)] ELSE old
    BY <1>5 DEF Received, IsOther, CursorMessage, me
  <2>2. \A g \in Guest : (Concerns(m, g) <=> m.by = g) /\ SaysShown(m, g)
    BY <1>5 DEF Concerns, SaysShown
  <2>3. QED
    BY <1>1, <1>2, <2>1, <2>2 DEF old, me
<1>6. CASE m.type \in {"hidden", "left"}
  <2>1. m.by \in Guest /\ Received(old, t, m) = [old EXCEPT ![m.by] = Removed(@)]
    BY <1>6 DEF Received, CursorMessage
  <2>2. \A g \in Guest : (Concerns(m, g) <=> m.by = g) /\ ~SaysShown(m, g)
    BY <1>6 DEF Concerns, SaysShown
  <2>3. QED
    BY <1>1, <1>2, <2>1, <2>2 DEF old, me
<1>7. CASE m.type = "chat"
  <2>1. /\ m.by \in Guest /\ m.placed \in BOOLEAN
        /\ Received(old, t, m) = IF m.by # me THEN [old EXCEPT ![m.by] = Chatted(@, m.placed)]
                                 ELSE old
    BY <1>7 DEF Received, IsOther, CursorMessage, me
  <2>2. \A g \in Guest : ~Concerns(m, g)
    BY <1>7 DEF Concerns
  <2>3. QED
    BY <1>1, <1>3, <2>1, <2>2 DEF old, me
<1>8. QED
  BY <1>4, <1>5, <1>6, <1>7 DEF CursorMessage

LEMMA ReceiveKeeps == ASSUME CursorsIInv, NEW t \in Tab, Receive(t) PROVE CursorsIInv'
<1> DEFINE m == Head(inbox[t])
           new == Received(views[t], t, m)
<1>1. /\ inbox[t] # <<>> /\ inbox[t] \in Seq(CursorMessage)
      /\ inbox' = [inbox EXCEPT ![t] = Tail(@)] /\ views' = [views EXCEPT ![t] = new]
      /\ UNCHANGED <<page, leaves, cursors, late>>
  BY DEF Receive, CursorsIInv, CursorStores
<1>2. m \in CursorMessage /\ Tail(inbox[t]) \in Seq(CursorMessage)
  BY <1>1
<1>3. /\ new \in [Guest -> ViewRecord]
      /\ ~new[GuestOf[t]].drawn
      /\ \A g \in Guest : new[g].drawn <=> new[g].active \/ new[g].bubble
      /\ \A g \in Guest \ {GuestOf[t]} :
           new[g].active <=> IF Concerns(m, g) THEN SaysShown(m, g) ELSE views[t][g].active
  BY <1>2, ReceivedViews
<1> HIDE DEF new, m
<1>4. /\ views'[t] = new /\ inbox'[t] = Tail(inbox[t])
      /\ \A u \in Tab \ {t} : views'[u] = views[u] /\ inbox'[u] = inbox[u]
  BY <1>1 DEF CursorsIInv, CursorStores
<1>5. CursorStores'
  BY <1>1, <1>2, <1>3 DEF CursorsIInv, CursorStores
<1>6. CursorsTypeOK' /\ NoViewIsLeftOver'
  BY <1>1, <1>3, <1>4 DEF CursorsIInv, CursorsTypeOK, NoViewIsLeftOver, InRoom
<1>7. PagesCatchUp'
  <2> SUFFICES ASSUME NEW u \in Tab, NEW g \in Guest, page[u] = "joined", Settled(u, g)
               PROVE  EndsShown(inbox'[u], g, views'[u][g], cursors)
    BY <1>1 DEF PagesCatchUp, Settled
  <2>1. EndsShown(inbox[u], g, views[u][g], cursors)
    BY DEF CursorsIInv, PagesCatchUp
  <2>2. CASE u # t
    BY <1>4, <2>1, <2>2
  <2>3. CASE u = t
    <3>1. new[g].active <=> IF Concerns(m, g) THEN SaysShown(m, g) ELSE views[t][g].active
      BY <1>3, <2>3 DEF Settled
    <3>2. EndsShown(Tail(inbox[t]), g, new[g], cursors)
      BY <1>1, <2>1, <2>3, <3>1, OneLess DEF m
    <3>3. QED
      BY <1>4, <2>3, <3>2
  <2>4. QED
    BY <2>2, <2>3
<1>8. QED
  BY <1>5, <1>6, <1>7 DEF CursorsIInv

\* Only the cursor of the player counts.
LEMMA SameEnd ==
  ASSUME NEW messages, NEW g, NEW view, NEW view2, NEW who, NEW who2,
         EndsShown(messages, g, view, who),
         view2.active <=> view.active, g \in who2 <=> g \in who
  PROVE  EndsShown(messages, g, view2, who2)
BY DEF EndsShown

\* The pages hear a message that is right about everybody it concerns.
LEMMA TellKeeps ==
  ASSUME CursorsIInv, NEW except, NEW m \in CursorMessage,
         Tell(except, <<m>>), UNCHANGED <<page, views>>,
         leaves' \subseteq Guest, cursors' \subseteq Guest, late' \subseteq Guest,
         \A g \in cursors' : \E t \in Tab : InRoom(t) /\ GuestOf[t] = g,
         \A t \in Tab, g \in Guest : page[t] = "joined" /\ Settled(t, g)' =>
           IF t \notin except /\ Concerns(m, g) THEN SaysShown(m, g) <=> g \in cursors'
           ELSE Settled(t, g) /\ (g \in cursors' <=> g \in cursors)
  PROVE  CursorsIInv'
<1>1. \A t \in Tab : inbox[t] \in Seq(CursorMessage)
  BY DEF CursorsIInv, CursorStores
<1>2. \A t \in Tab : inbox[t] \o <<m>> = Append(inbox[t], m)
                     /\ Append(inbox[t], m) \in Seq(CursorMessage)
  BY <1>1
<1>3. inbox' = [t \in Tab |-> IF page[t] = "joined" /\ t \notin except THEN Append(inbox[t], m)
                              ELSE inbox[t]]
  BY <1>2 DEF Tell
<1>4. CursorStores'
  BY <1>1, <1>2, <1>3 DEF CursorsIInv, CursorStores
<1>5. CursorsTypeOK' /\ NoViewIsLeftOver'
  BY DEF CursorsIInv, CursorsTypeOK, NoViewIsLeftOver, InRoom
<1>6. PagesCatchUp'
  <2> SUFFICES ASSUME NEW t \in Tab, NEW g \in Guest, page[t] = "joined", Settled(t, g)'
               PROVE  EndsShown(inbox'[t], g, views[t][g], cursors')
    BY DEF PagesCatchUp
  <2>1. CASE t \notin except /\ Concerns(m, g)
    <3>1. SaysShown(m, g) <=> g \in cursors'
      BY <2>1
    <3>2. EndsShown(Append(inbox[t], m), g, views[t][g], cursors')
      BY <1>1, <2>1, <3>1, OneMore
    <3>3. QED
      BY <1>3, <2>1, <3>2
  <2>2. CASE ~(t \notin except /\ Concerns(m, g))
    <3>1. Settled(t, g) /\ (g \in cursors' <=> g \in cursors)
      BY <2>2
    <3>2. EndsShown(inbox[t], g, views[t][g], cursors)
      BY <3>1 DEF CursorsIInv, PagesCatchUp
    <3>3. EndsShown(inbox[t], g, views[t][g], cursors')
      BY <3>1, <3>2, SameEnd
    <3>4. t \notin except => EndsShown(Append(inbox[t], m), g, views[t][g], cursors')
      BY <1>1, <2>2, <3>3, OneMore
    <3>5. QED
      BY <1>3, <3>3, <3>4
  <2>3. QED
    BY <2>1, <2>2
<1>7. QED
  BY <1>4, <1>5, <1>6 DEF CursorsIInv

LEMMA MoveCursorKeeps == ASSUME CursorsIInv, NEW t \in Tab, MoveCursor(t) PROVE CursorsIInv'
<1> DEFINE me == GuestOf[t]
           m == [type |-> "moved", by |-> me]
<1>1. /\ InRoom(t) /\ cursors' = cursors \cup {me} /\ Tell({t}, <<m>>) /\ late' = late \ {me}
      /\ UNCHANGED <<page, leaves, views>> /\ me \in Guest
  BY CursorsAssumption DEF MoveCursor
<1>2. m \in CursorMessage /\ \A g : (Concerns(m, g) <=> g = me) /\ SaysShown(m, g)
  BY <1>1 DEF CursorMessage, Concerns, SaysShown
<1>3. leaves' \subseteq Guest /\ cursors' \subseteq Guest /\ late' \subseteq Guest
  BY <1>1 DEF CursorsIInv, CursorStores
<1>4. \A g \in cursors' : \E u \in Tab : InRoom(u) /\ GuestOf[u] = g
  BY <1>1 DEF CursorsIInv, CursorsTypeOK
<1>5. \A u \in Tab, g \in Guest : Settled(u, g)' =>
        /\ u \notin {t} /\ Concerns(m, g) => (SaysShown(m, g) <=> g \in cursors')
        /\ ~(u \notin {t} /\ Concerns(m, g)) => Settled(u, g) /\ (g \in cursors' <=> g \in cursors)
  BY <1>1, <1>2 DEF Settled
<1> HIDE DEF m, me
<1>6. QED
  BY <1>1, <1>2, <1>3, <1>4, <1>5, TellKeeps

LEMMA HideCursorKeeps == ASSUME CursorsIInv, NEW t \in Tab, HideCursor(t) PROVE CursorsIInv'
<1> DEFINE me == GuestOf[t]
           m == [type |-> "hidden", by |-> me]
<1>1. /\ cursors' = cursors \ {me} /\ Tell({t}, <<m>>)
      /\ UNCHANGED <<page, leaves, views, late>> /\ me \in Guest
  BY CursorsAssumption DEF HideCursor
<1>2. m \in CursorMessage /\ \A g : (Concerns(m, g) <=> g = me) /\ ~SaysShown(m, g)
  BY <1>1 DEF CursorMessage, Concerns, SaysShown
<1>3. leaves' \subseteq Guest /\ cursors' \subseteq Guest /\ late' \subseteq Guest
  BY <1>1 DEF CursorsIInv, CursorStores
<1>4. \A g \in cursors' : \E u \in Tab : InRoom(u) /\ GuestOf[u] = g
  BY <1>1 DEF CursorsIInv, CursorsTypeOK
<1>5. \A u \in Tab, g \in Guest : Settled(u, g)' =>
        /\ u \notin {t} /\ Concerns(m, g) => (SaysShown(m, g) <=> g \in cursors')
        /\ ~(u \notin {t} /\ Concerns(m, g)) => Settled(u, g) /\ (g \in cursors' <=> g \in cursors)
  BY <1>1, <1>2 DEF Settled
<1> HIDE DEF m, me
<1>6. QED
  BY <1>1, <1>2, <1>3, <1>4, <1>5, TellKeeps

LEMMA ChatKeeps ==
  ASSUME CursorsIInv, NEW t \in Tab, NEW placed \in BOOLEAN, Chat(t, placed)
  PROVE  CursorsIInv'
<1> DEFINE m == [type |-> "chat", by |-> GuestOf[t], placed |-> placed]
<1>1. Tell({}, <<m>>) /\ UNCHANGED <<page, leaves, cursors, views, late>>
  BY DEF Chat
<1>2. m \in CursorMessage /\ \A g : ~Concerns(m, g)
  BY CursorsAssumption DEF CursorMessage, Concerns
<1>3. leaves' \subseteq Guest /\ cursors' \subseteq Guest /\ late' \subseteq Guest
  BY <1>1 DEF CursorsIInv, CursorStores
<1>4. \A g \in cursors' : \E u \in Tab : InRoom(u) /\ GuestOf[u] = g
  BY <1>1 DEF CursorsIInv, CursorsTypeOK
<1>5. \A u \in Tab, g \in Guest : Settled(u, g)' =>
        Settled(u, g) /\ (g \in cursors' <=> g \in cursors)
  BY <1>1 DEF Settled
<1> HIDE DEF m
<1>6. QED
  BY <1>1, <1>2, <1>3, <1>4, <1>5, TellKeeps

LEMMA RenameGuestKeeps ==
  ASSUME CursorsIInv, NEW by \in Guest, RenameGuest(by) PROVE CursorsIInv'
<1> DEFINE m == [type |-> "moved", by |-> by]
<1>1. /\ by \in cursors /\ Tell({}, <<m>>) /\ late' = late \ {by}
      /\ UNCHANGED <<page, leaves, cursors, views>>
  BY DEF RenameGuest
<1>2. m \in CursorMessage /\ \A g : (Concerns(m, g) <=> g = by) /\ SaysShown(m, g)
  BY DEF CursorMessage, Concerns, SaysShown
<1>3. leaves' \subseteq Guest /\ cursors' \subseteq Guest /\ late' \subseteq Guest
  BY <1>1 DEF CursorsIInv, CursorStores
<1>4. \A g \in cursors' : \E u \in Tab : InRoom(u) /\ GuestOf[u] = g
  BY <1>1 DEF CursorsIInv, CursorsTypeOK
<1>5. \A u \in Tab, g \in Guest : Settled(u, g)' =>
        /\ Concerns(m, g) => (SaysShown(m, g) <=> g \in cursors')
        /\ ~Concerns(m, g) => Settled(u, g) /\ (g \in cursors' <=> g \in cursors)
  BY <1>1, <1>2 DEF Settled
<1> HIDE DEF m
<1>6. QED
  BY <1>1, <1>2, <1>3, <1>4, <1>5, TellKeeps

\* The two messages at the end of a leave say that the cursor is gone; who has
\* one again is late.
LEMMA EndLeavingKeeps ==
  ASSUME CursorsIInv, NEW by \in Guest, EndLeaving(by) PROVE CursorsIInv'
<1> DEFINE m1 == [type |-> "hidden", by |-> by]
           m2 == [type |-> "left", by |-> by]
<1>1. /\ leaves' = leaves \ {by} /\ Tell({}, <<m1, m2>>) /\ late' = late \cup (cursors \cap {by})
      /\ UNCHANGED <<page, cursors, views>>
  BY DEF EndLeaving
<1>2. /\ m1 \in CursorMessage /\ m2 \in CursorMessage
      /\ \A g : (Concerns(m1, g) <=> g = by) /\ (Concerns(m2, g) <=> g = by) /\ ~SaysShown(m2, g)
  BY DEF CursorMessage, Concerns, SaysShown
<1>3. \A t \in Tab : inbox[t] \in Seq(CursorMessage)
  BY DEF CursorsIInv, CursorStores
<1>4. inbox' = [t \in Tab |-> IF page[t] = "joined" THEN inbox[t] \o <<m1, m2>> ELSE inbox[t]]
  BY <1>1 DEF Tell
<1> HIDE DEF m1, m2
<1>5. \A t \in Tab : /\ inbox[t] \o <<m1, m2>> = Append(Append(inbox[t], m1), m2)
                     /\ Append(inbox[t], m1) \in Seq(CursorMessage)
                     /\ Append(Append(inbox[t], m1), m2) \in Seq(CursorMessage)
  BY <1>2, <1>3
<1>6. CursorStores'
  BY <1>1, <1>3, <1>4, <1>5 DEF CursorsIInv, CursorStores
<1>7. CursorsTypeOK' /\ NoViewIsLeftOver'
  BY <1>1 DEF CursorsIInv, CursorsTypeOK, NoViewIsLeftOver, InRoom
<1>8. PagesCatchUp'
  <2> SUFFICES ASSUME NEW t \in Tab, NEW g \in Guest, page[t] = "joined", Settled(t, g)'
               PROVE  EndsShown(inbox'[t], g, views[t][g], cursors)
    BY <1>1 DEF PagesCatchUp
  <2>1. inbox'[t] = Append(Append(inbox[t], m1), m2)
    BY <1>4, <1>5
  <2>2. CASE g = by
    <3>1. SaysShown(m2, g) <=> g \in cursors
      BY <1>1, <1>2, <2>2 DEF Settled
    <3>2. QED
      BY <1>2, <1>5, <2>1, <2>2, <3>1, OneMore
  <2>3. CASE g # by
    <3>1. EndsShown(inbox[t], g, views[t][g], cursors)
      BY <1>1, <2>3 DEF CursorsIInv, PagesCatchUp, Settled
    <3>2. EndsShown(Append(inbox[t], m1), g, views[t][g], cursors)
      BY <1>2, <1>3, <2>3, <3>1, OneMore
    <3>3. QED
      BY <1>2, <1>5, <2>1, <2>3, <3>2, OneMore
  <2>4. QED
    BY <2>2, <2>3
<1>9. QED
  BY <1>6, <1>7, <1>8 DEF CursorsIInv

\* A page goes on, or ends a bubble: nobody who is in the room leaves it.
LEMMA OpenPageKeeps == ASSUME CursorsIInv, NEW t \in Tab, OpenPage(t) PROVE CursorsIInv'
<1> DEFINE m == [type |-> "state", cursors |-> cursors]
           new == Received(views[t], t, m)
<1>1. /\ page[t] = "none" /\ page' = [page EXCEPT ![t] = "open"]
      /\ views' = [views EXCEPT ![t] = new]
      /\ UNCHANGED <<leaves, cursors, inbox, late>>
  BY DEF OpenPage, Received
<1>2. m \in CursorMessage
  BY DEF CursorsIInv, CursorStores, CursorMessage
<1>3. /\ new \in [Guest -> ViewRecord] /\ ~new[GuestOf[t]].drawn
      /\ \A g \in Guest : new[g].drawn <=> new[g].active \/ new[g].bubble
  BY <1>2, ReceivedViews
<1> HIDE DEF new, m
<1>4. /\ views'[t] = new /\ page'[t] = "open"
      /\ \A u \in Tab \ {t} : views'[u] = views[u] /\ page'[u] = page[u]
  BY <1>1 DEF CursorsIInv, CursorStores
<1>5. CursorStores'
  BY <1>1, <1>3 DEF CursorsIInv, CursorStores
<1>6. \A u \in Tab : InRoom(u)' <=> InRoom(u)
  BY <1>1, <1>4 DEF InRoom
<1>7. CursorsTypeOK' /\ NoViewIsLeftOver'
  BY <1>1, <1>3, <1>4, <1>6 DEF CursorsIInv, CursorsTypeOK, NoViewIsLeftOver
<1>8. PagesCatchUp'
  BY <1>1, <1>4 DEF CursorsIInv, PagesCatchUp, Settled
<1>9. QED
  BY <1>5, <1>7, <1>8 DEF CursorsIInv

LEMMA BubbleEndsKeeps ==
  ASSUME CursorsIInv, NEW t \in Tab, NEW g \in Guest, BubbleEnds(t, g) PROVE CursorsIInv'
<1> DEFINE new == WithoutBubble(views[t][g])
<1>1. /\ views' = [views EXCEPT ![t] = [views[t] EXCEPT ![g] = new]]
      /\ UNCHANGED <<page, leaves, cursors, inbox, late>> /\ views[t][g] \in ViewRecord
      /\ views[t][g].drawn <=> views[t][g].active \/ views[t][g].bubble
  BY DEF BubbleEnds, CursorsIInv, CursorStores, NoViewIsLeftOver
<1>2. /\ new \in ViewRecord /\ (new.drawn <=> new.active \/ new.bubble)
      /\ new.active <=> views[t][g].active
      /\ new.drawn => views[t][g].drawn
  BY <1>1 DEF WithoutBubble, ViewRecord, NoView
<1> HIDE DEF new
<1>3. /\ views'[t][g] = new
      /\ \A u \in Tab, o \in Guest : <<u, o>> # <<t, g>> => views'[u][o] = views[u][o]
      /\ views' \in [Tab -> [Guest -> ViewRecord]]
  BY <1>1, <1>2 DEF CursorsIInv, CursorStores
<1>4. CursorStores'
  BY <1>1, <1>3 DEF CursorsIInv, CursorStores
<1>5. CursorsTypeOK'
  BY <1>1, <1>2, <1>3, CursorsAssumption DEF CursorsIInv, CursorsTypeOK, InRoom
<1>6. NoViewIsLeftOver'
  BY <1>2, <1>3 DEF CursorsIInv, NoViewIsLeftOver
<1>7. PagesCatchUp'
  <2> SUFFICES ASSUME NEW u \in Tab, NEW o \in Guest, page[u] = "joined", Settled(u, o)
               PROVE  EndsShown(inbox[u], o, views'[u][o], cursors)
    BY <1>1 DEF PagesCatchUp, Settled
  <2>1. EndsShown(inbox[u], o, views[u][o], cursors)
    BY DEF CursorsIInv, PagesCatchUp
  <2>2. views'[u][o].active <=> views[u][o].active
    BY <1>2, <1>3
  <2>3. QED
    BY <2>1, <2>2, SameEnd
<1>8. QED
  BY <1>4, <1>5, <1>6, <1>7 DEF CursorsIInv

LEMMA EntersKeeps ==
  ASSUME CursorsIInv, NEW t \in Tab, EnterCursorRoom(t) \/ JoinThrows(t) PROVE CursorsIInv'
<1>1. /\ page[t] \in {"open", "entered"}
      /\ page' \in {[page EXCEPT ![t] = "entered"], [page EXCEPT ![t] = "deaf"]}
      /\ UNCHANGED <<leaves, cursors, inbox, views, late>>
  BY DEF EnterCursorRoom, JoinThrows
<1>2. page'[t] \in {"entered", "deaf"} /\ \A u \in Tab \ {t} : page'[u] = page[u]
  BY <1>1 DEF CursorsIInv, CursorStores
<1>3. \A u \in Tab : InRoom(u) => InRoom(u)'
  BY <1>2 DEF InRoom
<1>4. CursorStores' /\ CursorsTypeOK' /\ NoViewIsLeftOver'
  BY <1>1, <1>3 DEF CursorsIInv, CursorStores, CursorsTypeOK, NoViewIsLeftOver
<1>5. PagesCatchUp'
  BY <1>1, <1>2 DEF CursorsIInv, PagesCatchUp, Settled
<1>6. QED
  BY <1>4, <1>5 DEF CursorsIInv

LEMMA JoinReturnsKeeps == ASSUME CursorsIInv, NEW t \in Tab, JoinReturns(t) PROVE CursorsIInv'
<1> DEFINE m == [type |-> "state", cursors |-> cursors]
<1>1. /\ page[t] = "entered" /\ page' = [page EXCEPT ![t] = "joined"]
      /\ inbox' = [inbox EXCEPT ![t] = Append(@, m)]
      /\ UNCHANGED <<leaves, cursors, views, late>>
  BY DEF JoinReturns
<1>2. /\ m \in CursorMessage
      /\ \A g : Concerns(m, g) /\ (SaysShown(m, g) <=> g \in cursors)
  BY DEF CursorsIInv, CursorStores, CursorMessage, Concerns, SaysShown
<1>3. inbox[t] \in Seq(CursorMessage)
  BY DEF CursorsIInv, CursorStores
<1> HIDE DEF m
<1>4. Append(inbox[t], m) \in Seq(CursorMessage)
  BY <1>2, <1>3
<1>5. /\ page'[t] = "joined" /\ inbox'[t] = Append(inbox[t], m)
      /\ \A u \in Tab \ {t} : page'[u] = page[u] /\ inbox'[u] = inbox[u]
  BY <1>1 DEF CursorsIInv, CursorStores
<1>6. \A u \in Tab : InRoom(u) => InRoom(u)'
  BY <1>5 DEF InRoom
<1>7. CursorStores' /\ CursorsTypeOK' /\ NoViewIsLeftOver'
  BY <1>1, <1>4, <1>6 DEF CursorsIInv, CursorStores, CursorsTypeOK, NoViewIsLeftOver
<1>8. PagesCatchUp'
  <2> SUFFICES ASSUME NEW u \in Tab, NEW g \in Guest, page'[u] = "joined", Settled(u, g)
               PROVE  EndsShown(inbox'[u], g, views[u][g], cursors)
    BY <1>1 DEF PagesCatchUp, Settled
  <2>1. CASE u = t
    <3>1. EndsShown(Append(inbox[t], m), g, views[t][g], cursors)
      BY <1>2, <1>3, OneMore
    <3>2. QED
      BY <1>5, <2>1, <3>1
  <2>2. CASE u # t
    BY <1>5, <2>2 DEF CursorsIInv, PagesCatchUp
  <2>3. QED
    BY <2>1, <2>2
<1>9. QED
  BY <1>7, <1>8 DEF CursorsIInv

LEMMA BeginLeavingKeeps == ASSUME CursorsIInv, NEW t \in Tab, BeginLeaving(t) PROVE CursorsIInv'
<1> DEFINE me == GuestOf[t]
           stays == \E u \in Tab \ {t} : InRoom(u) /\ GuestOf[u] = me
<1>1. /\ page' = [page EXCEPT ![t] = "left"] /\ inbox' = [inbox EXCEPT ![t] = <<>>]
      /\ cursors' = IF stays THEN cursors ELSE cursors \ {me}
      /\ leaves' = IF stays THEN leaves ELSE leaves \cup {me}
      /\ UNCHANGED <<views, late>> /\ me \in Guest
  BY CursorsAssumption DEF BeginLeaving
<1>2. /\ page'[t] = "left" /\ \A u \in Tab \ {t} : page'[u] = page[u] /\ inbox'[u] = inbox[u]
  BY <1>1 DEF CursorsIInv, CursorStores
<1>3. \A u \in Tab \ {t} : InRoom(u)' <=> InRoom(u)
  BY <1>2 DEF InRoom
<1>4. CursorStores' /\ NoViewIsLeftOver'
  BY <1>1 DEF CursorsIInv, CursorStores, NoViewIsLeftOver
<1>5. CursorsTypeOK'
  <2>1. ASSUME NEW g \in cursors' PROVE \E u \in Tab : InRoom(u)' /\ GuestOf[u] = g
    <3>1. PICK u \in Tab : InRoom(u) /\ GuestOf[u] = g
      BY <1>1, <2>1 DEF CursorsIInv, CursorsTypeOK
    <3>2. CASE u # t
      BY <1>3, <3>1, <3>2
    <3>3. CASE u = t
      <4>1. stays
        BY <1>1, <2>1, <3>1, <3>3
      <4>2. QED
        BY <1>3, <3>1, <3>3, <4>1
    <3>4. QED
      BY <3>2, <3>3
  <2>2. QED
    BY <1>1, <2>1 DEF CursorsIInv, CursorsTypeOK
<1>6. PagesCatchUp'
  <2> SUFFICES ASSUME NEW u \in Tab, NEW g \in Guest, page'[u] = "joined", Settled(u, g)'
               PROVE  EndsShown(inbox'[u], g, views[u][g], cursors')
    BY <1>1 DEF PagesCatchUp
  <2>1. u # t /\ page[u] = "joined" /\ Settled(u, g) /\ (g \in cursors' <=> g \in cursors)
    BY <1>1, <1>2 DEF Settled
  <2>2. EndsShown(inbox[u], g, views[u][g], cursors)
    BY <2>1 DEF CursorsIInv, PagesCatchUp
  <2>3. QED
    BY <1>2, <2>1, <2>2, SameEnd
<1>7. QED
  BY <1>4, <1>5, <1>6 DEF CursorsIInv

\* Every step of the system keeps the inductive invariant: one case per action.
LEMMA StepKeepsCursors == CursorsIInv /\ [CursorsNext]_cursorVars => CursorsIInv'
<1> SUFFICES ASSUME CursorsIInv, [CursorsNext]_cursorVars PROVE CursorsIInv'
  OBVIOUS
<1>1. ASSUME NEW t \in Tab,
             \/ OpenPage(t) \/ Receive(t) \/ EnterCursorRoom(t) \/ JoinReturns(t) \/ JoinThrows(t)
             \/ MoveCursor(t) \/ HideCursor(t) \/ BeginLeaving(t)
      PROVE  CursorsIInv'
  BY <1>1, OpenPageKeeps, ReceiveKeeps, EntersKeeps, JoinReturnsKeeps, MoveCursorKeeps,
     HideCursorKeeps, BeginLeavingKeeps
<1>2. ASSUME NEW t \in Tab, NEW placed \in BOOLEAN, Chat(t, placed) PROVE CursorsIInv'
  BY <1>2, ChatKeeps
<1>3. ASSUME NEW t \in Tab, NEW g \in Guest, BubbleEnds(t, g) PROVE CursorsIInv'
  BY <1>3, BubbleEndsKeeps
<1>4. ASSUME NEW g \in Guest, RenameGuest(g) \/ EndLeaving(g) PROVE CursorsIInv'
  BY <1>4, RenameGuestKeeps, EndLeavingKeeps
<1>5. CASE UNCHANGED cursorVars
  BY <1>5 DEF cursorVars, CursorsIInv, CursorStores, CursorsTypeOK, NoViewIsLeftOver, InRoom,
              PagesCatchUp, Settled
<1>6. QED
  BY <1>1, <1>2, <1>3, <1>4, <1>5 DEF CursorsNext

LEMMA InitCursors == CursorsInit => CursorsIInv
<1> SUFFICES ASSUME CursorsInit PROVE CursorsIInv
  OBVIOUS
<1>1. NoView \in ViewRecord /\ ~NoView.drawn /\ ~NoView.active /\ ~NoView.bubble
  BY DEF NoView, ViewRecord
<1>2. views = [t \in Tab |-> [g \in Guest |-> NoView]]
  BY DEF CursorsInit
<1>3. CursorStores
  BY <1>1, <1>2 DEF CursorsInit, CursorStores
<1>4. CursorsTypeOK /\ NoViewIsLeftOver
  BY <1>1, <1>2, CursorsAssumption DEF CursorsInit, CursorsTypeOK, NoViewIsLeftOver
<1>5. PagesCatchUp
  BY DEF CursorsInit, PagesCatchUp
<1>6. QED
  BY <1>3, <1>4, <1>5 DEF CursorsIInv

\* A page that has read its messages draws the cursors of the others who are in
\* the room, and nothing of those who are gone, for any number of pages and
\* players (cursorCommand, broadcast and the overlay of cursors.ts); who moved
\* again before a leave was told is left out.
THEOREM CursorsInvariant == CursorsSpec => []CursorsInv
<1>1. ASSUME CursorsIInv PROVE CursorsInv
  <2>1. ASSUME NEW t \in Tab, page[t] = "joined", inbox[t] = <<>>,
               NEW g \in Guest \ (late \cup leaves \cup {GuestOf[t]})
        PROVE  views[t][g].active <=> g \in cursors
    <3>1. EndsShown(<<>>, g, views[t][g], cursors)
      BY <1>1, <2>1 DEF CursorsIInv, PagesCatchUp, Settled
    <3>2. QED
      BY <3>1 DEF EndsShown
  <2>2. QED
    BY <1>1, <2>1 DEF CursorsIInv, CursorsInv, CursorsSettle
<1>2. CursorsSpec => []CursorsIInv
  BY InitCursors, StepKeepsCursors, PTL DEF CursorsSpec
<1>3. QED
  BY <1>1, <1>2, PTL

-----------------------------------------------------------------------------
(***************************************************************************)
(* The pings.  An id names one ping wherever it is: waiting for its turn,  *)
(* being appended, on record or on a page; it moves on and never comes     *)
(* back.                                                                   *)
(***************************************************************************)
Ping == [by : Pinger, id : Nat]
PingView == [by : Pinger, id : Nat, startedAt : Nat, waited : BOOLEAN]
PingEvent == [by : Pinger, id : Nat, at : Nat]
NeverOr == Nat \cup {-1}

PingStores ==
  /\ time \in Nat /\ made \in Nat
  /\ asked \in Seq(Ping) /\ appending \in Ping \cup {NoPing}
  /\ lastPing \in [Pinger -> NeverOr] /\ pingLog \in Seq(PingEvent)
  /\ passedOn \in [Pinger -> Seq(Ping)]
  /\ loaded \in [Pinger -> BOOLEAN]
  /\ lastShownAt \in [Pinger -> [Pinger -> NeverOr]]
  /\ preparing \in [Pinger -> SUBSET Ping] /\ shown \in [Pinger -> SUBSET PingView]

PingOf(v) == [by |-> v.by, id |-> v.id]
OnPage(p) == preparing[p] \cup {PingOf(v) : v \in shown[p]}

KnownPings ==
  {asked[i] : i \in DOMAIN asked} \cup ({appending} \ {NoPing})
    \cup {PingOf(pingLog[i]) : i \in DOMAIN pingLog} \cup UNION {OnPage(p) : p \in Pinger}

OnePingPerId == \A x, y \in KnownPings : x.id <= made /\ (x.id = y.id => x = y)

\* A ping waits, is appended and is on record, once and one after the other.
InTurn ==
  /\ \A i, j \in DOMAIN asked : asked[i].id = asked[j].id => i = j
  /\ \A i \in DOMAIN asked : appending # NoPing => asked[i].id # appending.id
  /\ \A k \in DOMAIN pingLog :
       /\ \A i \in DOMAIN asked : pingLog[k].id # asked[i].id
       /\ appending # NoPing => pingLog[k].id # appending.id
  /\ \A i, j \in DOMAIN pingLog : pingLog[i].id = pingLog[j].id => i = j

\* A page hears of a ping on record once, and does not have it yet, if it is
\* not its own.
HeardOnce ==
  \A p \in Pinger :
    /\ \A i, j \in DOMAIN passedOn[p] : passedOn[p][i].id = passedOn[p][j].id => i = j
    /\ \A i \in DOMAIN passedOn[p] :
         /\ \E k \in DOMAIN pingLog : PingOf(pingLog[k]) = passedOn[p][i]
         /\ passedOn[p][i].by # p => passedOn[p][i] \notin OnPage(p)

OthersOnRecord(p) ==
  \A x \in OnPage(p) : x.by # p => \E k \in DOMAIN pingLog : PingOf(pingLog[k]) = x

\* What a page shows is under way, once, and what has not waited for the sound
\* is paced.
PageOK(p) ==
  /\ \A v \in shown[p] :
       v.startedAt + Duration > time /\ v.startedAt <= time /\ PingOf(v) \notin preparing[p]
  /\ \A v, w \in shown[p] : v.id = w.id => v = w
  /\ \A q \in Pinger : lastShownAt[p][q] <= time
  /\ \A v \in shown[p] : ~v.waited => v.startedAt <= lastShownAt[p][v.by]
  /\ \A v, w \in shown[p] : ~v.waited /\ ~w.waited /\ v.by = w.by /\ v # w =>
       v.startedAt - w.startedAt >= Cooldown \/ w.startedAt - v.startedAt >= Cooldown

\* Everything that counts for q came before what the room holds q to.
CountedBefore(q, at) ==
  IF appending # NoPing /\ appending.by = q THEN lastPing[q] - at >= Cooldown
  ELSE IF lastPing[q] >= 0 THEN at <= lastPing[q] ELSE time - at >= Cooldown
PaceKept ==
  /\ \A q \in Pinger : lastPing[q] <= time
  /\ appending # NoPing => lastPing[appending.by] >= 0
  /\ \A i \in DOMAIN pingLog :
       pingLog[i].id \notin doubted => CountedBefore(pingLog[i].by, pingLog[i].at)

\* The inductive invariant.
PingsIInv ==
  /\ PingStores /\ OnePingPerId /\ InTurn /\ HeardOnce
  /\ \A p \in Pinger : PageOK(p) /\ OthersOnRecord(p)
  /\ PaceKept /\ PingsArePaced

\* What a sequence is after one element came or went.
LEMMA AppendFacts ==
  ASSUME NEW S, NEW s \in Seq(S), NEW e \in S
  PROVE  /\ Append(s, e) \in Seq(S) /\ Len(s) \in Nat
         /\ DOMAIN s = 1 .. Len(s) /\ DOMAIN Append(s, e) = 1 .. Len(s) + 1
         /\ Append(s, e)[Len(s) + 1] = e
         /\ \A i \in 1 .. Len(s) : Append(s, e)[i] = s[i]
OBVIOUS

LEMMA TailFacts ==
  ASSUME NEW S, NEW s \in Seq(S), s # <<>>
  PROVE  /\ Tail(s) \in Seq(S) /\ Len(s) \in Nat \ {0} /\ Head(s) = s[1] /\ s[1] \in S
         /\ DOMAIN s = 1 .. Len(s) /\ DOMAIN Tail(s) = 1 .. Len(s) - 1
         /\ \A i \in 1 .. Len(s) - 1 : Tail(s)[i] = s[i + 1]
<1>1. Tail(s) \in Seq(S) /\ Len(s) \in Nat \ {0} /\ Head(s) = s[1] /\ Len(Tail(s)) = Len(s) - 1
  OBVIOUS
<1>2. s[1] \in S
  BY <1>1
<1>3. \A i \in 1 .. Len(s) - 1 : Tail(s)[i] = s[i + 1]
  OBVIOUS
<1>4. DOMAIN s = 1 .. Len(s) /\ DOMAIN Tail(s) = 1 .. Len(s) - 1
  BY <1>1
<1>5. QED
  BY <1>1, <1>2, <1>3, <1>4

LEMMA PingStoresFacts ==
  ASSUME PingsIInv
  PROVE  /\ PingStores
         /\ \A i \in DOMAIN asked : asked[i] \in Ping
         /\ \A k \in DOMAIN pingLog : pingLog[k] \in PingEvent
         /\ \A p \in Pinger : \A i \in DOMAIN passedOn[p] : passedOn[p][i] \in Ping
         /\ \A p \in Pinger : shown[p] \subseteq PingView /\ preparing[p] \subseteq Ping
         /\ NoPing \notin Ping
<1>1. PingStores /\ NoPing \notin Ping
  BY PingsAssumption DEF PingsIInv, Ping
<1>2. \A i \in DOMAIN asked : asked[i] \in Ping
  BY <1>1 DEF PingStores
<1>3. \A k \in DOMAIN pingLog : pingLog[k] \in PingEvent
  BY <1>1 DEF PingStores
<1>4. \A p \in Pinger : passedOn[p] \in Seq(Ping)
  BY <1>1 DEF PingStores
<1>5. \A p \in Pinger : shown[p] \subseteq PingView /\ preparing[p] \subseteq Ping
  BY <1>1 DEF PingStores
<1>6. QED
  BY <1>1, <1>2, <1>3, <1>4, <1>5

\* No ping appears from nowhere.
LEMMA NoNewPing ==
  ASSUME OnePingPerId, KnownPings' \subseteq KnownPings, made' = made
  PROVE  OnePingPerId'
BY DEF OnePingPerId

\* The page part of the invariant is about the clock and the page.
LEMMA PageStays ==
  ASSUME NEW p \in Pinger, PageOK(p), time' = time, shown'[p] = shown[p],
         preparing'[p] = preparing[p], lastShownAt'[p] = lastShownAt[p]
  PROVE  PageOK(p)'
BY DEF PageOK

LEMMA OnPageStays ==
  ASSUME NEW p, shown'[p] = shown[p], preparing'[p] = preparing[p]
  PROVE  OnPage(p)' = OnPage(p)
BY DEF OnPage

\* What the server does leaves the pages alone.
LEMMA ServerOnly ==
  ASSUME PingsIInv, UNCHANGED <<time, made, pageOfPings>>
  PROVE  /\ \A p \in Pinger : PageOK(p)' /\ OnPage(p)' = OnPage(p)
         /\ \A p \in Pinger : shown'[p] = shown[p] /\ preparing'[p] = preparing[p]
<1>1. \A p \in Pinger : /\ shown'[p] = shown[p] /\ preparing'[p] = preparing[p]
                        /\ lastShownAt'[p] = lastShownAt[p]
  BY DEF pageOfPings
<1>2. \A p \in Pinger : PageOK(p)' /\ OnPage(p)' = OnPage(p)
  BY <1>1, PageStays, OnPageStays DEF PingsIInv
<1>3. QED
  BY <1>1, <1>2

LEMMA BeginPingKeeps == ASSUME PingsIInv, BeginPing PROVE PingsIInv'
<1> DEFINE ping == asked[1]
           n == Len(asked)
<1>1. /\ asked # <<>> /\ appending = NoPing /\ asked' = Tail(asked)
      /\ \/ TooSoon(lastPing, ping.by) /\ UNCHANGED <<appending, lastPing>>
         \/ /\ ~TooSoon(lastPing, ping.by)
            /\ appending' = ping /\ lastPing' = [lastPing EXCEPT ![ping.by] = time]
      /\ UNCHANGED <<time, pingLog, passedOn, pageOfPings, made, pingFaults, doubted>>
  BY DEF BeginPing, PingsIInv, PingStores
<1>2. /\ n \in Nat \ {0} /\ ping \in Ping /\ DOMAIN asked = 1 .. n
      /\ asked' \in Seq(Ping) /\ DOMAIN asked' = 1 .. n - 1
      /\ \A i \in 1 .. n - 1 : asked'[i] = asked[i + 1]
  BY <1>1, TailFacts DEF PingsIInv, PingStores
<1>3. PingStores /\ NoPing \notin Ping
  BY PingStoresFacts
<1> HIDE DEF ping, n
<1>4. ping.by \in Pinger /\ ping.id \in Nat
  BY <1>2 DEF Ping
<1>5. PingStores'
  <2>1. time \in NeverOr /\ lastPing \in [Pinger -> NeverOr]
    BY <1>3 DEF PingStores, NeverOr
  <2>2. [lastPing EXCEPT ![ping.by] = time] \in [Pinger -> NeverOr]
    BY <1>4, <2>1
  <2>3. lastPing' \in [Pinger -> NeverOr]
    BY <1>1, <2>1, <2>2
  <2>4. appending' \in Ping \cup {NoPing}
    BY <1>1, <1>2
  <2>5. QED
    BY <1>1, <1>2, <1>3, <2>3, <2>4 DEF PingStores, pageOfPings
<1>6. \A p \in Pinger : PageOK(p)' /\ OnPage(p)' = OnPage(p)
  BY <1>1, ServerOnly
<1>7. \A i \in 1 .. n - 1 : i + 1 \in DOMAIN asked /\ i + 1 # 1
  BY <1>2
<1>8. OnePingPerId'
  <2>1. ping \in KnownPings
    BY <1>2 DEF KnownPings, ping
  <2>2. \A i \in DOMAIN asked' : asked'[i] \in KnownPings
    BY <1>2, <1>7 DEF KnownPings
  <2>3. KnownPings' \subseteq KnownPings
    BY <1>1, <1>6, <2>1, <2>2 DEF KnownPings
  <2>4. QED
    BY <1>1, <2>3, NoNewPing DEF PingsIInv
<1>9. InTurn'
  <2>1. InTurn /\ 1 \in DOMAIN asked
    BY <1>2 DEF PingsIInv
  <2>2. ASSUME NEW i \in DOMAIN asked', NEW j \in DOMAIN asked', asked'[i].id = asked'[j].id
        PROVE  i = j
    <3>1. i + 1 = j + 1
      BY <1>2, <1>7, <2>1, <2>2 DEF InTurn
    <3>2. QED
      BY <1>2, <3>1
  <2>3. ASSUME NEW i \in DOMAIN asked' PROVE asked'[i].id # ping.id
    <3>1. i + 1 \in DOMAIN asked /\ i + 1 # 1 /\ asked'[i] = asked[i + 1]
      BY <1>2, <1>7
    <3>2. QED
      BY <2>1, <3>1 DEF InTurn, ping
  <2>4. \A k \in DOMAIN pingLog : pingLog[k].id # ping.id
                                 /\ \A i \in DOMAIN asked' : pingLog[k].id # asked'[i].id
    BY <1>2, <1>7, <2>1 DEF InTurn, ping
  <2>5. QED
    BY <1>1, <2>1, <2>2, <2>3, <2>4 DEF InTurn
<1>10. HeardOnce' /\ \A p \in Pinger : OthersOnRecord(p)'
  BY <1>1, <1>6 DEF PingsIInv, HeardOnce, OthersOnRecord
<1>11. PaceKept'
  <2>1. PaceKept /\ time \in Nat /\ Cooldown \in Nat \ {0}
    BY <1>3, PingsAssumption DEF PingsIInv, PingStores
  <2>2. CASE UNCHANGED <<appending, lastPing>>
    BY <1>1, <2>1, <2>2 DEF PaceKept, CountedBefore
  <2>3. CASE /\ ~TooSoon(lastPing, ping.by)
             /\ appending' = ping /\ lastPing' = [lastPing EXCEPT ![ping.by] = time]
    <3>1. /\ lastPing'[ping.by] = time
          /\ \A q \in Pinger \ {ping.by} : lastPing'[q] = lastPing[q]
          /\ ping # NoPing
      BY <1>2, <1>3, <1>4, <2>3 DEF PingStores
    <3>2. lastPing[ping.by] < 0 \/ time - lastPing[ping.by] >= Cooldown
      <4>1. lastPing[ping.by] \in Int
        BY <1>3, <1>4 DEF PingStores, NeverOr
      <4>2. QED
        BY <2>1, <2>3, <4>1 DEF TooSoon
    <3>3. ASSUME NEW k \in DOMAIN pingLog, pingLog[k].id \notin doubted
          PROVE  CountedBefore(pingLog[k].by, pingLog[k].at)'
      <4>1. pingLog[k].by \in Pinger /\ pingLog[k].at \in Nat /\ lastPing[pingLog[k].by] \in Int
        BY <1>3, <3>3, PingStoresFacts DEF PingEvent, PingStores, NeverOr
      <4>2. CountedBefore(pingLog[k].by, pingLog[k].at)
        BY <2>1, <3>3 DEF PaceKept
      <4>3. CASE pingLog[k].by = ping.by
        BY <1>1, <2>1, <2>3, <3>1, <3>2, <4>1, <4>2, <4>3 DEF CountedBefore
      <4>4. CASE pingLog[k].by # ping.by
        BY <1>1, <2>3, <3>1, <4>1, <4>2, <4>4 DEF CountedBefore
      <4>5. QED
        BY <4>3, <4>4
    <3>4. QED
      BY <1>1, <1>4, <2>1, <2>3, <3>1, <3>3 DEF PaceKept
  <2>4. QED
    BY <1>1, <2>2, <2>3
<1>12. PingsArePaced'
  BY <1>1 DEF PingsIInv, PingsArePaced
<1>13. QED
  BY <1>5, <1>6, <1>8, <1>9, <1>10, <1>11, <1>12 DEF PingsIInv

\* A ping moves on to the record, whether or not its page is told so.
LEMMA RecordKeeps ==
  ASSUME PingsIInv, appending # NoPing, appending' = NoPing, pingLog' = Recorded(appending),
         UNCHANGED <<time, asked, pageOfPings, made>>, doubted \subseteq doubted'
  PROVE  /\ appending.by \in Pinger /\ appending \in Ping
         /\ lastPing[appending.by] \in Nat /\ lastPing[appending.by] <= time /\ time \in Nat
         /\ Len(pingLog) \in Nat /\ DOMAIN pingLog = 1 .. Len(pingLog)
         /\ DOMAIN pingLog' = 1 .. Len(pingLog) + 1 /\ pingLog' \in Seq(PingEvent)
         /\ \A k \in 1 .. Len(pingLog) : /\ pingLog'[k] = pingLog[k] /\ pingLog[k] \in PingEvent
                                        /\ pingLog[k].id # appending.id
         /\ pingLog'[Len(pingLog) + 1] =
              [by |-> appending.by, id |-> appending.id, at |-> lastPing[appending.by]]
         /\ PingOf(pingLog'[Len(pingLog) + 1]) = appending
         /\ \A p \in Pinger : /\ PageOK(p)' /\ OthersOnRecord(p)' /\ OnPage(p)' = OnPage(p)
                               /\ shown'[p] = shown[p] /\ preparing'[p] = preparing[p]
         /\ OnePingPerId' /\ InTurn' /\ PingsArePaced'
<1> DEFINE ping == appending
           n == Len(pingLog)
           new == [by |-> ping.by, id |-> ping.id, at |-> lastPing[ping.by]]
<1>1. /\ ping # NoPing /\ appending' = NoPing /\ pingLog' = Append(pingLog, new)
      /\ UNCHANGED <<time, asked, pageOfPings, made>>
      /\ doubted \subseteq doubted'
  BY DEF Recorded
<1>2. PingStores /\ NoPing \notin Ping /\ ping \in Ping
  BY <1>1, PingStoresFacts DEF PingStores
<1>3. ping.by \in Pinger /\ ping.id \in Nat /\ ping = [by |-> ping.by, id |-> ping.id]
  BY <1>2 DEF Ping
<1>4. lastPing[ping.by] \in Nat /\ lastPing[ping.by] <= time /\ time \in Nat
  <2>1. lastPing[ping.by] \in NeverOr /\ time \in Nat
    BY <1>2, <1>3 DEF PingStores
  <2>2. lastPing[ping.by] >= 0 /\ lastPing[ping.by] <= time
    BY <1>1, <1>3 DEF PingsIInv, PaceKept
  <2>3. QED
    BY <2>1, <2>2 DEF NeverOr
<1>5. new \in PingEvent /\ PingOf(new) = ping /\ new.by = ping.by /\ new.id = ping.id
      /\ new.at = lastPing[ping.by]
  BY <1>3, <1>4 DEF PingEvent, PingOf
<1> HIDE DEF new, n
<1>6. /\ n \in Nat /\ DOMAIN pingLog = 1 .. n /\ DOMAIN pingLog' = 1 .. n + 1
      /\ pingLog' \in Seq(PingEvent) /\ pingLog'[n + 1] = new
      /\ \A k \in 1 .. n : pingLog'[k] = pingLog[k]
  BY <1>1, <1>2, <1>5, AppendFacts DEF PingStores, n
<1>9. /\ \A p \in Pinger : PageOK(p)' /\ OnPage(p)' = OnPage(p)
      /\ \A p \in Pinger : shown'[p] = shown[p] /\ preparing'[p] = preparing[p]
  BY <1>1, ServerOnly
<1>10. OnePingPerId'
  <2>1. ping \in KnownPings
    BY <1>1 DEF KnownPings
  <2>2. \A k \in 1 .. n : PingOf(pingLog'[k]) \in KnownPings
    BY <1>6 DEF KnownPings
  <2>3. \A k \in DOMAIN pingLog' : PingOf(pingLog'[k]) \in KnownPings
    <3>1. ASSUME NEW k \in 1 .. n + 1, k \notin 1 .. n PROVE k = n + 1
      BY <1>6, <3>1
    <3>2. QED
      BY <1>5, <1>6, <2>1, <2>2, <3>1
  <2>4. KnownPings' \subseteq KnownPings
    BY <1>1, <1>9, <2>3 DEF KnownPings
  <2>5. QED
    BY <1>1, <2>4, NoNewPing DEF PingsIInv
<1>11. \A k \in 1 .. n : pingLog[k].id # ping.id
  BY <1>1, <1>6 DEF PingsIInv, InTurn
<1>12. \A k \in DOMAIN pingLog' : k \in 1 .. n \/ k = n + 1
  BY <1>6
<1>13. InTurn'
  <2>1. InTurn
    BY DEF PingsIInv
  <2>2. \A k \in DOMAIN pingLog' : \A i \in DOMAIN asked : pingLog'[k].id # asked[i].id
    BY <1>1, <1>5, <1>6, <1>12, <2>1 DEF InTurn
  <2>3. ASSUME NEW i \in DOMAIN pingLog', NEW j \in DOMAIN pingLog', pingLog'[i].id = pingLog'[j].id
        PROVE  i = j
    BY <1>5, <1>6, <1>11, <1>12, <2>1, <2>3 DEF InTurn
  <2>4. QED
    BY <1>1, <2>1, <2>2, <2>3 DEF InTurn
<1>14. \A k \in DOMAIN pingLog : k \in DOMAIN pingLog' /\ PingOf(pingLog'[k]) = PingOf(pingLog[k])
  BY <1>6
<1>16. \A p \in Pinger : OthersOnRecord(p)'
  BY <1>9, <1>14 DEF PingsIInv, OthersOnRecord
<1>17. \A k \in 1 .. n : pingLog[k] \in PingEvent
  BY <1>6, PingStoresFacts
<1>18. PingsArePaced'
  <2>1. PingsArePaced /\ PaceKept
    BY DEF PingsIInv
  <2>2. ASSUME NEW i \in DOMAIN pingLog', NEW j \in DOMAIN pingLog', i < j,
               pingLog'[i].by = pingLog'[j].by, pingLog'[i].id \notin doubted
        PROVE  pingLog'[j].at - pingLog'[i].at >= Cooldown
    <3>1. i \in 1 .. n
      BY <1>6, <2>2
    <3>2. CASE j \in 1 .. n
      BY <1>6, <2>1, <2>2, <3>1, <3>2 DEF PingsArePaced
    <3>3. CASE j = n + 1
      <4>1. CountedBefore(pingLog[i].by, pingLog[i].at) /\ pingLog[i].by = ping.by
        BY <1>5, <1>6, <2>1, <2>2, <3>1, <3>3 DEF PaceKept
      <4>2. lastPing[ping.by] - pingLog[i].at >= Cooldown
        BY <1>1, <4>1 DEF CountedBefore
      <4>3. QED
        BY <1>5, <1>6, <3>1, <3>3, <4>2
    <3>4. QED
      BY <1>12, <2>2, <3>2, <3>3
  <2>3. QED
    BY <1>1, <2>2 DEF PingsArePaced
<1>19. QED
  BY <1>1, <1>2, <1>3, <1>4, <1>5, <1>6, <1>9, <1>10, <1>11, <1>13, <1>16, <1>17, <1>18 DEF new, n

\* The command has been answered: it was recorded, and all pages hear of it.
LEMMA PingRecordedKeeps == ASSUME PingsIInv, PingRecorded PROVE PingsIInv'
<1> DEFINE ping == appending
           n == Len(pingLog)
           new == pingLog'[n + 1]
<1>1. /\ ping # NoPing /\ appending' = NoPing /\ pingLog' = Recorded(ping)
      /\ passedOn' = [p \in Pinger |-> Append(passedOn[p], ping)]
      /\ UNCHANGED <<time, asked, lastPing, pageOfPings, made, pingFaults, doubted>>
  BY DEF PingRecorded
<1>2. PingStores /\ NoPing \notin Ping
  BY PingStoresFacts
<1>3. /\ ping.by \in Pinger /\ ping \in Ping
      /\ lastPing[ping.by] \in Nat /\ lastPing[ping.by] <= time /\ time \in Nat
  BY <1>1, RecordKeeps
<1>4. /\ n \in Nat /\ DOMAIN pingLog = 1 .. n /\ DOMAIN pingLog' = 1 .. n + 1
      /\ pingLog' \in Seq(PingEvent)
      /\ \A k \in 1 .. n : /\ pingLog'[k] = pingLog[k] /\ pingLog[k] \in PingEvent
                           /\ pingLog[k].id # ping.id
  BY <1>1, RecordKeeps
<1>5. new.by = ping.by /\ new.at = lastPing[ping.by] /\ PingOf(new) = ping
  BY <1>1, RecordKeeps
<1>6. /\ OnePingPerId' /\ InTurn'
      /\ \A p \in Pinger : /\ PageOK(p)' /\ OthersOnRecord(p)' /\ OnPage(p)' = OnPage(p)
                            /\ shown'[p] = shown[p] /\ preparing'[p] = preparing[p]
  BY <1>1, RecordKeeps
<1> HIDE DEF new, n
<1>7. \A p \in Pinger :
        /\ passedOn'[p] \in Seq(Ping) /\ Len(passedOn[p]) \in Nat
        /\ DOMAIN passedOn[p] = 1 .. Len(passedOn[p])
        /\ DOMAIN passedOn'[p] = 1 .. Len(passedOn[p]) + 1
        /\ passedOn'[p][Len(passedOn[p]) + 1] = ping
        /\ \A i \in 1 .. Len(passedOn[p]) : passedOn'[p][i] = passedOn[p][i]
  <2>1. SUFFICES ASSUME NEW p \in Pinger
                 PROVE  /\ passedOn'[p] \in Seq(Ping) /\ Len(passedOn[p]) \in Nat
                        /\ DOMAIN passedOn[p] = 1 .. Len(passedOn[p])
                        /\ DOMAIN passedOn'[p] = 1 .. Len(passedOn[p]) + 1
                        /\ passedOn'[p][Len(passedOn[p]) + 1] = ping
                        /\ \A i \in 1 .. Len(passedOn[p]) : passedOn'[p][i] = passedOn[p][i]
    OBVIOUS
  <2>2. passedOn[p] \in Seq(Ping) /\ passedOn'[p] = Append(passedOn[p], ping)
    BY <1>1, <1>2, <2>1 DEF PingStores
  <2>3. PICK s \in Seq(Ping) : s = passedOn[p]
    BY <2>2
  <2>4. /\ Append(s, ping) \in Seq(Ping) /\ Len(s) \in Nat
        /\ DOMAIN s = 1 .. Len(s) /\ DOMAIN Append(s, ping) = 1 .. Len(s) + 1
        /\ Append(s, ping)[Len(s) + 1] = ping
        /\ \A i \in 1 .. Len(s) : Append(s, ping)[i] = s[i]
    BY <1>3, <2>3, AppendFacts
  <2>5. QED
    BY <2>2, <2>3, <2>4
<1>8. PingStores'
  <2>1. passedOn' \in [Pinger -> Seq(Ping)]
    BY <1>1, <1>7
  <2>2. QED
    BY <1>1, <1>2, <1>4, <2>1 DEF PingStores, pageOfPings
<1>9. \A k \in DOMAIN pingLog : k \in DOMAIN pingLog' /\ PingOf(pingLog'[k]) = PingOf(pingLog[k])
  BY <1>4
<1>10. \A k \in DOMAIN pingLog' : k \in 1 .. n \/ k = n + 1
  BY <1>4
<1>11. HeardOnce'
  <2>1. HeardOnce /\ \A p \in Pinger : OthersOnRecord(p)
    BY DEF PingsIInv
  <2>2. \E k \in DOMAIN pingLog' : PingOf(pingLog'[k]) = ping
    <3>1. n + 1 \in DOMAIN pingLog'
      BY <1>4
    <3>2. QED
      BY <1>5, <3>1 DEF new
  <2>3. ASSUME NEW k \in DOMAIN pingLog PROVE PingOf(pingLog[k]) # ping /\ PingOf(pingLog[k]).id # ping.id
    BY <1>4, <1>4, <2>3 DEF PingOf
  <2>4. ASSUME NEW p \in Pinger
        PROVE  \A i \in DOMAIN passedOn'[p] : i \in 1 .. Len(passedOn[p]) \/ i = Len(passedOn[p]) + 1
    BY <1>7, <2>4
  <2>5. ASSUME NEW p \in Pinger, NEW i \in 1 .. Len(passedOn[p]) PROVE passedOn[p][i].id # ping.id
    <3>1. PICK k \in DOMAIN pingLog : PingOf(pingLog[k]) = passedOn[p][i]
      BY <1>7, <2>1, <2>5 DEF HeardOnce
    <3>2. QED
      BY <2>3, <3>1
  <2>6. ASSUME NEW p \in Pinger, ping.by # p PROVE ping \notin OnPage(p)
    BY <2>1, <2>3, <2>6 DEF OthersOnRecord
  <2>7. ASSUME NEW p \in Pinger, NEW i \in DOMAIN passedOn'[p], NEW j \in DOMAIN passedOn'[p],
               passedOn'[p][i].id = passedOn'[p][j].id
        PROVE  i = j
    <3>1. CASE i \in 1 .. Len(passedOn[p]) /\ j \in 1 .. Len(passedOn[p])
      BY <1>7, <2>1, <2>7, <3>1 DEF HeardOnce
    <3>2. ASSUME NEW m \in 1 .. Len(passedOn[p]) PROVE passedOn'[p][m].id # ping.id
      BY <1>7, <2>5, <3>2
    <3>3. QED
      BY <1>7, <2>4, <2>7, <3>1, <3>2
  <2>8. ASSUME NEW p \in Pinger, NEW i \in DOMAIN passedOn'[p]
        PROVE  /\ \E k \in DOMAIN pingLog' : PingOf(pingLog'[k]) = passedOn'[p][i]
               /\ passedOn'[p][i].by # p => passedOn'[p][i] \notin OnPage(p)
    <3>1. CASE i = Len(passedOn[p]) + 1
      BY <1>7, <2>2, <2>6, <3>1
    <3>2. CASE i \in 1 .. Len(passedOn[p])
      <4>1. /\ passedOn'[p][i] = passedOn[p][i] /\ i \in DOMAIN passedOn[p]
            /\ OnPage(p)' = OnPage(p)
        BY <1>7, <1>6, <3>2
      <4>2. PICK k \in DOMAIN pingLog : PingOf(pingLog[k]) = passedOn[p][i]
        BY <2>1, <4>1 DEF HeardOnce
      <4>3. passedOn[p][i].by # p => passedOn[p][i] \notin OnPage(p)
        BY <2>1, <4>1 DEF HeardOnce
      <4>4. QED
        BY <1>6, <1>9, <4>1, <4>2, <4>3
    <3>3. QED
      BY <2>4, <2>8, <3>1, <3>2
  <2>9. QED
    BY <1>6, <2>7, <2>8 DEF HeardOnce
<1>12. PaceKept'
  <2>1. PaceKept /\ Cooldown \in Nat \ {0}
    BY PingsAssumption DEF PingsIInv
  <2>2. ASSUME NEW q \in Pinger, NEW at \in Nat, CountedBefore(q, at)
        PROVE  CountedBefore(q, at)'
    <3>1. CASE q = ping.by
      BY <1>1, <1>3, <2>1, <2>2, <3>1 DEF CountedBefore
    <3>2. CASE q # ping.by
      BY <1>1, <2>2, <3>2 DEF CountedBefore
    <3>3. QED
      BY <3>1, <3>2
  <2>3. ASSUME NEW q \in Pinger, NEW at \in Nat, q = ping.by, at = lastPing[ping.by]
        PROVE  CountedBefore(q, at)'
    BY <1>1, <1>3, <2>3 DEF CountedBefore
  <2>4. ASSUME NEW k \in DOMAIN pingLog', pingLog'[k].id \notin doubted'
        PROVE  \A q \in Pinger, at \in Nat : q = pingLog'[k].by /\ at = pingLog'[k].at
                 => CountedBefore(q, at)'
    <3>1. CASE k \in 1 .. n
      <4>1. /\ pingLog'[k] = pingLog[k] /\ pingLog[k].id \notin doubted
            /\ CountedBefore(pingLog[k].by, pingLog[k].at)
        BY <1>1, <1>4, <2>1, <2>4, <3>1 DEF PaceKept
      <4>2. QED
        BY <2>2, <4>1
    <3>2. CASE k = n + 1
      BY <1>3, <1>5, <2>3, <3>2 DEF new
    <3>3. QED
      BY <1>10, <2>4, <3>1, <3>2
  <2>5. \A k \in DOMAIN pingLog' : pingLog'[k].by \in Pinger /\ pingLog'[k].at \in Nat
    <3>1. \A k \in DOMAIN pingLog' : pingLog'[k] \in PingEvent
      BY <1>4
    <3>2. QED
      BY <3>1 DEF PingEvent
  <2>6. ASSUME NEW k \in DOMAIN pingLog', pingLog'[k].id \notin doubted'
        PROVE  CountedBefore(pingLog[k].by, pingLog[k].at)'
    <3>1. PICK q \in Pinger, at \in Nat : q = pingLog'[k].by /\ at = pingLog'[k].at
      BY <2>5, <2>6
    <3>2. CountedBefore(q, at)'
      BY <2>4, <2>6, <3>1
    <3>3. QED
      BY <3>1, <3>2 DEF CountedBefore
  <2>7. \A q \in Pinger : lastPing'[q] <= time'
    BY <1>1, <2>1 DEF PaceKept
  <2>8. QED
    BY <1>1, <2>6, <2>7 DEF PaceKept
<1>13. QED
  BY <1>1, <1>6, <1>8, <1>11, <1>12, RecordKeeps DEF PingsIInv

\* The append failed: what it may have stored counts for nobody.
LEMMA PingRefusedKeeps ==
  ASSUME PingsIInv, NEW stored \in BOOLEAN, PingRefused(stored) PROVE PingsIInv'
<1> DEFINE ping == appending
<1>1. /\ ping # NoPing /\ appending' = NoPing
      /\ lastPing' = [lastPing EXCEPT ![ping.by] = -1] /\ doubted \subseteq doubted'
      /\ UNCHANGED <<time, asked, passedOn, pageOfPings, made>>
  BY DEF PingRefused, NotTold
<1>2. PingStores /\ ping \in Ping /\ ping.by \in Pinger /\ time \in Nat /\ NoPing \notin Ping
  BY <1>1, PingStoresFacts DEF PingStores, Ping
<1>3. lastPing' \in [Pinger -> NeverOr] /\ lastPing'[ping.by] = -1
      /\ \A q \in Pinger \ {ping.by} : lastPing'[q] = lastPing[q]
  BY <1>1, <1>2 DEF PingStores, NeverOr
<1>4. /\ OnePingPerId' /\ InTurn' /\ PingsArePaced' /\ pingLog' \in Seq(PingEvent)
      /\ \A p \in Pinger : PageOK(p)' /\ OthersOnRecord(p)' /\ OnPage(p)' = OnPage(p)
      /\ \A k \in DOMAIN pingLog :
           k \in DOMAIN pingLog' /\ pingLog'[k] = pingLog[k] /\ pingLog[k] \in PingEvent
      /\ \A k \in DOMAIN pingLog' : k \in DOMAIN pingLog \/ pingLog'[k].id \in doubted'
  <2>1. CASE stored
    <3>1. pingLog' = Recorded(ping) /\ ping.id \in doubted'
      BY <2>1 DEF PingRefused
    <3>2. /\ DOMAIN pingLog = 1 .. Len(pingLog) /\ DOMAIN pingLog' = 1 .. Len(pingLog) + 1
          /\ Len(pingLog) \in Nat /\ pingLog'[Len(pingLog) + 1].id = ping.id
          /\ \A k \in 1 .. Len(pingLog) : pingLog'[k] = pingLog[k] /\ pingLog[k] \in PingEvent
      BY <1>1, <3>1, RecordKeeps
    <3>3. /\ OnePingPerId' /\ InTurn' /\ PingsArePaced' /\ pingLog' \in Seq(PingEvent)
          /\ \A p \in Pinger : PageOK(p)' /\ OthersOnRecord(p)' /\ OnPage(p)' = OnPage(p)
      BY <1>1, <3>1, RecordKeeps
    <3>4. \A k \in DOMAIN pingLog' : k \in DOMAIN pingLog \/ k = Len(pingLog) + 1
      BY <3>2
    <3>5. QED
      BY <3>1, <3>2, <3>3, <3>4
  <2>2. CASE ~stored
    <3>1. pingLog' = pingLog /\ doubted' = doubted
      BY <2>2 DEF PingRefused
    <3>2. \A p \in Pinger : PageOK(p)' /\ OnPage(p)' = OnPage(p)
      BY <1>1, ServerOnly
    <3>3. KnownPings' \subseteq KnownPings
      BY <1>1, <3>1, <3>2 DEF KnownPings
    <3>4. OnePingPerId'
      BY <1>1, <3>3, NoNewPing DEF PingsIInv
    <3>5. InTurn' /\ PingsArePaced' /\ \A p \in Pinger : OthersOnRecord(p)'
      BY <1>1, <3>1, <3>2 DEF PingsIInv, InTurn, PingsArePaced, OthersOnRecord
    <3>6. QED
      BY <1>2, <3>1, <3>2, <3>4, <3>5, PingStoresFacts DEF PingStores
  <2>3. QED
    BY <2>1, <2>2
<1>5. PingStores'
  BY <1>1, <1>2, <1>3, <1>4 DEF PingStores, pageOfPings
<1>6. HeardOnce'
  <2>1. \A x, k : k \in DOMAIN pingLog /\ PingOf(pingLog[k]) = x
          => k \in DOMAIN pingLog' /\ PingOf(pingLog'[k]) = x
    BY <1>4
  <2>2. QED
    BY <1>1, <1>4, <2>1 DEF PingsIInv, HeardOnce
<1>7. PaceKept'
  <2>1. PaceKept /\ Cooldown \in Nat \ {0} /\ lastPing[ping.by] <= time
    BY <1>2, PingsAssumption DEF PingsIInv, PaceKept
  <2>2. \A q \in Pinger : lastPing'[q] <= time'
    BY <1>1, <1>2, <1>3, <2>1 DEF PaceKept
  <2>3. ASSUME NEW q \in Pinger, NEW at \in Nat, CountedBefore(q, at)
        PROVE  CountedBefore(q, at)'
    <3>1. CASE q = ping.by
      <4>1. lastPing[q] \in Int /\ lastPing[q] <= time /\ lastPing[q] - at >= Cooldown
        BY <1>1, <1>2, <2>1, <2>3, <3>1 DEF CountedBefore, PingStores, NeverOr
      <4>2. time - at >= Cooldown
        BY <1>2, <2>1, <4>1
      <4>3. QED
        BY <1>1, <1>3, <3>1, <4>2 DEF CountedBefore
    <3>2. CASE q # ping.by
      BY <1>1, <1>3, <2>3, <3>2 DEF CountedBefore
    <3>3. QED
      BY <3>1, <3>2
  <2>4. ASSUME NEW k \in DOMAIN pingLog', pingLog'[k].id \notin doubted'
        PROVE  CountedBefore(pingLog[k].by, pingLog[k].at)'
    <3>1. /\ k \in DOMAIN pingLog /\ pingLog'[k] = pingLog[k] /\ pingLog[k].id \notin doubted
          /\ pingLog[k].by \in Pinger /\ pingLog[k].at \in Nat
      BY <1>1, <1>4, <2>4 DEF PingEvent
    <3>2. CountedBefore(pingLog[k].by, pingLog[k].at)
      BY <2>1, <3>1 DEF PaceKept
    <3>3. PICK q \in Pinger, at \in Nat : q = pingLog[k].by /\ at = pingLog[k].at
      BY <3>1
    <3>4. CountedBefore(q, at)'
      BY <2>3, <3>2, <3>3
    <3>5. QED
      BY <3>1, <3>3, <3>4 DEF CountedBefore
  <2>5. QED
    BY <1>1, <2>2, <2>4 DEF PaceKept
<1>8. QED
  BY <1>4, <1>5, <1>6, <1>7 DEF PingsIInv

\* What a page does with a ping that it has to show.
LEMMA ShowsKeeps ==
  ASSUME PingsIInv, NEW p \in Pinger, NEW ping \in Ping, Shows(p, ping),
         time' = time, loaded' = loaded,
         \A x \in OnPage(p) : x.id # ping.id
  PROVE  /\ lastShownAt' \in [Pinger -> [Pinger -> NeverOr]]
         /\ preparing' \in [Pinger -> SUBSET Ping] /\ shown' \in [Pinger -> SUBSET PingView]
         /\ \A r \in Pinger : PageOK(r)'
         /\ \A r \in Pinger \ {p} : OnPage(r)' = OnPage(r)
         /\ OnPage(p)' \subseteq OnPage(p) \cup {ping}
<1> DEFINE q == ping.by
           view == View(ping, FALSE)
<1>1. /\ PingStores /\ q \in Pinger /\ time \in Nat /\ p \in Pinger /\ Cooldown \in Nat \ {0}
      /\ Duration \in Nat \ {0}
  BY PingStoresFacts, PingsAssumption DEF PingStores, Ping
<1>2. CASE TooSoon(lastShownAt[p], ping.by)
  <2>1. UNCHANGED <<lastShownAt, preparing, shown>>
    BY <1>2 DEF Shows
  <2>2. \A r \in Pinger : PageOK(r)' /\ OnPage(r)' = OnPage(r)
    BY <2>1, PageStays, OnPageStays DEF PingsIInv
  <2>3. QED
    BY <1>1, <2>1, <2>2 DEF PingStores
<1>3. CASE ~TooSoon(lastShownAt[p], ping.by)
  <2>1. /\ lastShownAt' = [lastShownAt EXCEPT ![p][q] = time]
        /\ \/ loaded[p] /\ shown' = [shown EXCEPT ![p] = @ \cup {view}] /\ UNCHANGED preparing
           \/ preparing' = [preparing EXCEPT ![p] = @ \cup {ping}] /\ UNCHANGED shown
    BY <1>3 DEF Shows, Noted
  <2>2. /\ lastShownAt'[p] = [lastShownAt[p] EXCEPT ![q] = time]
        /\ \A r \in Pinger \ {p} : lastShownAt'[r] = lastShownAt[r]
        /\ lastShownAt' \in [Pinger -> [Pinger -> NeverOr]]
    <3>1. time \in NeverOr /\ lastShownAt \in [Pinger -> [Pinger -> NeverOr]]
      BY <1>1 DEF PingStores, NeverOr
    <3>2. lastShownAt' = [lastShownAt EXCEPT ![p] = [lastShownAt[p] EXCEPT ![q] = time]]
      BY <1>1, <2>1, <3>1
    <3>3. [lastShownAt[p] EXCEPT ![q] = time] \in [Pinger -> NeverOr]
      BY <1>1, <3>1
    <3>4. QED
      BY <1>1, <3>1, <3>2, <3>3
  <2>3. /\ view \in PingView /\ view.by = q /\ view.id = ping.id /\ view.startedAt = time
        /\ view.waited = FALSE /\ PingOf(view) = ping
    BY <1>1 DEF View, PingView, PingOf, Ping
  <2> HIDE DEF view
  <2>4. /\ lastShownAt'[p][q] = time
        /\ \A r \in Pinger \ {q} : lastShownAt'[p][r] = lastShownAt[p][r]
        /\ \A r \in Pinger : lastShownAt[p][r] \in NeverOr
    BY <1>1, <2>2 DEF PingStores
  <2>5. \A v \in shown[p] : v \in PingView /\ v.startedAt \in Nat /\ v.by \in Pinger
                            /\ PingOf(v) \in OnPage(p) /\ v.id # ping.id
    <3>1. \A v \in shown[p] : v \in PingView /\ PingOf(v) \in OnPage(p)
      BY <1>1, PingStoresFacts DEF OnPage
    <3>2. \A v \in shown[p] : PingOf(v).id # ping.id
      BY <3>1
    <3>3. QED
      BY <3>1, <3>2 DEF PingView, PingOf
  <2>6. PageOK(p) /\ \A r \in Pinger : PageOK(r)
    BY DEF PingsIInv
  <2>7. \A r \in Pinger : lastShownAt'[p][r] <= time' /\ lastShownAt[p][r] <= lastShownAt'[p][r]
    BY <1>1, <2>4, <2>6 DEF PageOK, NeverOr
  <2>8. \A v \in shown[p] : ~v.waited => v.startedAt <= lastShownAt'[p][v.by]
    BY <2>4, <2>5, <2>6, <2>7 DEF PageOK, NeverOr
  <2>9. \A v \in shown[p] : ~v.waited /\ v.by = q => time - v.startedAt >= Cooldown
    <3>1. ASSUME NEW v \in shown[p], ~v.waited, v.by = q PROVE time - v.startedAt >= Cooldown
      <4>1. v.startedAt <= lastShownAt[p][q] /\ v.startedAt \in Nat /\ lastShownAt[p][q] \in Int
        BY <1>1, <2>4, <2>5, <2>6, <3>1 DEF PageOK, NeverOr
      <4>2. time - lastShownAt[p][q] >= Cooldown
        BY <1>1, <1>3, <4>1 DEF TooSoon
      <4>3. QED
        BY <1>1, <4>1, <4>2
    <3>2. QED
      BY <3>1
  <2>10. \A r \in Pinger \ {p} : shown'[r] = shown[r] /\ preparing'[r] = preparing[r]
    BY <1>1, <2>1 DEF PingStores
  <2>11. \A r \in Pinger \ {p} : PageOK(r)' /\ OnPage(r)' = OnPage(r)
    BY <2>2, <2>6, <2>10, PageStays, OnPageStays
  <2>12. CASE shown' = [shown EXCEPT ![p] = @ \cup {view}] /\ UNCHANGED preparing
    <3>1. shown'[p] = shown[p] \cup {view} /\ preparing'[p] = preparing[p]
          /\ shown' \in [Pinger -> SUBSET PingView]
      BY <1>1, <2>3, <2>12 DEF PingStores
    <3>2. ping \notin preparing[p] /\ view.startedAt + Duration > time /\ view.startedAt <= time
      BY <1>1, <2>3 DEF OnPage
    <3>3. OnPage(p)' \subseteq OnPage(p) \cup {ping}
      BY <2>3, <3>1 DEF OnPage
    <3>4. \A v \in shown'[p] : v.startedAt + Duration > time' /\ v.startedAt <= time'
                                /\ PingOf(v) \notin preparing'[p]
      BY <2>3, <2>6, <3>1, <3>2 DEF PageOK
    <3>5. \A v, w \in shown'[p] : v.id = w.id => v = w
      BY <2>3, <2>5, <2>6, <3>1 DEF PageOK
    <3>6. \A v \in shown'[p] : ~v.waited => v.startedAt <= lastShownAt'[p][v.by]
      BY <1>1, <2>3, <2>4, <2>8, <3>1
    <3>7. \A v, w \in shown'[p] : ~v.waited /\ ~w.waited /\ v.by = w.by /\ v # w =>
            v.startedAt - w.startedAt >= Cooldown \/ w.startedAt - v.startedAt >= Cooldown
      BY <2>3, <2>6, <2>9, <3>1 DEF PageOK
    <3>8. PageOK(p)'
      BY <2>7, <3>4, <3>5, <3>6, <3>7 DEF PageOK
    <3>9. QED
      BY <1>1, <2>2, <2>11, <2>12, <3>1, <3>3, <3>8 DEF PingStores
  <2>13. CASE preparing' = [preparing EXCEPT ![p] = @ \cup {ping}] /\ UNCHANGED shown
    <3>1. preparing'[p] = preparing[p] \cup {ping} /\ shown'[p] = shown[p]
          /\ preparing' \in [Pinger -> SUBSET Ping]
      BY <1>1, <2>13 DEF PingStores
    <3>2. OnPage(p)' \subseteq OnPage(p) \cup {ping}
      BY <3>1 DEF OnPage
    <3>3. \A v \in shown[p] : PingOf(v) # ping
      BY <2>5 DEF PingOf
    <3>4. PageOK(p)'
      BY <2>6, <2>7, <2>8, <3>1, <3>3 DEF PageOK
    <3>5. QED
      BY <1>1, <2>2, <2>11, <2>13, <3>1, <3>2, <3>4 DEF PingStores
  <2>14. QED
    BY <2>1, <2>12, <2>13
<1>4. QED
  BY <1>2, <1>3

\* The pages alone move: the room and the record stay.
LEMMA PageOnly ==
  ASSUME PingsIInv, UNCHANGED <<appending, lastPing, pingLog, doubted>>, time' = time
  PROVE  PaceKept' /\ PingsArePaced'
BY DEF PingsIInv, PaceKept, CountedBefore, PingsArePaced

\* What a page may tell and hear once more pings are made and shown.
LEMMA MakePingKeeps ==
  ASSUME PingsIInv, NEW p \in Pinger, MakePing(p) PROVE PingsIInv'
<1> DEFINE ping == [by |-> p, id |-> made + 1]
           n == Len(asked)
<1>1. /\ made' = made + 1 /\ asked' = Append(asked, ping) /\ Shows(p, ping)
      /\ UNCHANGED <<time, appending, lastPing, pingLog, passedOn, loaded, pingFaults, doubted>>
  BY DEF MakePing
<1>2. PingStores /\ made \in Nat /\ ping \in Ping /\ ping.id = made + 1 /\ ping.by = p
  <2>1. PingStores /\ made \in Nat
    BY PingStoresFacts DEF PingStores
  <2>2. made + 1 \in Nat
    BY <2>1
  <2>3. QED
    BY <2>1, <2>2 DEF Ping
<1> HIDE DEF ping, n
<1>3. \A x \in KnownPings : x.id <= made
  BY DEF PingsIInv, OnePingPerId
<1>4. \A r \in Pinger : \A x \in OnPage(r) : x \in KnownPings
  BY DEF KnownPings
<1>5. \A x \in KnownPings : x \in Ping
  <2>1. ASSUME NEW k \in DOMAIN pingLog PROVE PingOf(pingLog[k]) \in Ping
    BY PingStoresFacts DEF PingEvent, PingOf, Ping
  <2>2. ASSUME NEW r \in Pinger PROVE OnPage(r) \subseteq Ping
    BY <2>2, PingStoresFacts DEF OnPage, PingView, PingOf, Ping
  <2>3. \A i \in DOMAIN asked : asked[i] \in Ping
    BY PingStoresFacts
  <2>4. appending \in Ping \cup {NoPing}
    BY <1>2 DEF PingStores
  <2>5. QED
    BY <2>1, <2>2, <2>3, <2>4 DEF KnownPings
<1>6. \A x \in KnownPings : x.id # ping.id
  BY <1>2, <1>3, <1>5 DEF Ping
<1>7. /\ lastShownAt' \in [Pinger -> [Pinger -> NeverOr]]
      /\ preparing' \in [Pinger -> SUBSET Ping] /\ shown' \in [Pinger -> SUBSET PingView]
      /\ \A r \in Pinger : PageOK(r)'
      /\ \A r \in Pinger \ {p} : OnPage(r)' = OnPage(r)
      /\ OnPage(p)' \subseteq OnPage(p) \cup {ping}
  <2>1. \A x \in OnPage(p) : x.id # ping.id
    BY <1>4, <1>6
  <2>2. QED
    BY <1>1, <1>2, <2>1, ShowsKeeps
<1>8. /\ n \in Nat /\ DOMAIN asked = 1 .. n /\ DOMAIN asked' = 1 .. n + 1
      /\ asked' \in Seq(Ping) /\ asked'[n + 1] = ping
      /\ \A i \in 1 .. n : asked'[i] = asked[i]
  BY <1>1, <1>2, AppendFacts DEF PingStores, n
<1>9. PingStores'
  BY <1>1, <1>2, <1>7, <1>8 DEF PingStores
<1>10. \A i \in DOMAIN asked' : i \in 1 .. n \/ i = n + 1
  BY <1>8
<1>11. \A r \in Pinger : OnPage(r)' \subseteq OnPage(r) \cup {ping}
  BY <1>7
<1>12. OnePingPerId'
  <2>1. \A i \in DOMAIN asked' : asked'[i] \in KnownPings \cup {ping}
    BY <1>8, <1>10 DEF KnownPings
  <2>2. KnownPings' \subseteq KnownPings \cup {ping}
    BY <1>1, <1>4, <1>11, <2>1 DEF KnownPings
  <2>3. ASSUME NEW x \in KnownPings \cup {ping}, NEW y \in KnownPings \cup {ping}
        PROVE  x.id <= made + 1 /\ (x.id = y.id => x = y)
    <3>1. x.id <= made + 1
      BY <1>2, <1>3, <1>5, <2>3 DEF Ping
    <3>2. x.id = y.id => x = y
      BY <1>6, <2>3 DEF PingsIInv, OnePingPerId
    <3>3. QED
      BY <3>1, <3>2
  <2>4. QED
    BY <1>1, <2>2, <2>3 DEF OnePingPerId
<1>13. InTurn'
  <2>1. InTurn
    BY DEF PingsIInv
  <2>2. /\ \A i \in 1 .. n : asked[i].id # ping.id
        /\ appending # NoPing => appending.id # ping.id
    BY <1>6, <1>8 DEF KnownPings
  <2>3. \A k \in DOMAIN pingLog : pingLog[k].id # ping.id
    <3>1. \A k \in DOMAIN pingLog : PingOf(pingLog[k]) \in KnownPings
      BY DEF KnownPings
    <3>2. \A k \in DOMAIN pingLog : PingOf(pingLog[k]).id # ping.id
      BY <1>6, <3>1
    <3>3. QED
      BY <3>2 DEF PingOf
  <2>4. ASSUME NEW i \in DOMAIN asked', NEW j \in DOMAIN asked', asked'[i].id = asked'[j].id
        PROVE  i = j
    BY <1>8, <1>10, <2>1, <2>2, <2>4 DEF InTurn
  <2>5. \A i \in DOMAIN asked' : appending # NoPing => asked'[i].id # appending.id
    BY <1>8, <1>10, <2>1, <2>2 DEF InTurn
  <2>6. \A k \in DOMAIN pingLog : \A i \in DOMAIN asked' : pingLog[k].id # asked'[i].id
    BY <1>8, <1>10, <2>1, <2>3 DEF InTurn
  <2>7. QED
    BY <1>1, <2>1, <2>4, <2>5, <2>6 DEF InTurn
<1>14. HeardOnce'
  <2>1. HeardOnce
    BY DEF PingsIInv
  <2>2. ASSUME NEW r \in Pinger, NEW i \in DOMAIN passedOn[r] PROVE passedOn[r][i] # ping
    <3>1. PICK k \in DOMAIN pingLog : PingOf(pingLog[k]) = passedOn[r][i]
      BY <2>1, <2>2 DEF HeardOnce
    <3>2. passedOn[r][i] \in KnownPings
      BY <3>1 DEF KnownPings
    <3>3. QED
      BY <1>6, <3>2
  <2>3. \A r \in Pinger : \A i \in DOMAIN passedOn[r] :
          passedOn[r][i].by # r => passedOn[r][i] \notin OnPage(r)'
    BY <1>11, <2>1, <2>2 DEF HeardOnce
  <2>4. QED
    BY <1>1, <2>1, <2>3 DEF HeardOnce
<1>15. \A r \in Pinger : OthersOnRecord(r)'
  <2>1. ASSUME NEW r \in Pinger, NEW x \in OnPage(r)', x.by # r PROVE x \in OnPage(r)
    BY <1>2, <1>7, <2>1
  <2>2. QED
    BY <1>1, <2>1 DEF PingsIInv, OthersOnRecord
<1>16. PaceKept' /\ PingsArePaced'
  BY <1>1, PageOnly
<1>17. QED
  BY <1>7, <1>9, <1>12, <1>13, <1>14, <1>15, <1>16 DEF PingsIInv

LEMMA HearPingKeeps ==
  ASSUME PingsIInv, NEW p \in Pinger, HearPing(p) PROVE PingsIInv'
<1> DEFINE heard == passedOn[p][1]
           n == Len(passedOn[p])
<1>1. /\ passedOn[p] # <<>> /\ passedOn' = [passedOn EXCEPT ![p] = Tail(@)]
      /\ UNCHANGED <<time, asked, appending, lastPing, pingLog, loaded, made, pingFaults, doubted>>
  BY DEF HearPing
<1>2. PingStores /\ passedOn[p] \in Seq(Ping)
  BY PingStoresFacts DEF PingStores
<1>3. /\ n \in Nat \ {0} /\ heard \in Ping /\ Head(passedOn[p]) = heard
      /\ DOMAIN passedOn[p] = 1 .. n
      /\ passedOn'[p] \in Seq(Ping) /\ DOMAIN passedOn'[p] = 1 .. n - 1
      /\ \A i \in 1 .. n - 1 : passedOn'[p][i] = passedOn[p][i + 1]
  <2>1. PICK s \in Seq(Ping) : s = passedOn[p] /\ s # <<>>
    BY <1>1, <1>2
  <2>2. /\ Tail(s) \in Seq(Ping) /\ Len(s) \in Nat \ {0} /\ Head(s) = s[1] /\ s[1] \in Ping
        /\ DOMAIN s = 1 .. Len(s) /\ DOMAIN Tail(s) = 1 .. Len(s) - 1
        /\ \A i \in 1 .. Len(s) - 1 : Tail(s)[i] = s[i + 1]
    BY <2>1, TailFacts
  <2>3. passedOn'[p] = Tail(s)
    BY <1>1, <1>2, <2>1 DEF PingStores
  <2>4. QED
    BY <2>1, <2>2, <2>3
<1>4. /\ \A r \in Pinger \ {p} : passedOn'[r] = passedOn[r]
      /\ passedOn' \in [Pinger -> Seq(Ping)]
  BY <1>1, <1>2, <1>3 DEF PingStores
<1>5. HeardOnce /\ 1 \in DOMAIN passedOn[p]
  BY <1>3 DEF PingsIInv
<1> HIDE DEF heard, n
<1>6. PICK k \in DOMAIN pingLog : PingOf(pingLog[k]) = heard
  BY <1>5 DEF HeardOnce, heard
<1>7. heard \in KnownPings
  BY <1>6 DEF KnownPings
<1>8. /\ lastShownAt' \in [Pinger -> [Pinger -> NeverOr]]
      /\ preparing' \in [Pinger -> SUBSET Ping] /\ shown' \in [Pinger -> SUBSET PingView]
      /\ \A r \in Pinger : PageOK(r)'
      /\ \A r \in Pinger \ {p} : OnPage(r)' = OnPage(r)
      /\ OnPage(p)' \subseteq OnPage(p) \cup {heard}
      /\ heard.by = p => OnPage(p)' = OnPage(p)
  <2>1. CASE heard.by = p
    <3>1. UNCHANGED <<lastShownAt, preparing, shown>>
      BY <1>3, <2>1 DEF HearPing
    <3>2. \A r \in Pinger : PageOK(r)' /\ OnPage(r)' = OnPage(r)
      BY <1>1, <3>1, PageStays, OnPageStays DEF PingsIInv
    <3>3. QED
      BY <1>2, <3>1, <3>2 DEF PingStores
  <2>2. CASE heard.by # p
    <3>1. Shows(p, heard) /\ heard \notin OnPage(p)
      BY <1>3, <1>5, <2>2 DEF HearPing, HeardOnce, heard
    <3>2. \A x \in OnPage(p) : x \in KnownPings
      BY DEF KnownPings
    <3>3. \A x \in OnPage(p) : x.id # heard.id
      BY <1>7, <3>1, <3>2 DEF PingsIInv, OnePingPerId
    <3>4. QED
      BY <1>1, <1>3, <2>2, <3>1, <3>3, ShowsKeeps
  <2>3. QED
    BY <2>1, <2>2
<1>9. \A r \in Pinger : OnPage(r)' \subseteq OnPage(r) \cup {heard}
  BY <1>8
<1>10. PingStores'
  BY <1>1, <1>2, <1>4, <1>8 DEF PingStores
<1>11. OnePingPerId'
  <2>1. \A r \in Pinger : OnPage(r)' \subseteq KnownPings
    BY <1>7, <1>9 DEF KnownPings
  <2>2. KnownPings' \subseteq KnownPings
    BY <1>1, <2>1 DEF KnownPings
  <2>3. QED
    BY <1>1, <2>2, NoNewPing DEF PingsIInv
<1>12. InTurn'
  BY <1>1 DEF PingsIInv, InTurn
<1>13. HeardOnce'
  <2>1. \A i \in 1 .. n - 1 : i + 1 \in 1 .. n /\ i + 1 # 1
    BY <1>3
  <2>2. ASSUME NEW i \in DOMAIN passedOn'[p], NEW j \in DOMAIN passedOn'[p],
               passedOn'[p][i].id = passedOn'[p][j].id
        PROVE  i = j
    <3>1. i + 1 \in DOMAIN passedOn[p] /\ passedOn'[p][i] = passedOn[p][i + 1]
      BY <1>3, <2>1, <2>2
    <3>2. j + 1 \in DOMAIN passedOn[p] /\ passedOn'[p][j] = passedOn[p][j + 1]
      BY <1>3, <2>1, <2>2
    <3>3. i + 1 = j + 1
      BY <1>5, <2>2, <3>1, <3>2 DEF HeardOnce
    <3>4. QED
      BY <1>3, <2>2, <3>3
  <2>3. ASSUME NEW i \in DOMAIN passedOn'[p]
        PROVE  /\ \E m \in DOMAIN pingLog : PingOf(pingLog[m]) = passedOn'[p][i]
               /\ passedOn'[p][i].by # p => passedOn'[p][i] \notin OnPage(p)'
    <3>1. i + 1 \in DOMAIN passedOn[p] /\ i + 1 # 1 /\ passedOn'[p][i] = passedOn[p][i + 1]
      BY <1>3, <2>1, <2>3
    <3>2. passedOn[p][i + 1].id # heard.id
      BY <1>5, <3>1 DEF HeardOnce, heard
    <3>3. QED
      BY <1>5, <1>9, <3>1, <3>2 DEF HeardOnce
  <2>4. ASSUME NEW r \in Pinger \ {p}
        PROVE  /\ \A i, j \in DOMAIN passedOn'[r] : passedOn'[r][i].id = passedOn'[r][j].id => i = j
               /\ \A i \in DOMAIN passedOn'[r] :
                    /\ \E m \in DOMAIN pingLog : PingOf(pingLog[m]) = passedOn'[r][i]
                    /\ passedOn'[r][i].by # r => passedOn'[r][i] \notin OnPage(r)'
    <3>1. passedOn'[r] = passedOn[r] /\ OnPage(r)' = OnPage(r)
      BY <1>4, <1>8
    <3>2. /\ \A i, j \in DOMAIN passedOn[r] : passedOn[r][i].id = passedOn[r][j].id => i = j
          /\ \A i \in DOMAIN passedOn[r] :
               /\ \E m \in DOMAIN pingLog : PingOf(pingLog[m]) = passedOn[r][i]
               /\ passedOn[r][i].by # r => passedOn[r][i] \notin OnPage(r)
      BY <1>5 DEF HeardOnce
    <3>3. QED
      BY <3>1, <3>2
  <2>5. QED
    BY <1>1, <2>2, <2>3, <2>4 DEF HeardOnce
<1>14. \A r \in Pinger : OthersOnRecord(r)'
  <2>1. ASSUME NEW r \in Pinger, NEW x \in OnPage(r)', x.by # r
        PROVE  \E m \in DOMAIN pingLog : PingOf(pingLog[m]) = x
    <3>1. x \in OnPage(r) \/ x = heard
      BY <1>9, <2>1
    <3>2. QED
      BY <1>6, <2>1, <3>1 DEF PingsIInv, OthersOnRecord
  <2>2. QED
    BY <1>1, <2>1 DEF OthersOnRecord
<1>15. PaceKept' /\ PingsArePaced'
  BY <1>1, PageOnly
<1>16. QED
  BY <1>8, <1>10, <1>11, <1>12, <1>13, <1>14, <1>15 DEF PingsIInv

LEMMA SoundLoadsKeeps ==
  ASSUME PingsIInv, NEW p \in Pinger, SoundLoads(p) PROVE PingsIInv'
<1>1. /\ loaded' = [loaded EXCEPT ![p] = TRUE]
      /\ UNCHANGED <<time, serverOfPings, lastShownAt, preparing, shown, made>>
  BY DEF SoundLoads
<1>2. PingStores'
  BY <1>1, PingStoresFacts DEF PingStores, serverOfPings
<1>3. /\ UNCHANGED <<time, asked, appending, lastPing, pingLog, passedOn, pingFaults, doubted>>
      /\ UNCHANGED <<lastShownAt, preparing, shown, made>>
  BY <1>1 DEF serverOfPings
<1>4. \A r \in Pinger : PageOK(r)' /\ OnPage(r)' = OnPage(r)
  BY <1>3, PageStays, OnPageStays DEF PingsIInv
<1>5. OnePingPerId'
  <2>1. KnownPings' \subseteq KnownPings
    BY <1>3, <1>4 DEF KnownPings
  <2>2. QED
    BY <1>3, <2>1, NoNewPing DEF PingsIInv
<1>6. InTurn' /\ HeardOnce' /\ \A r \in Pinger : OthersOnRecord(r)'
  BY <1>3, <1>4 DEF PingsIInv, InTurn, HeardOnce, OthersOnRecord
<1>7. PaceKept' /\ PingsArePaced'
  BY <1>3, PageOnly
<1>8. QED
  BY <1>2, <1>4, <1>5, <1>6, <1>7 DEF PingsIInv

\* A ping that waited for its sound goes from one place of its page to the other.
LEMMA PingAppearsKeeps ==
  ASSUME PingsIInv, NEW p \in Pinger, NEW ping \in preparing[p], PingAppears(p, ping)
  PROVE  PingsIInv'
<1> DEFINE view == View(ping, TRUE)
<1>1. /\ preparing' = [preparing EXCEPT ![p] = @ \ {ping}]
      /\ shown' = [shown EXCEPT ![p] = @ \cup {view}]
      /\ loaded' \in {loaded, [loaded EXCEPT ![p] = TRUE]}
      /\ UNCHANGED <<time, serverOfPings, lastShownAt, made>>
  BY DEF PingAppears
<1>2. /\ UNCHANGED <<time, asked, appending, lastPing, pingLog, passedOn, pingFaults, doubted>>
      /\ UNCHANGED <<lastShownAt, made>>
  BY <1>1 DEF serverOfPings
<1>3. PingStores /\ ping \in Ping /\ time \in Nat /\ Duration \in Nat \ {0}
  BY PingStoresFacts, PingsAssumption DEF PingStores
<1>4. /\ view \in PingView /\ view.by = ping.by /\ view.id = ping.id /\ view.startedAt = time
      /\ view.waited = TRUE /\ PingOf(view) = ping
  BY <1>3 DEF View, PingView, PingOf, Ping
<1> HIDE DEF view
<1>5. /\ preparing'[p] = preparing[p] \ {ping} /\ shown'[p] = shown[p] \cup {view}
      /\ \A r \in Pinger \ {p} : preparing'[r] = preparing[r] /\ shown'[r] = shown[r]
      /\ preparing' \in [Pinger -> SUBSET Ping] /\ shown' \in [Pinger -> SUBSET PingView]
      /\ loaded' \in [Pinger -> BOOLEAN]
  <2>1. loaded' \in [Pinger -> BOOLEAN]
    BY <1>1, <1>3 DEF PingStores
  <2>2. QED
    BY <1>1, <1>3, <1>4, <2>1 DEF PingStores
<1>6. OnPage(p)' = OnPage(p)
  <2>1. {PingOf(v) : v \in shown'[p]} = {PingOf(v) : v \in shown[p]} \cup {ping}
    BY <1>4, <1>5
  <2>2. QED
    BY <1>5, <2>1 DEF OnPage
<1>7. \A r \in Pinger : OnPage(r)' = OnPage(r)
  BY <1>5, <1>6, OnPageStays
<1>8. \A r \in Pinger : PageOK(r)'
  <2>1. \A r \in Pinger \ {p} : PageOK(r)'
    BY <1>2, <1>5, PageStays DEF PingsIInv
  <2>2. PageOK(p)
    BY DEF PingsIInv
  <2>3. \A v \in shown[p] : v.id # ping.id
    <3>1. ASSUME NEW v \in shown[p], v.id = ping.id PROVE FALSE
      <4>1. PingOf(v) \in KnownPings /\ ping \in KnownPings
        BY DEF KnownPings, OnPage
      <4>2. PingOf(v).id = ping.id
        BY <3>1 DEF PingOf
      <4>3. PingOf(v) = ping
        BY <4>1, <4>2 DEF PingsIInv, OnePingPerId
      <4>4. QED
        BY <2>2, <4>3 DEF PageOK
    <3>2. QED
      BY <3>1
  <2>4. \A v \in shown'[p] : v.startedAt + Duration > time' /\ v.startedAt <= time'
                              /\ PingOf(v) \notin preparing'[p]
    BY <1>2, <1>3, <1>4, <1>5, <2>2 DEF PageOK
  <2>5. \A v, w \in shown'[p] : v.id = w.id => v = w
    BY <1>4, <1>5, <2>2, <2>3 DEF PageOK
  <2>6. \A v \in shown'[p] : ~v.waited => v \in shown[p]
    BY <1>4, <1>5
  <2>7. PageOK(p)'
    BY <1>2, <2>2, <2>4, <2>5, <2>6 DEF PageOK
  <2>8. QED
    BY <2>1, <2>7
<1>9. PingStores'
  BY <1>2, <1>3, <1>5 DEF PingStores
<1>10. OnePingPerId'
  <2>1. KnownPings' \subseteq KnownPings
    BY <1>2, <1>7 DEF KnownPings
  <2>2. QED
    BY <1>2, <2>1, NoNewPing DEF PingsIInv
<1>11. InTurn' /\ HeardOnce' /\ \A r \in Pinger : OthersOnRecord(r)'
  BY <1>2, <1>7 DEF PingsIInv, InTurn, HeardOnce, OthersOnRecord
<1>12. PaceKept' /\ PingsArePaced'
  BY <1>2, PageOnly
<1>13. QED
  BY <1>8, <1>9, <1>10, <1>11, <1>12 DEF PingsIInv

\* Time passes: what is over leaves the pages.
LEMMA PingTimeKeeps == ASSUME PingsIInv, PingTime PROVE PingsIInv'
<1>1. /\ time' = time + 1
      /\ shown' = [p \in Pinger |-> shown[p] \ Expired(p, time + 1)]
      /\ UNCHANGED <<asked, appending, lastPing, pingLog, passedOn, pingFaults, doubted>>
      /\ UNCHANGED <<loaded, lastShownAt, preparing, made>>
  BY DEF PingTime, serverOfPings
<1>2. PingStores /\ time \in Nat /\ Duration \in Nat \ {0} /\ Cooldown \in Nat \ {0}
  BY PingStoresFacts, PingsAssumption DEF PingStores
<1>3. \A p \in Pinger : /\ shown'[p] \subseteq shown[p]
                        /\ \A v \in shown'[p] : ~(v.startedAt + Duration <= time + 1)
  BY <1>1 DEF Expired
<1>4. PingStores'
  <2>1. shown' \in [Pinger -> SUBSET PingView]
    BY <1>1, <1>2 DEF PingStores
  <2>2. QED
    BY <1>1, <1>2, <2>1 DEF PingStores
<1>5. \A p \in Pinger : OnPage(p)' \subseteq OnPage(p)
  BY <1>1, <1>3 DEF OnPage
<1>6. \A p \in Pinger : PageOK(p)'
  <2>1. SUFFICES ASSUME NEW p \in Pinger PROVE PageOK(p)'
    OBVIOUS
  <2>2. PageOK(p)
    BY DEF PingsIInv
  <2>3. \A v \in shown'[p] : v \in shown[p] /\ v.startedAt \in Nat
    BY <1>3, PingStoresFacts DEF PingView
  <2>4. \A v \in shown'[p] : v.startedAt + Duration > time' /\ v.startedAt <= time'
                              /\ PingOf(v) \notin preparing'[p]
    BY <1>1, <1>2, <1>3, <2>2, <2>3 DEF PageOK
  <2>5. \A q \in Pinger : lastShownAt'[p][q] <= time'
    <3>1. \A q \in Pinger : lastShownAt[p][q] \in Int /\ lastShownAt[p][q] <= time
      BY <1>2, <2>2 DEF PageOK, PingStores, NeverOr
    <3>2. QED
      BY <1>1, <1>2, <3>1
  <2>6. QED
    BY <1>1, <2>2, <2>3, <2>4, <2>5 DEF PageOK
<1>7. OnePingPerId'
  <2>1. KnownPings' \subseteq KnownPings
    BY <1>1, <1>5 DEF KnownPings
  <2>2. QED
    BY <1>1, <2>1, NoNewPing DEF PingsIInv
<1>8. InTurn' /\ HeardOnce' /\ PingsArePaced' /\ \A p \in Pinger : OthersOnRecord(p)'
  <2>1. InTurn' /\ PingsArePaced'
    BY <1>1 DEF PingsIInv, InTurn, PingsArePaced
  <2>2. HeardOnce' /\ \A p \in Pinger : OthersOnRecord(p)'
    BY <1>1, <1>5 DEF PingsIInv, HeardOnce, OthersOnRecord
  <2>3. QED
    BY <2>1, <2>2
<1>9. PaceKept'
  <2>1. PaceKept
    BY DEF PingsIInv
  <2>2. \A q \in Pinger : lastPing'[q] <= time'
    <3>1. \A q \in Pinger : lastPing[q] \in Int /\ lastPing[q] <= time
      BY <1>2, <2>1 DEF PaceKept, PingStores, NeverOr
    <3>2. QED
      BY <1>1, <1>2, <3>1
  <2>3. ASSUME NEW q \in Pinger, NEW at \in Nat, CountedBefore(q, at) PROVE CountedBefore(q, at)'
    BY <1>1, <1>2, <2>3 DEF CountedBefore
  <2>4. ASSUME NEW k \in DOMAIN pingLog, pingLog[k].id \notin doubted
        PROVE  CountedBefore(pingLog[k].by, pingLog[k].at)'
    <3>1. pingLog[k].by \in Pinger /\ pingLog[k].at \in Nat
      BY <2>4, PingStoresFacts DEF PingEvent
    <3>2. CountedBefore(pingLog[k].by, pingLog[k].at)
      BY <2>1, <2>4 DEF PaceKept
    <3>3. PICK q \in Pinger, at \in Nat : q = pingLog[k].by /\ at = pingLog[k].at
      BY <3>1
    <3>4. CountedBefore(q, at)'
      BY <2>3, <3>2, <3>3
    <3>5. QED
      BY <1>1, <3>3, <3>4 DEF CountedBefore
  <2>5. QED
    BY <1>1, <2>1, <2>2, <2>4 DEF PaceKept
<1>10. QED
  BY <1>4, <1>6, <1>7, <1>8, <1>9 DEF PingsIInv

\* Division by the cooldown: what is a cooldown apart is in different slots.
LEMMA DivFacts ==
  ASSUME NEW c \in Nat \ {0}, NEW x \in Nat
  PROVE  /\ x \div c \in Nat
         /\ c * (x \div c) <= x
         /\ x < c * (x \div c) + c
<1>1. x \div c \in Nat
  OBVIOUS
<1>2. x = c * (x \div c) + (x % c)
  OBVIOUS
<1>3. x % c \in 0 .. c - 1
  OBVIOUS
<1>4. QED
  BY <1>1, <1>2, <1>3

LEMMA DivMono ==
  ASSUME NEW c \in Nat \ {0}, NEW x \in Nat, NEW y \in Nat, x <= y
  PROVE  x \div c <= y \div c
<1>1. x \div c \in Nat /\ c * (x \div c) <= x /\ x < c * (x \div c) + c
  BY DivFacts
<1>2. y \div c \in Nat /\ c * (y \div c) <= y /\ y < c * (y \div c) + c
  BY DivFacts
<1>3. ASSUME NEW a \in Nat, NEW b \in Nat, c * a <= x, y < c * b + c PROVE a <= b
  <2>1. SUFFICES ASSUME b + 1 <= a PROVE FALSE
    BY <1>3
  <2>2. c * (b + 1) <= c * a
    BY <2>1
  <2>3. c * (b + 1) = c * b + c
    OBVIOUS
  <2>4. c * a \in Nat /\ c * b \in Nat
    OBVIOUS
  <2>5. QED
    BY <2>2, <2>3, <2>4, <1>3
<1>4. QED
  BY <1>1, <1>2, <1>3

LEMMA DivApart ==
  ASSUME NEW c \in Nat \ {0}, NEW x \in Nat, NEW y \in Nat, y - x >= c
  PROVE  x \div c # y \div c
<1>1. x \div c \in Nat /\ c * (x \div c) <= x /\ x < c * (x \div c) + c
  BY DivFacts
<1>2. y \div c \in Nat /\ c * (y \div c) <= y /\ y < c * (y \div c) + c
  BY DivFacts
<1>3. QED
  BY <1>1, <1>2

\* No more pings of q are under way than there are slots in the time of one.
LEMMA FewOnPage ==
  ASSUME PingsIInv, NEW p \in Pinger, NEW q \in Pinger
  PROVE  Cardinality({v \in shown[p] : v.by = q /\ ~v.waited}) <= 1 + (Duration - 1) \div Cooldown
<1> DEFINE S == {v \in shown[p] : v.by = q /\ ~v.waited}
           last == (Duration - 1) \div Cooldown
           slot == [v \in S |-> (time - v.startedAt) \div Cooldown]
<1>1. /\ Cooldown \in Nat \ {0} /\ Duration - 1 \in Nat /\ Duration \in Nat \ {0} /\ time \in Nat
      /\ PageOK(p)
  BY PingStoresFacts, PingsAssumption DEF PingsIInv, PingStores
<1>2. last \in Nat
  BY <1>1, DivFacts
<1>3. \A v \in S : v.startedAt \in Nat /\ time - v.startedAt \in 0 .. Duration - 1
  <2>1. \A v \in S : v.startedAt \in Nat
    BY PingStoresFacts DEF PingView
  <2>2. \A v \in S : v.startedAt <= time /\ v.startedAt + Duration > time
    BY <1>1 DEF PageOK
  <2>3. QED
    BY <1>1, <2>1, <2>2
<1>4. \A v \in S : (time - v.startedAt) \div Cooldown \in 0 .. last
  <2>1. SUFFICES ASSUME NEW v \in S PROVE (time - v.startedAt) \div Cooldown \in 0 .. last
    OBVIOUS
  <2>2. PICK d \in 0 .. Duration - 1 : d = time - v.startedAt
    BY <1>3
  <2>3. d \in Nat /\ d <= Duration - 1
    BY <1>1
  <2>4. d \div Cooldown \in Nat /\ d \div Cooldown <= last
    BY <1>1, <2>3, DivFacts, DivMono
  <2>5. QED
    BY <1>2, <2>2, <2>4
<1>5. \A v, w \in S : v # w =>
        (time - v.startedAt) \div Cooldown # (time - w.startedAt) \div Cooldown
  <2>1. SUFFICES ASSUME NEW v \in S, NEW w \in S, v # w
                 PROVE  (time - v.startedAt) \div Cooldown # (time - w.startedAt) \div Cooldown
    OBVIOUS
  <2>2. v.startedAt - w.startedAt >= Cooldown \/ w.startedAt - v.startedAt >= Cooldown
    BY <1>1, <2>1 DEF PageOK
  <2>3. PICK d \in Nat, e \in Nat : d = time - v.startedAt /\ e = time - w.startedAt
    BY <1>3
  <2>4. e - d >= Cooldown \/ d - e >= Cooldown
    BY <1>1, <1>3, <2>2, <2>3
  <2>5. d \div Cooldown # e \div Cooldown
    BY <1>1, <2>3, <2>4, DivApart
  <2>6. QED
    BY <2>3, <2>5
<1>6. slot \in Injection(S, 0 .. last)
  <2>1. slot \in [S -> 0 .. last]
    BY <1>4
  <2>2. \A v, w \in S : slot[v] = slot[w] => v = w
    BY <1>5
  <2>3. QED
    BY <2>1, <2>2 DEF Injection, IsInjective
<1>7. IsFiniteSet(0 .. last) /\ Cardinality(0 .. last) = last + 1
  BY <1>2, FS_Interval
<1> HIDE DEF S, last, slot
<1>8. Cardinality(S) <= Cardinality(0 .. last)
  BY <1>6, <1>7, FS_Injection DEF ExistsInjection
<1>9. QED
  BY <1>2, <1>7, <1>8 DEF S, last

LEMMA PingsIInvSuffices == ASSUME PingsIInv PROVE PingsInv
<1>1. PingsTypeOK
  <2>1. \A p \in Pinger : PageOK(p)
    BY DEF PingsIInv
  <2>2. \A p \in Pinger : \A v \in shown[p] :
          v.startedAt + Duration > time /\ [by |-> v.by, id |-> v.id] \notin preparing[p]
    BY <2>1 DEF PageOK, PingOf
  <2>3. \A p \in Pinger : \A v, w \in shown[p] : v.id = w.id => v = w
    BY <2>1 DEF PageOK
  <2>4. \A i, j \in DOMAIN pingLog : pingLog[i].id = pingLog[j].id => i = j
    BY DEF PingsIInv, InTurn
  <2>5. QED
    BY <2>2, <2>3, <2>4 DEF PingsTypeOK
<1>2. ShownPingsAreRecorded
  <2>1. ASSUME NEW p \in Pinger, NEW x \in OnPage(p), x.by # p
        PROVE  \E i \in DOMAIN pingLog : pingLog[i].id = x.id /\ pingLog[i].by = x.by
    <3>1. PICK k \in DOMAIN pingLog : PingOf(pingLog[k]) = x
      BY <2>1 DEF PingsIInv, OthersOnRecord
    <3>2. QED
      BY <3>1 DEF PingOf
  <2>2. QED
    BY <2>1 DEF ShownPingsAreRecorded, OnPage, PingOf
<1>3. PingsAreFew
  BY FewOnPage DEF PingsAreFew
<1>4. QED
  BY <1>1, <1>2, <1>3 DEF PingsInv, PingsIInv

LEMMA PingsStart == PingsInit => PingsIInv
<1>1. SUFFICES ASSUME PingsInit PROVE PingsIInv
  OBVIOUS
<1>2. /\ time = 0 /\ made = 0 /\ asked = <<>> /\ appending = NoPing /\ pingLog = <<>>
      /\ lastPing = [p \in Pinger |-> -1] /\ passedOn = [p \in Pinger |-> <<>>]
      /\ loaded = [p \in Pinger |-> FALSE] /\ preparing = [p \in Pinger |-> {}]
      /\ shown = [p \in Pinger |-> {}]
      /\ lastShownAt = [p \in Pinger |-> [q \in Pinger |-> -1]]
  BY <1>1 DEF PingsInit
<1>3. PingStores
  <2>1. 0 \in Nat /\ -1 \in NeverOr
    BY DEF NeverOr
  <2>2. <<>> \in Seq(Ping) /\ <<>> \in Seq(PingEvent)
    OBVIOUS
  <2>3. [q \in Pinger |-> -1] \in [Pinger -> NeverOr]
    BY <2>1
  <2>4. lastShownAt \in [Pinger -> [Pinger -> NeverOr]] /\ lastPing \in [Pinger -> NeverOr]
    BY <1>2, <2>3
  <2>5. passedOn \in [Pinger -> Seq(Ping)] /\ asked \in Seq(Ping) /\ pingLog \in Seq(PingEvent)
    BY <1>2, <2>2
  <2>6. /\ loaded \in [Pinger -> BOOLEAN] /\ preparing \in [Pinger -> SUBSET Ping]
        /\ shown \in [Pinger -> SUBSET PingView]
    BY <1>2
  <2>7. QED
    BY <1>2, <2>1, <2>4, <2>5, <2>6 DEF PingStores
<1>4. /\ DOMAIN asked = {} /\ DOMAIN pingLog = {} /\ appending = NoPing
      /\ \A p \in Pinger : DOMAIN passedOn[p] = {}
  <2>1. DOMAIN <<>> = {}
    OBVIOUS
  <2>2. \A p \in Pinger : passedOn[p] = <<>>
    BY <1>2
  <2>3. QED
    BY <1>2, <2>1, <2>2
<1>5. \A p \in Pinger : OnPage(p) = {} /\ PageOK(p)
  <2>1. \A p \in Pinger : shown[p] = {} /\ preparing[p] = {} /\ time = 0
                          /\ \A q \in Pinger : lastShownAt[p][q] = -1
    BY <1>2
  <2>2. QED
    BY <2>1 DEF OnPage, PageOK
<1>6. KnownPings = {}
  BY <1>4, <1>5 DEF KnownPings
<1>7. OnePingPerId /\ InTurn /\ HeardOnce /\ PingsArePaced /\ \A p \in Pinger : OthersOnRecord(p)
  BY <1>4, <1>5, <1>6 DEF OnePingPerId, InTurn, HeardOnce, PingsArePaced, OthersOnRecord
<1>8. PaceKept
  <2>1. \A q \in Pinger : lastPing[q] <= time
    BY <1>2
  <2>2. QED
    BY <1>4, <2>1 DEF PaceKept
<1>9. QED
  BY <1>3, <1>5, <1>7, <1>8 DEF PingsIInv

LEMMA PingsStep == PingsIInv /\ [PingsNext]_pingVars => PingsIInv'
<1>1. SUFFICES ASSUME PingsIInv, [PingsNext]_pingVars PROVE PingsIInv'
  OBVIOUS
<1>2. ASSUME NEW p \in Pinger, MakePing(p) PROVE PingsIInv'
  BY <1>1, <1>2, MakePingKeeps
<1>3. ASSUME NEW p \in Pinger, HearPing(p) PROVE PingsIInv'
  BY <1>1, <1>3, HearPingKeeps
<1>4. ASSUME NEW p \in Pinger, SoundLoads(p) PROVE PingsIInv'
  BY <1>1, <1>4, SoundLoadsKeeps
<1>5. ASSUME NEW p \in Pinger, NEW ping \in preparing[p], PingAppears(p, ping) PROVE PingsIInv'
  BY <1>1, <1>5, PingAppearsKeeps
<1>6. CASE BeginPing
  BY <1>1, <1>6, BeginPingKeeps
<1>7. CASE PingRecorded
  BY <1>1, <1>7, PingRecordedKeeps
<1>8. ASSUME NEW stored \in BOOLEAN, PingRefused(stored) PROVE PingsIInv'
  BY <1>1, <1>8, PingRefusedKeeps
<1>9. CASE PingTime
  BY <1>1, <1>9, PingTimeKeeps
<1>10. CASE UNCHANGED pingVars
  <2>1. /\ UNCHANGED <<time, asked, appending, lastPing, pingLog, passedOn, doubted>>
        /\ UNCHANGED <<loaded, lastShownAt, preparing, shown, made>>
    BY <1>10 DEF pingVars
  <2>2. \A r \in Pinger : PageOK(r)' /\ OnPage(r)' = OnPage(r)
    BY <1>1, <2>1, PageStays, OnPageStays DEF PingsIInv
  <2>3. KnownPings' \subseteq KnownPings
    BY <2>1, <2>2 DEF KnownPings
  <2>4. OnePingPerId' /\ PaceKept' /\ PingsArePaced'
    BY <1>1, <2>1, <2>3, NoNewPing, PageOnly DEF PingsIInv
  <2>5. PingStores' /\ InTurn' /\ HeardOnce' /\ \A r \in Pinger : OthersOnRecord(r)'
    BY <1>1, <2>1, <2>2 DEF PingsIInv, PingStores, InTurn, HeardOnce, OthersOnRecord
  <2>6. QED
    BY <2>2, <2>4, <2>5 DEF PingsIInv
<1>11. QED
  BY <1>1, <1>2, <1>3, <1>4, <1>5, <1>6, <1>7, <1>8, <1>9, <1>10 DEF PingsNext

\* The pings of a player are paced (ping-command.ts), on record before others
\* see them, and few on every page (pings.ts), for any number of players and any
\* cooldown and duration, although appends fail and sounds are awaited.
THEOREM PingsInvariant == PingsSpec => []PingsInv
<1>1. PingsIInv => PingsInv
  BY PingsIInvSuffices
<1>2. QED
  BY <1>1, PingsStart, PingsStep, PTL DEF PingsSpec

-----------------------------------------------------------------------------
(***************************************************************************)
(* Sums over finite sets.  A sum of the community modules is the value of  *)
(* a function on the subsets of a set that takes away one chosen element   *)
(* at a time.  That there is such a function, and that any element may be  *)
(* taken away first, is shown by the least counterexample.                 *)
(***************************************************************************)
LEMMA LeastNat ==
  ASSUME NEW T \in SUBSET Nat, T # {}
  PROVE  \E n \in T : \A m \in T : n <= m
<1>1. PICK R : R = OpToRel(<, Nat)
  OBVIOUS
<1>2. IsWellFoundedOn(R, Nat)
  BY <1>1, NatLessThanWellFounded
<1>3. \E n \in T : \A m \in T : ~(<<m, n>> \in R)
  BY <1>2, WFMin
<1>4. \A m, n \in Nat : m < n => <<m, n>> \in R
  BY <1>1 DEF OpToRel
<1>5. PICK n \in T : \A m \in T : ~(<<m, n>> \in R)
  BY <1>3
<1>6. \A m \in T : n <= m
  <2>1. ASSUME NEW m \in T PROVE n <= m
    <3>1. m \in Nat /\ n \in Nat
      OBVIOUS
    <3>2. ~(m < n)
      BY <1>4, <1>5, <3>1
    <3>3. QED
      BY <3>1, <3>2
  <2>2. QED
    BY <2>1
<1>7. QED
  BY <1>6

\* The element that a sum over s takes away, and a function of partial sums.
First(s) == CHOOSE x \in s : TRUE
SumFrom(f, g, s) == IF s = {} THEN 0 ELSE f[First(s)] + g[s \ {First(s)}]
IsSums(f, S, g) == g = [s \in SUBSET S |-> SumFrom(f, g, s)]
SumOver(f, S) == (CHOOSE g : IsSums(f, S, g))[S]

\* The subsets of S of at most n elements.
Small(S, n) == {s \in SUBSET S : Cardinality(s) <= n}

LEMMA FirstFacts ==
  ASSUME NEW S, IsFiniteSet(S), S # {}
  PROVE  /\ First(S) \in S /\ IsFiniteSet(S \ {First(S)})
         /\ Cardinality(S) \in Nat \ {0} /\ Cardinality(S \ {First(S)}) = Cardinality(S) - 1
<1>1. First(S) \in S
  BY DEF First
<1>2. IsFiniteSet(S \ {First(S)}) /\ Cardinality(S \ {First(S)}) = Cardinality(S) - 1
  BY <1>1, FS_RemoveElement
<1>3. Cardinality(S) \in Nat /\ Cardinality(S) # 0
  BY FS_CardinalityType, FS_EmptySet
<1>4. QED
  BY <1>1, <1>2, <1>3

LEMMA SumsExist == ASSUME NEW f, NEW S, IsFiniteSet(S) PROVE \E g : IsSums(f, S, g)
<1> DEFINE Bad == {n \in Nat : ~ \E g : g = [s \in Small(S, n) |-> SumFrom(f, g, s)]}
<1>1. ASSUME Bad # {} PROVE FALSE
  <2>1. PICK n \in Bad : \A m \in Bad : n <= m
    BY <1>1, LeastNat
  <2>2. \A s \in SUBSET S : IsFiniteSet(s) /\ Cardinality(s) \in Nat
    BY FS_Subset, FS_CardinalityType
  <2>3. n # 0
    <3>1. \A s \in Small(S, 0) : s = {}
      <4>1. SUFFICES ASSUME NEW s \in Small(S, 0) PROVE s = {}
        OBVIOUS
      <4>2. IsFiniteSet(s) /\ Cardinality(s) = 0
        BY <2>2 DEF Small
      <4>3. QED
        BY <4>2, FS_EmptySet
    <3>2. PICK g : g = [s \in Small(S, 0) |-> 0]
      OBVIOUS
    <3>3. \A s \in Small(S, 0) : SumFrom(f, g, s) = 0
      BY <3>1 DEF SumFrom
    <3>4. g = [s \in Small(S, 0) |-> SumFrom(f, g, s)]
      BY <3>2, <3>3
    <3>5. QED
      BY <3>4
  <2>4. n - 1 \in Nat /\ n \in Nat /\ ~(n <= n - 1)
    BY <2>1, <2>3
  <2>5. n - 1 \notin Bad
    BY <2>1, <2>4
  <2>6. PICK g : g = [s \in Small(S, n - 1) |-> SumFrom(f, g, s)]
    BY <2>4, <2>5
  <2>7. PICK h : h = [s \in Small(S, n) |-> SumFrom(f, g, s)]
    OBVIOUS
  <2>8. ASSUME NEW s \in Small(S, n), s # {}
        PROVE  h[s \ {First(s)}] = g[s \ {First(s)}]
    <3>1. IsFiniteSet(s) /\ Cardinality(s) <= n /\ s \subseteq S
      BY <2>2, <2>8 DEF Small
    <3>2. Cardinality(s \ {First(s)}) = Cardinality(s) - 1 /\ Cardinality(s) \in Nat
      BY <2>8, <3>1, FirstFacts
    <3>3. s \ {First(s)} \in Small(S, n - 1) /\ s \ {First(s)} \in Small(S, n)
      BY <2>4, <3>1, <3>2 DEF Small
    <3>4. h[s \ {First(s)}] = SumFrom(f, g, s \ {First(s)})
      BY <2>7, <3>3
    <3>5. g[s \ {First(s)}] = SumFrom(f, g, s \ {First(s)})
      BY <2>6, <3>3
    <3>6. QED
      BY <3>4, <3>5
  <2>9. \A s \in Small(S, n) : SumFrom(f, g, s) = SumFrom(f, h, s)
    BY <2>8 DEF SumFrom
  <2>10. h = [s \in Small(S, n) |-> SumFrom(f, h, s)]
    BY <2>7, <2>9
  <2>11. QED
    BY <2>1, <2>10
<1>2. Cardinality(S) \in Nat /\ Cardinality(S) \notin Bad
  BY <1>1, FS_CardinalityType
<1>3. Small(S, Cardinality(S)) = SUBSET S
  <2>1. \A s \in SUBSET S : Cardinality(s) <= Cardinality(S)
    BY FS_Subset
  <2>2. QED
    BY <2>1 DEF Small
<1>4. PICK g : g = [s \in Small(S, Cardinality(S)) |-> SumFrom(f, g, s)]
  BY <1>2
<1>5. QED
  BY <1>3, <1>4 DEF IsSums

\* Two functions of partial sums agree where both are defined, whatever they are
\* called by.
LEMMA SumsAgree ==
  ASSUME NEW f, NEW S, NEW g, NEW t \in SUBSET S, NEW h, IsFiniteSet(S),
         IsSums(f, S, g), IsSums(f, t, h)
  PROVE  \A s \in SUBSET t : g[s] = h[s]
<1> DEFINE Bad == {n \in Nat : \E s \in SUBSET t : Cardinality(s) = n /\ g[s] # h[s]}
<1>1. \A s \in SUBSET t : IsFiniteSet(s) /\ Cardinality(s) \in Nat
  BY FS_Subset, FS_CardinalityType
<1>2. ASSUME Bad # {} PROVE FALSE
  <2>1. PICK n \in Bad : \A m \in Bad : n <= m
    BY <1>2, LeastNat
  <2>2. PICK s \in SUBSET t : Cardinality(s) = n /\ g[s] # h[s]
    BY <2>1
  <2>3. g[s] = SumFrom(f, g, s) /\ h[s] = SumFrom(f, h, s)
    BY DEF IsSums
  <2>4. s # {}
    BY <2>2, <2>3 DEF SumFrom
  <2>5. PICK r : r = s \ {First(s)}
    OBVIOUS
  <2>6. Cardinality(r) = n - 1 /\ n - 1 \in Nat /\ n \in Nat /\ ~(n <= n - 1) /\ r \in SUBSET t
    BY <1>1, <2>2, <2>4, <2>5, FirstFacts
  <2>7. g[r] = h[r]
    BY <2>1, <2>6
  <2>8. g[s] = f[First(s)] + g[r] /\ h[s] = f[First(s)] + h[r]
    BY <2>3, <2>4, <2>5 DEF SumFrom
  <2>9. QED
    BY <2>2, <2>7, <2>8
<1>3. QED
  BY <1>1, <1>2

LEMMA SumFacts ==
  ASSUME NEW f, NEW S, IsFiniteSet(S)
  PROVE  /\ SumOver(f, {}) = 0
         /\ S # {} => SumOver(f, S) = f[First(S)] + SumOver(f, S \ {First(S)})
         /\ \A g : IsSums(f, S, g) => g[S] = SumOver(f, S)
<1>1. ASSUME NEW s, IsFiniteSet(s) PROVE \E g : IsSums(f, s, g) /\ g[s] = SumOver(f, s)
  <2>1. \E g : IsSums(f, s, g)
    BY <1>1, SumsExist
  <2>2. IsSums(f, s, CHOOSE g : IsSums(f, s, g))
    BY <2>1
  <2>3. QED
    BY <2>2 DEF SumOver
<1>2. SumOver(f, {}) = 0
  <2>1. PICK g : IsSums(f, {}, g) /\ g[{}] = SumOver(f, {})
    BY <1>1, FS_EmptySet
  <2>2. g[{}] = SumFrom(f, g, {})
    BY <2>1 DEF IsSums
  <2>3. QED
    BY <2>1, <2>2 DEF SumFrom
<1>3. PICK g : IsSums(f, S, g) /\ g[S] = SumOver(f, S)
  BY <1>1
<1>4. ASSUME NEW s \in SUBSET S PROVE g[s] = SumOver(f, s)
  <2>1. IsFiniteSet(s)
    BY FS_Subset
  <2>2. PICK h : IsSums(f, s, h) /\ h[s] = SumOver(f, s)
    BY <1>1, <2>1
  <2>3. IsSums(f, S, g) /\ IsSums(f, s, h) /\ s \in SUBSET S
    BY <1>3, <1>4, <2>2
  <2>4. \A r \in SUBSET s : g[r] = h[r]
    BY <2>3, SumsAgree
  <2>5. QED
    BY <2>2, <2>4
<1>5. ASSUME S # {} PROVE SumOver(f, S) = f[First(S)] + SumOver(f, S \ {First(S)})
  <2>1. g[S] = SumFrom(f, g, S)
    BY <1>3 DEF IsSums
  <2>2. g[S] = f[First(S)] + g[S \ {First(S)}]
    BY <1>5, <2>1 DEF SumFrom
  <2>3. QED
    BY <1>3, <1>4, <2>2
<1>6. \A h : IsSums(f, S, h) => h[S] = SumOver(f, S)
  BY <1>3, SumsAgree
<1>7. QED
  BY <1>2, <1>5, <1>6

\* A sum of naturals is a natural, and any element may be taken away first.
LEMMA SumRemoves ==
  ASSUME NEW S, IsFiniteSet(S), NEW f, \A x \in S : f[x] \in Nat
  PROVE  /\ SumOver(f, S) \in Nat
         /\ \A e \in S : SumOver(f, S) = f[e] + SumOver(f, S \ {e})
<1> DEFINE Good(s) == /\ SumOver(f, s) \in Nat
                      /\ \A e \in s : SumOver(f, s) = f[e] + SumOver(f, s \ {e})
           Bad == {n \in Nat : \E s \in SUBSET S : Cardinality(s) = n /\ ~Good(s)}
<1>1. \A s \in SUBSET S : IsFiniteSet(s) /\ Cardinality(s) \in Nat
  BY FS_Subset, FS_CardinalityType
<1>2. ASSUME Bad # {} PROVE FALSE
  <2>1. PICK n \in Bad : \A m \in Bad : n <= m
    BY <1>2, LeastNat
  <2>2. PICK s \in SUBSET S : Cardinality(s) = n /\ ~Good(s)
    BY <2>1
  <2>3. n \in Nat /\ IsFiniteSet(s)
    BY <1>1, <2>1
  <2>4. \A r \in SUBSET S : Cardinality(r) < n => Good(r)
    <3>1. SUFFICES ASSUME NEW r \in SUBSET S, Cardinality(r) < n, ~Good(r) PROVE FALSE
      OBVIOUS
    <3>2. Cardinality(r) \in Bad /\ Cardinality(r) \in Nat
      BY <1>1, <3>1
    <3>3. QED
      BY <2>1, <2>3, <3>1, <3>2
  <2> HIDE DEF Good, Bad
  <2>5. s # {}
    <3>1. SumOver(f, {}) = 0
      BY <2>3, SumFacts
    <3>2. Good({})
      BY <3>1 DEF Good
    <3>3. QED
      BY <2>2, <3>2
  <2>6. PICK x \in s : x = First(s)
    BY <2>3, <2>5, FirstFacts
  <2>7. SumOver(f, s) = f[x] + SumOver(f, s \ {x})
    BY <2>3, <2>5, <2>6, SumFacts
  <2>8. ASSUME NEW e \in s PROVE Good(s \ {e})
    <3>1. Cardinality(s \ {e}) = n - 1
      BY <2>2, <2>3, FS_RemoveElement
    <3>2. QED
      BY <2>3, <2>4, <3>1
  <2>9. \A e \in s : f[e] \in Nat /\ SumOver(f, s \ {e}) \in Nat
    BY <2>8 DEF Good
  <2>10. SumOver(f, s) \in Nat
    BY <2>6, <2>7, <2>9
  <2>11. ASSUME NEW e \in s, e # x PROVE SumOver(f, s) = f[e] + SumOver(f, s \ {e})
    <3>1. PICK r : r = s \ {x, e}
      OBVIOUS
    <3>2. (s \ {x}) \ {e} = r /\ (s \ {e}) \ {x} = r
      BY <3>1
    <3>3. SumOver(f, s \ {x}) = f[e] + SumOver(f, r)
      BY <2>8, <2>11, <3>2 DEF Good
    <3>4. SumOver(f, s \ {e}) = f[x] + SumOver(f, r)
      BY <2>8, <2>11, <3>2 DEF Good
    <3>5. SumOver(f, r) \in Nat
      <4>1. r \in SUBSET S /\ Cardinality(r) = n - 2 /\ n - 2 < n
        <5>1. Cardinality(s \ {x}) = n - 1 /\ IsFiniteSet(s \ {x})
          BY <2>2, <2>3, FS_RemoveElement
        <5>2. Cardinality((s \ {x}) \ {e}) = (n - 1) - 1
          BY <2>11, <5>1, FS_RemoveElement
        <5>3. n - 2 < n /\ (n - 1) - 1 = n - 2
          BY <2>3
        <5>4. Cardinality(r) = n - 2
          BY <3>2, <5>2, <5>3
        <5>5. QED
          BY <3>1, <5>3, <5>4
      <4>2. QED
        BY <2>4, <4>1 DEF Good
    <3>6. f[x] \in Nat /\ f[e] \in Nat
      BY <2>9
    <3>7. QED
      BY <2>7, <3>3, <3>4, <3>5, <3>6
  <2>12. QED
    BY <2>2, <2>7, <2>10, <2>11 DEF Good
<1>3. Good(S)
  BY <1>1, <1>2
<1>4. QED
  BY <1>3

\* The sum of the community modules is this one.
SumOf(F, u, S) == MapThenSumSet(LAMBDA r : F[r][u], S)

LEMMA SumIsSum ==
  ASSUME NEW F, NEW u, NEW S, IsFiniteSet(S), NEW f, \A r \in S : f[r] = F[r][u]
  PROVE  SumOf(F, u, S) = SumOver(f, S)
<1> DEFINE Eq(g) == g = [s \in SUBSET S |-> IF s = {} THEN 0
                           ELSE F[CHOOSE x \in s : TRUE][u] + g[s \ {CHOOSE x \in s : TRUE}]]
<1>1. SumOf(F, u, S) = (CHOOSE g : Eq(g))[S]
  BY DEF SumOf, MapThenSumSet, MapThenFoldSet
<1>2. \A s \in SUBSET S : s # {} => First(s) \in S
  BY DEF First
<1>3. \A g : \A s \in SUBSET S :
        SumFrom(f, g, s) = IF s = {} THEN 0 ELSE F[First(s)][u] + g[s \ {First(s)}]
  BY <1>2 DEF SumFrom
<1>4. \A g : IsSums(f, S, g) <=> Eq(g)
  BY ZenonT(40), <1>3 DEF IsSums, First
<1>5. \E g : Eq(g)
  <2>1. \E g : IsSums(f, S, g)
    BY SumsExist
  <2>2. PICK g : IsSums(f, S, g)
    BY <2>1
  <2>3. Eq(g)
    BY <1>4, <2>2
  <2>4. QED
    BY <2>3
<1>6. Eq(CHOOSE g : Eq(g))
  BY <1>5
<1>7. IsSums(f, S, CHOOSE g : Eq(g))
  BY <1>4, <1>6
<1>8. QED
  BY <1>1, <1>7, SumFacts

-----------------------------------------------------------------------------
(***************************************************************************)
(* The results of completed rooms.  A transaction that pays has the lock on *)
(* a result that is open; who has been paid is who is due by the results.  *)
(***************************************************************************)
Due(r, u) == summary[r] # Open /\ u \in summary[r] /\ Xp[r][u] > 0
PaidIsDue == \A r \in PlayedRoom, u \in User : <<r, u>> \in paid <=> Due(r, u)

\* The rooms that u has a result of, and the sum over them.
Won(u) == {r \in PlayedRoom : summary[r] # Open /\ u \in summary[r]}
Worth(u) == [r \in PlayedRoom |-> Xp[r][u]]
PointsAreSums == \A u \in User : xpTotal[u] = SumOver(Worth(u), Won(u))

TxOK(w) ==
  /\ tx[w].awards \subseteq Payees(w)
  /\ tx[w].pc \in {"locked", "paying"} => resultLock[tx[w].room] = w
  /\ tx[w].pc = "paying" => summary[tx[w].room] = Open /\ tx[w].room \in completed

\* The inductive invariant.
FinalizationIInv ==
  /\ FinalizationTypeOK /\ PaidIsDue /\ PointsAreSums /\ ResultsNeedCompletion
  /\ \A w \in Worker : TxOK(w)

LEMMA WonFacts ==
  ASSUME NEW u \in User
  PROVE  /\ IsFiniteSet(Won(u)) /\ SumOf(Xp, u, Won(u)) = SumOver(Worth(u), Won(u))
<1>1. IsFiniteSet(Won(u))
  BY FiniteAssumption, FS_Subset DEF Won
<1>2. \A r \in Won(u) : Worth(u)[r] = Xp[r][u]
  BY DEF Worth, Won
<1>3. QED
  BY <1>1, <1>2, SumIsSum

LEMMA PointsAreMatched == PointsMatchSummaries <=> PointsAreSums
<1>1. ASSUME NEW u \in User
      PROVE  MapThenSumSet(LAMBDA r : Xp[r][u],
                           {r \in PlayedRoom : summary[r] # Open /\ u \in summary[r]})
               = SumOf(Xp, u, Won(u))
  BY DEF SumOf, Won, MapThenSumSet, MapThenFoldSet
<1>2. QED
  BY <1>1, WonFacts DEF PointsMatchSummaries, PointsAreSums

LEMMA FinalizationFacts ==
  ASSUME FinalizationIInv
  PROVE  /\ FinalizationTypeOK /\ NoTx \in Tx /\ Nobody \notin Worker
         /\ NoTx.pc = "idle" /\ NoTx.awards = {}
         /\ \A w \in Worker : tx[w] \in Tx /\ tx[w].room \in PlayedRoom /\ tx[w].players \subseteq User
         /\ \A S \in SUBSET User : Open # S
         /\ \A r \in PlayedRoom, u \in User : Xp[r][u] \in Nat
<1>1. FinalizationTypeOK /\ NoTx.pc = "idle" /\ NoTx.awards = {}
  BY DEF FinalizationIInv, NoTx
<1>2. (CHOOSE r \in PlayedRoom : TRUE) \in PlayedRoom
  BY FiniteAssumption
<1>3. NoTx \in Tx
  BY <1>2 DEF NoTx, Tx
<1>4. \A w \in Worker : tx[w] \in Tx /\ tx[w].room \in PlayedRoom /\ tx[w].players \subseteq User
  BY <1>1 DEF FinalizationTypeOK, Tx
<1>5. QED
  BY <1>1, <1>3, <1>4, NobodyAssumption, XpAssumption

\* What leaves the results alone keeps all that is said of them.
LEMMA ResultsStay ==
  ASSUME FinalizationIInv, UNCHANGED dbVars, completed \subseteq completed'
  PROVE  PaidIsDue' /\ PointsAreSums' /\ ResultsNeedCompletion'
<1>1. /\ summary' = summary /\ paid' = paid /\ xpTotal' = xpTotal
      /\ PaidIsDue /\ PointsAreSums /\ ResultsNeedCompletion
  BY DEF dbVars, FinalizationIInv
<1>2. PaidIsDue'
  BY <1>1 DEF PaidIsDue, Due
<1>3. PointsAreSums'
  BY <1>1 DEF PointsAreSums, Won, Worth
<1>4. ResultsNeedCompletion'
  BY <1>1 DEF ResultsNeedCompletion
<1>5. QED
  BY <1>2, <1>3, <1>4

\* A transaction is all right while its lock and its result are.
LEMMA TxStays ==
  ASSUME NEW w \in Worker, TxOK(w), tx'[w] = tx[w], completed \subseteq completed',
         resultLock[tx[w].room] = w => resultLock'[tx[w].room] = w,
         resultLock[tx[w].room] = w => summary'[tx[w].room] = summary[tx[w].room]
  PROVE  TxOK(w)'
BY DEF TxOK, Payees

\* The end of a transaction takes away its own locks only.
LEMMA EndTxFacts ==
  ASSUME FinalizationIInv, NEW w \in Worker, EndTx(w)
  PROVE  /\ tx' \in [Worker -> Tx] /\ resultLock' \in [PlayedRoom -> Worker \cup {Nobody}]
         /\ userLock' \in [User -> Worker \cup {Nobody}]
         /\ tx'[w] = NoTx /\ \A v \in Worker \ {w} : tx'[v] = tx[v]
         /\ \A v \in Worker \ {w}, r \in PlayedRoom : resultLock[r] = v => resultLock'[r] = v
<1>1. FinalizationTypeOK /\ NoTx \in Tx
  BY FinalizationFacts
<1>2. /\ tx' = [tx EXCEPT ![w] = NoTx]
      /\ resultLock' = [r \in PlayedRoom |-> IF resultLock[r] = w THEN Nobody ELSE resultLock[r]]
      /\ userLock' = [u \in User |-> IF userLock[u] = w THEN Nobody ELSE userLock[u]]
  BY DEF EndTx
<1>3. tx' \in [Worker -> Tx] /\ tx'[w] = NoTx /\ \A v \in Worker \ {w} : tx'[v] = tx[v]
  BY <1>1, <1>2 DEF FinalizationTypeOK
<1>4. /\ resultLock' \in [PlayedRoom -> Worker \cup {Nobody}]
      /\ \A v \in Worker \ {w}, r \in PlayedRoom : resultLock[r] = v => resultLock'[r] = v
  BY <1>1, <1>2 DEF FinalizationTypeOK
<1>5. userLock' \in [User -> Worker \cup {Nobody}]
  BY <1>1, <1>2 DEF FinalizationTypeOK
<1>6. QED
  BY <1>3, <1>4, <1>5

LEMMA NoTxOK == ASSUME FinalizationIInv, NEW w \in Worker, tx'[w] = NoTx PROVE TxOK(w)'
BY FinalizationFacts DEF TxOK, NoTx

\* A transaction that ends without a result.
LEMMA GivenUp ==
  ASSUME FinalizationIInv, NEW w \in Worker, EndTx(w), UNCHANGED <<completed, participants, dbVars>>,
         todo' \in [Worker -> SUBSET PlayedRoom]
  PROVE  FinalizationIInv'
<1>1. /\ tx' \in [Worker -> Tx] /\ resultLock' \in [PlayedRoom -> Worker \cup {Nobody}]
      /\ userLock' \in [User -> Worker \cup {Nobody}]
      /\ tx'[w] = NoTx /\ \A v \in Worker \ {w} : tx'[v] = tx[v]
      /\ \A v \in Worker \ {w}, r \in PlayedRoom : resultLock[r] = v => resultLock'[r] = v
  BY EndTxFacts
<1>2. FinalizationTypeOK'
  BY <1>1, FinalizationFacts DEF FinalizationTypeOK, dbVars
<1>3. ASSUME NEW v \in Worker \ {w} PROVE TxOK(v)'
  <2>1. TxOK(v) /\ tx'[v] = tx[v] /\ completed \subseteq completed' /\ summary' = summary
        /\ (resultLock[tx[v].room] = v => resultLock'[tx[v].room] = v)
    BY <1>1, <1>3, FinalizationFacts DEF FinalizationIInv, dbVars
  <2>2. QED
    BY <2>1, TxStays
<1>4. TxOK(w)'
  BY <1>1, NoTxOK
<1>5. QED
  BY <1>2, <1>3, <1>4, ResultsStay DEF FinalizationIInv

\* A transaction that goes on without ending.
LEMMA GoesOn ==
  ASSUME FinalizationIInv, NEW w \in Worker, NEW t \in Tx, tx' = [tx EXCEPT ![w] = t],
         UNCHANGED <<completed, participants, dbVars>>,
         todo' \in [Worker -> SUBSET PlayedRoom],
         resultLock' \in [PlayedRoom -> Worker \cup {Nobody}],
         userLock' \in [User -> Worker \cup {Nobody}],
         \A v \in Worker \ {w}, r \in PlayedRoom : resultLock[r] = v => resultLock'[r] = v,
         TxOK(w)'
  PROVE  FinalizationIInv'
<1>1. tx' \in [Worker -> Tx] /\ \A v \in Worker \ {w} : tx'[v] = tx[v]
  BY FinalizationFacts DEF FinalizationTypeOK
<1>2. FinalizationTypeOK'
  BY <1>1, FinalizationFacts DEF FinalizationTypeOK, dbVars
<1>3. ASSUME NEW v \in Worker \ {w} PROVE TxOK(v)'
  <2>1. TxOK(v) /\ tx'[v] = tx[v] /\ completed \subseteq completed' /\ summary' = summary
        /\ (resultLock[tx[v].room] = v => resultLock'[tx[v].room] = v)
    BY <1>1, <1>3, FinalizationFacts DEF FinalizationIInv, dbVars
  <2>2. QED
    BY <2>1, TxStays
<1>4. QED
  BY <1>2, <1>3, ResultsStay DEF FinalizationIInv

LEMMA BeginTxKeeps ==
  ASSUME FinalizationIInv, NEW w \in Worker, NEW r \in PlayedRoom, BeginTx(w, r),
         todo' \in [Worker -> SUBSET PlayedRoom]
  PROVE  FinalizationIInv'
<1> DEFINE t == [pc |-> "begun", room |-> r, players |-> participants[r], awards |-> {}]
<1>1. /\ tx' = [tx EXCEPT ![w] = t] /\ UNCHANGED <<completed, participants, dbVars>>
      /\ resultLock' = resultLock /\ userLock' = userLock
  BY DEF BeginTx, lockVars
<1>2. FinalizationTypeOK
  BY FinalizationFacts
<1>3. t \in Tx /\ t.pc = "begun" /\ t.awards = {}
  BY <1>2 DEF Tx, FinalizationTypeOK
<1> HIDE DEF t
<1>4. tx'[w] = t
  BY <1>1, <1>2 DEF FinalizationTypeOK
<1>5. TxOK(w)'
  BY <1>3, <1>4 DEF TxOK
<1>6. QED
  BY <1>1, <1>2, <1>3, <1>5, GoesOn DEF FinalizationTypeOK

LEMMA LockResultKeeps ==
  ASSUME FinalizationIInv, NEW w \in Worker, LockResult(w) PROVE FinalizationIInv'
<1> DEFINE t == [tx[w] EXCEPT !.pc = "locked"]
<1>1. /\ tx[w].pc = "begun" /\ resultLock[tx[w].room] = Nobody
      /\ resultLock' = [resultLock EXCEPT ![tx[w].room] = w]
      /\ tx' = [tx EXCEPT ![w] = t]
      /\ UNCHANGED <<completed, participants, dbVars>> /\ userLock' = userLock /\ todo' = todo
  BY DEF LockResult, ResultIsFree
<1>2. FinalizationTypeOK /\ tx[w] \in Tx /\ tx[w].room \in PlayedRoom /\ Nobody \notin Worker
  BY FinalizationFacts
<1>3. t \in Tx /\ t.room = tx[w].room /\ t.awards = tx[w].awards /\ t.players = tx[w].players
      /\ t.pc = "locked"
  BY <1>2 DEF Tx
<1> HIDE DEF t
<1>4. tx'[w] = t
  BY <1>1, <1>2 DEF FinalizationTypeOK
<1>5. /\ resultLock' \in [PlayedRoom -> Worker \cup {Nobody}] /\ resultLock'[tx[w].room] = w
      /\ \A v \in Worker \ {w}, r \in PlayedRoom : resultLock[r] = v => resultLock'[r] = v
  BY <1>1, <1>2 DEF FinalizationTypeOK
<1>6. TxOK(w)'
  <2>1. TxOK(w)
    BY DEF FinalizationIInv
  <2>2. QED
    BY <1>3, <1>4, <1>5, <2>1 DEF TxOK, Payees
<1>7. QED
  BY <1>1, <1>2, <1>3, <1>5, <1>6, GoesOn DEF FinalizationTypeOK

LEMMA ComputeSummaryKeeps ==
  ASSUME FinalizationIInv, NEW w \in Worker, ComputeSummary(w) PROVE FinalizationIInv'
<1> DEFINE t == [tx[w] EXCEPT !.pc = "paying"]
<1>1. /\ tx[w].pc = "locked" /\ summary[tx[w].room] = Open /\ tx[w].room \in completed
      /\ tx' = [tx EXCEPT ![w] = t]
      /\ UNCHANGED <<completed, participants, dbVars>> /\ todo' = todo
      /\ resultLock' = resultLock /\ userLock' = userLock
  BY DEF ComputeSummary, lockVars
<1>2. FinalizationTypeOK /\ tx[w] \in Tx
  BY FinalizationFacts
<1>3. t \in Tx /\ t.room = tx[w].room /\ t.awards = tx[w].awards /\ t.players = tx[w].players
      /\ t.pc = "paying"
  BY <1>2 DEF Tx
<1> HIDE DEF t
<1>4. tx'[w] = t
  BY <1>1, <1>2 DEF FinalizationTypeOK
<1>5. TxOK(w)'
  <2>1. TxOK(w)
    BY DEF FinalizationIInv
  <2>2. QED
    BY <1>1, <1>3, <1>4, <2>1 DEF TxOK, Payees, dbVars
<1>6. QED
  BY <1>1, <1>2, <1>3, <1>5, GoesOn DEF FinalizationTypeOK

LEMMA PayUserKeeps ==
  ASSUME FinalizationIInv, NEW w \in Worker, NEW u \in User, PayUser(w, u) PROVE FinalizationIInv'
<1> DEFINE t == [tx[w] EXCEPT !.awards = @ \cup {u}]
<1>1. /\ u \in Payees(w)
      /\ tx' = [tx EXCEPT ![w] = t]
      /\ UNCHANGED <<completed, participants, dbVars>> /\ todo' = todo /\ resultLock' = resultLock
      /\ userLock' = userLock \/ userLock' = [userLock EXCEPT ![u] = w]
  BY DEF PayUser
<1>2. FinalizationTypeOK /\ tx[w] \in Tx
  BY FinalizationFacts
<1>3. t \in Tx /\ t.room = tx[w].room /\ t.awards = tx[w].awards \cup {u}
      /\ t.players = tx[w].players /\ t.pc = tx[w].pc
  BY <1>2 DEF Tx
<1> HIDE DEF t
<1>4. tx'[w] = t
  BY <1>1, <1>2 DEF FinalizationTypeOK
<1>5. userLock' \in [User -> Worker \cup {Nobody}]
  BY <1>1, <1>2 DEF FinalizationTypeOK
<1>6. TxOK(w)'
  <2>1. TxOK(w)
    BY DEF FinalizationIInv
  <2>2. QED
    BY <1>1, <1>3, <1>4, <2>1 DEF TxOK, Payees, dbVars
<1>7. QED
  BY <1>1, <1>2, <1>3, <1>5, <1>6, GoesOn DEF FinalizationTypeOK

\* The result becomes final and its players are paid, for the first time.
LEMMA CommitKeeps ==
  ASSUME FinalizationIInv, NEW w \in Worker, Commit(w) PROVE FinalizationIInv'
<1> DEFINE r == tx[w].room
           P == tx[w].players
<1>1. /\ tx[w].pc = "paying" /\ tx[w].awards = Payees(w)
      /\ summary' = [summary EXCEPT ![r] = P]
      /\ paid' = paid \cup Payments(w)
      /\ xpTotal' = [u \in User |-> IF u \in NewlyPaid(w) THEN xpTotal[u] + Xp[r][u]
                                    ELSE xpTotal[u]]
      /\ EndTx(w) /\ UNCHANGED <<completed, participants, todo>>
  BY DEF Commit
<1>2. /\ FinalizationTypeOK /\ r \in PlayedRoom /\ P \subseteq User
      /\ \A S \in SUBSET User : Open # S
      /\ \A q \in PlayedRoom, u \in User : Xp[q][u] \in Nat
  BY FinalizationFacts
<1>3. TxOK(w) /\ summary[r] = Open /\ r \in completed /\ resultLock[r] = w
  BY <1>1 DEF FinalizationIInv, TxOK
<1>4. /\ tx' \in [Worker -> Tx] /\ resultLock' \in [PlayedRoom -> Worker \cup {Nobody}]
      /\ userLock' \in [User -> Worker \cup {Nobody}]
      /\ tx'[w] = NoTx /\ \A v \in Worker \ {w} : tx'[v] = tx[v]
      /\ \A v \in Worker \ {w}, q \in PlayedRoom : resultLock[q] = v => resultLock'[q] = v
  BY <1>1, EndTxFacts
<1>5. NewlyPaid(w) = {u \in P : Xp[r][u] > 0}
  <2>1. \A u \in User : <<r, u>> \notin paid
    BY <1>2, <1>3 DEF FinalizationIInv, PaidIsDue, Due
  <2>2. \A u \in Payees(w) : u \in User
    BY <1>2 DEF Payees
  <2>3. NewlyPaid(w) = Payees(w)
    BY <1>1, <2>1, <2>2 DEF NewlyPaid
  <2>4. QED
    BY <2>3 DEF Payees
<1>6. Payments(w) = {<<r, u>> : u \in NewlyPaid(w)}
  BY DEF Payments
<1> HIDE DEF r, P
<1>7. /\ summary'[r] = P /\ P # Open
      /\ \A q \in PlayedRoom \ {r} : summary'[q] = summary[q]
      /\ summary' \in [PlayedRoom -> {Open} \cup SUBSET User]
  BY <1>1, <1>2 DEF FinalizationTypeOK
<1>8. FinalizationTypeOK'
  <2>1. paid' \subseteq PlayedRoom \X User
    BY <1>1, <1>2, <1>5, <1>6 DEF FinalizationTypeOK
  <2>2. xpTotal' \in [User -> Nat]
    BY <1>1, <1>2 DEF FinalizationTypeOK
  <2>3. QED
    BY <1>1, <1>2, <1>4, <1>7, <2>1, <2>2 DEF FinalizationTypeOK
<1>9. PaidIsDue'
  <2>1. PaidIsDue
    BY DEF FinalizationIInv
  <2>2. ASSUME NEW q \in PlayedRoom, NEW u \in User PROVE <<q, u>> \in paid' <=> Due(q, u)'
    <3>1. CASE q = r
      <4>1. <<r, u>> \in paid' <=> u \in NewlyPaid(w)
        BY <1>1, <1>2, <1>3, <1>6, <2>1, <2>2 DEF PaidIsDue, Due
      <4>2. CASE u \in NewlyPaid(w)
        <5>1. u \in P /\ Xp[r][u] > 0
          BY <1>5, <4>2
        <5>2. Due(q, u)'
          BY <1>7, <3>1, <5>1 DEF Due
        <5>3. QED
          BY <3>1, <4>1, <4>2, <5>2
      <4>3. CASE u \notin NewlyPaid(w)
        <5>1. ~(u \in P /\ Xp[r][u] > 0)
          BY <1>5, <4>3
        <5>2. ~(Due(q, u)')
          BY <1>7, <3>1, <5>1 DEF Due
        <5>3. QED
          BY <3>1, <4>1, <4>3, <5>2
      <4>4. QED
        BY <4>2, <4>3
    <3>2. CASE q # r
      <4>1. <<q, u>> \in paid' <=> <<q, u>> \in paid
        BY <1>1, <1>6, <3>2
      <4>2. Due(q, u)' <=> Due(q, u)
        BY <1>7, <2>2, <3>2 DEF Due
      <4>3. QED
        BY <2>1, <2>2, <4>1, <4>2 DEF PaidIsDue
    <3>3. QED
      BY <3>1, <3>2
  <2>3. QED
    BY <2>2 DEF PaidIsDue
<1>10. PointsAreSums'
  <2>1. ASSUME NEW u \in User PROVE xpTotal'[u] = SumOver(Worth(u), Won(u)')
    <3>1. xpTotal[u] = SumOver(Worth(u), Won(u)) /\ xpTotal[u] \in Nat /\ Xp[r][u] \in Nat
      BY <1>2, <2>1 DEF FinalizationIInv, PointsAreSums, FinalizationTypeOK
    <3>2. CASE u \notin P
      <4>1. Won(u)' = Won(u)
        BY <1>3, <1>7, <3>2 DEF Won
      <4>2. xpTotal'[u] = xpTotal[u]
        BY <1>1, <1>5, <2>1, <3>2
      <4>3. QED
        BY <3>1, <4>1, <4>2
    <3>3. CASE u \in P
      <4>1. /\ r \in Won(u)' /\ Won(u)' \ {r} = Won(u) /\ Won(u)' \subseteq PlayedRoom
        BY <1>2, <1>3, <1>7, <3>3 DEF Won
      <4>2. PICK S : S = Won(u)'
        OBVIOUS
      <4>3. IsFiniteSet(S)
        BY <4>1, <4>2, FiniteAssumption, FS_Subset
      <4>4. PICK f \in [PlayedRoom -> Nat] : f = Worth(u)
        BY <1>2, <2>1 DEF Worth
      <4>5. SumOver(f, S) = f[r] + SumOver(f, S \ {r})
        BY <4>1, <4>2, <4>3, <4>4, SumRemoves
      <4>6. f[r] = Xp[r][u]
        BY <1>2, <4>4 DEF Worth
      <4>7. xpTotal'[u] = xpTotal[u] + Xp[r][u]
        <5>1. CASE u \in NewlyPaid(w)
          BY <1>1, <2>1, <5>1
        <5>2. CASE u \notin NewlyPaid(w)
          <6>1. Xp[r][u] = 0
            BY <1>5, <3>1, <3>3, <5>2
          <6>2. xpTotal'[u] = xpTotal[u]
            BY <1>1, <2>1, <5>2
          <6>3. QED
            BY <3>1, <6>1, <6>2
        <5>3. QED
          BY <5>1, <5>2
      <4>8. SumOver(f, S \ {r}) = xpTotal[u]
        BY <3>1, <4>1, <4>2, <4>4
      <4>9. QED
        BY <3>1, <4>2, <4>4, <4>5, <4>6, <4>7, <4>8
    <3>4. QED
      BY <3>2, <3>3
  <2>2. QED
    BY <2>1 DEF PointsAreSums, Worth
<1>11. ResultsNeedCompletion'
  BY <1>1, <1>3, <1>7 DEF FinalizationIInv, ResultsNeedCompletion
<1>12. ASSUME NEW v \in Worker \ {w} PROVE TxOK(v)'
  <2>1. TxOK(v) /\ tx'[v] = tx[v] /\ tx[v].room \in PlayedRoom
    BY <1>4, <1>12, FinalizationFacts DEF FinalizationIInv
  <2>2. resultLock[tx[v].room] = v => tx[v].room # r
    BY <1>3, <1>12
  <2>3. QED
    BY <1>1, <1>4, <1>7, <2>1, <2>2, TxStays
<1>13. TxOK(w)'
  BY <1>4, NoTxOK
<1>14. QED
  BY <1>8, <1>9, <1>10, <1>11, <1>12, <1>13 DEF FinalizationIInv

LEMMA FinalizationStart == FinalizationInit => FinalizationIInv
<1>1. SUFFICES ASSUME FinalizationInit PROVE FinalizationIInv
  OBVIOUS
<1>2. /\ completed = {} /\ paid = {} /\ participants = [r \in PlayedRoom |-> {}]
      /\ summary = [r \in PlayedRoom |-> Open] /\ xpTotal = [u \in User |-> 0]
      /\ tx = [w \in Worker |-> NoTx] /\ resultLock = [r \in PlayedRoom |-> Nobody]
      /\ userLock = [u \in User |-> Nobody] /\ todo = [w \in Worker |-> {}]
  BY <1>1 DEF FinalizationInit
<1>3. NoTx \in Tx /\ NoTx.pc = "idle" /\ NoTx.awards = {}
  <2>1. (CHOOSE r \in PlayedRoom : TRUE) \in PlayedRoom
    BY FiniteAssumption
  <2>2. QED
    BY <2>1 DEF NoTx, Tx
<1>4. FinalizationTypeOK
  BY <1>2, <1>3 DEF FinalizationTypeOK
<1>5. \A r \in PlayedRoom : summary[r] = Open
  BY <1>2
<1>6. PaidIsDue /\ ResultsNeedCompletion
  BY <1>2, <1>5 DEF PaidIsDue, Due, ResultsNeedCompletion
<1>7. PointsAreSums
  <2>1. ASSUME NEW u \in User PROVE xpTotal[u] = SumOver(Worth(u), Won(u))
    <3>1. Won(u) = {} /\ IsFiniteSet({}) /\ xpTotal[u] = 0
      BY <1>2, <1>5, FS_EmptySet DEF Won
    <3>2. SumOver(Worth(u), {}) = 0
      BY <3>1, SumFacts
    <3>3. QED
      BY <3>1, <3>2
  <2>2. QED
    BY <2>1 DEF PointsAreSums
<1>8. \A w \in Worker : TxOK(w)
  BY <1>2, <1>3 DEF TxOK
<1>9. QED
  BY <1>4, <1>6, <1>7, <1>8 DEF FinalizationIInv

\* What the room and the recovery do to the rooms that are waited for.
LEMMA RoomMoves ==
  ASSUME FinalizationIInv, UNCHANGED <<dbVars, tx, lockVars>>, completed \subseteq completed',
         completed' \subseteq PlayedRoom, participants' \in [PlayedRoom -> SUBSET User],
         todo' \in [Worker -> SUBSET PlayedRoom]
  PROVE  FinalizationIInv'
<1>1. FinalizationTypeOK'
  BY FinalizationFacts DEF FinalizationTypeOK, dbVars, lockVars
<1>2. ASSUME NEW w \in Worker PROVE TxOK(w)'
  <2>1. /\ TxOK(w) /\ tx'[w] = tx[w] /\ summary' = summary /\ resultLock' = resultLock
    BY <1>2 DEF FinalizationIInv, dbVars, lockVars
  <2>2. QED
    BY <2>1, TxStays
<1>3. QED
  BY <1>1, <1>2, ResultsStay DEF FinalizationIInv

LEMMA FinalizationStep == FinalizationIInv /\ [FinalizationNext]_finalizationVars => FinalizationIInv'
<1>1. SUFFICES ASSUME FinalizationIInv, [FinalizationNext]_finalizationVars PROVE FinalizationIInv'
  OBVIOUS
<1>2. FinalizationTypeOK
  BY <1>1, FinalizationFacts
<1>3. /\ completed \subseteq PlayedRoom /\ participants \in [PlayedRoom -> SUBSET User]
      /\ todo \in [Worker -> SUBSET PlayedRoom] /\ PendingRooms \subseteq PlayedRoom
  BY <1>2 DEF FinalizationTypeOK, PendingRooms
<1>4. ASSUME NEW r \in PlayedRoom, Complete(r) PROVE FinalizationIInv'
  BY <1>1, <1>3, <1>4, RoomMoves DEF Complete
<1>5. ASSUME NEW r \in PlayedRoom, NEW u \in User, AddParticipant(r, u) PROVE FinalizationIInv'
  <2>1. participants' \in [PlayedRoom -> SUBSET User]
    BY <1>3, <1>5 DEF AddParticipant
  <2>2. QED
    BY <1>1, <1>3, <1>5, <2>1, RoomMoves DEF AddParticipant
<1>6. ASSUME NEW w \in Worker, TxStep(w) PROVE FinalizationIInv'
  <2>1. CASE AlreadyFinal(w)
    BY <1>1, <1>3, <2>1, GivenUp DEF AlreadyFinal
  <2>2. QED
    BY <1>1, <1>6, <2>1, LockResultKeeps, ComputeSummaryKeeps, PayUserKeeps, CommitKeeps DEF TxStep
<1>7. ASSUME NEW w \in Worker, Abort(w) PROVE FinalizationIInv'
  <2>1. todo' \in [Worker -> SUBSET PlayedRoom]
    BY <1>3, <1>7 DEF Abort
  <2>2. QED
    BY <1>1, <1>7, <2>1, GivenUp DEF Abort
<1>8. ASSUME NEW w \in Worker, NEW r \in PlayedRoom, FinalizeRoom(w, r) PROVE FinalizationIInv'
  BY <1>1, <1>3, <1>8, BeginTxKeeps DEF FinalizeRoom
<1>9. ASSUME NEW w \in Worker, ListPending(w) PROVE FinalizationIInv'
  <2>1. todo' \in [Worker -> SUBSET PlayedRoom]
    BY <1>3, <1>9 DEF ListPending
  <2>2. QED
    BY <1>1, <1>3, <1>9, <2>1, RoomMoves DEF ListPending
<1>10. ASSUME NEW w \in Worker, RecoverNext(w) PROVE FinalizationIInv'
  <2>1. PICK r \in todo[w] : BeginTx(w, r) /\ todo' = [todo EXCEPT ![w] = @ \ {r}]
    BY <1>10 DEF RecoverNext
  <2>2. r \in PlayedRoom /\ todo' \in [Worker -> SUBSET PlayedRoom]
    BY <1>3, <2>1
  <2>3. QED
    BY <1>1, <2>1, <2>2, BeginTxKeeps
<1>11. CASE UNCHANGED finalizationVars
  BY <1>1, <1>3, <1>11, RoomMoves DEF finalizationVars, dbVars, lockVars
<1>12. QED
  BY <1>1, <1>4, <1>5, <1>6, <1>7, <1>8, <1>9, <1>10, <1>11, RecoveryAssumption
     DEF FinalizationNext

\* Results and points agree with the committed completions, for any number of
\* rooms, users and overlapping transactions, whatever a room is worth to a user
\* (saveCompletion and the XP award service).
THEOREM FinalizationInvariant == FinalizationSpec => []FinalizationInv
<1>1. FinalizationIInv => FinalizationInv
  BY PointsAreMatched DEF FinalizationIInv, FinalizationInv
<1>2. QED
  BY <1>1, FinalizationStart, FinalizationStep, PTL DEF FinalizationSpec

LEMMA ResultStep ==
  ASSUME FinalizationIInv, [FinalizationNext]_finalizationVars
  PROVE  /\ \A r \in PlayedRoom : summary[r] # Open => summary'[r] = summary[r]
         /\ paid \subseteq paid'
<1>1. ASSUME NEW w \in Worker, Commit(w)
      PROVE  /\ \A r \in PlayedRoom : summary[r] # Open => summary'[r] = summary[r]
             /\ paid \subseteq paid'
  <2>1. /\ tx[w].pc = "paying" /\ paid \subseteq paid'
        /\ summary' = [summary EXCEPT ![tx[w].room] = tx[w].players]
    BY <1>1 DEF Commit
  <2>2. summary[tx[w].room] = Open
    BY <2>1 DEF FinalizationIInv, TxOK
  <2>3. QED
    BY <2>1, <2>2, FinalizationFacts DEF FinalizationTypeOK
<1>2. CASE UNCHANGED dbVars
  BY <1>2 DEF dbVars
<1>3. (\E w \in Worker : Commit(w)) \/ UNCHANGED dbVars
  BY RecoveryAssumption
     DEF FinalizationNext, finalizationVars, dbVars, Complete, AddParticipant, TxStep, LockResult,
         AlreadyFinal, ComputeSummary, PayUser, Abort, FinalizeRoom, ListPending, RecoverNext, BeginTx
<1>4. QED
  BY <1>1, <1>2, <1>3

\* A result that is final stays as it is, and nobody's payment is taken back:
\* only a transaction that has found its own result open writes one.
THEOREM ResultsStayFinal == FinalizationSpec => ResultsAreFinal
<1>1. FinalizationIInv /\ [FinalizationNext]_finalizationVars
        => [/\ \A r \in PlayedRoom : summary[r] # Open => summary'[r] = summary[r]
            /\ paid \subseteq paid']_finalizationVars
  BY ResultStep
<1>2. QED
  BY <1>1, FinalizationStart, FinalizationStep, PTL DEF FinalizationSpec, ResultsAreFinal

-----------------------------------------------------------------------------
(***************************************************************************)
(* The sessions of players.  While the requests for a player follow each   *)
(* other, the cache, the room and the results agree with the session, and  *)
(* a session keeps having a user, for any number of requests, names and    *)
(* users.                                                                  *)
(***************************************************************************)
Route == {<<"join", "join">>, <<"profile", "profile">>, <<"profile", "tell">>,
          <<"open", "open">>, <<"open", "link">>, <<"sign in", "sign in">>,
          <<"sign in", "link">>}
Kind == {"join", "profile", "open", "sign in"}
Step == {"cache", "row", "fill", "save", "keep", "join", "sync", "profile", "tell",
         "enqueue", "account", "open", "sign in", "link", "adopt"}
ActiveRequest == [kind : Kind, name : Name, user : TgUser \cup {NoUser}, seen : Session,
                  step : Step, next : Step]
ParticipantOp == [kind : {"sync", "profile"}, name : Name, user : TgUser \cup {NoUser}]

\* Where a request can be on the way that its kind takes.
OnRoute(q) ==
  /\ <<q.kind, q.next>> \in Route
  /\ q.step \in {"cache", "row", "fill", q.next} \cup
       CASE q.next = "join" -> {"sync"}
         [] q.next = "profile" -> {"save", "keep"}
         [] q.next = "tell" -> {"enqueue", "account"}
         [] q.next = "link" -> {"save", "keep", "adopt"}
         [] OTHER -> {}
  /\ q.step = "adopt" => q.kind = "sign in"
  /\ q.kind \in {"open", "sign in"} => q.user \in TgUser

\* Every request is on its route; only the name and the user are left to choose.
RequestsOnRoute ==
  /\ IdentityTypeOK
  /\ \A r \in Request : requests[r] # NoRequest => requests[r] \in ActiveRequest /\ OnRoute(requests[r])
  /\ DOMAIN requests = Request
  /\ participantOps \in Seq(ParticipantOp)

Active(r) == requests[r] # NoRequest
At(r, steps) == Active(r) /\ requests[r].step \in steps

\* What follows has no overlap.
Alone == \A r, q \in Request : Active(r) /\ Active(q) => r = q

\* A request has the session as the row has it, and with its own change just
\* before it saves it; after the save the row has what was asked for.
SeesRow(q) ==
  /\ q.step # "save" => q.seen = sessionRow
  /\ q.step = "save" /\ q.next = "profile" =>
       q.seen.name = q.name /\ q.seen.user = sessionRow.user
  /\ q.step = "save" /\ q.next = "link" =>
       q.seen.name = sessionRow.name /\ q.seen.user = q.user
  /\ q.next = "tell" \/ (q.next = "profile" /\ q.step = "keep") => sessionRow.name = q.name
  /\ q.step = "adopt" \/ (q.next = "link" /\ q.step = "keep") => sessionRow.user = q.user
SeenIsRow == \A r \in Request : Active(r) => SeesRow(requests[r])

\* The room, and after it the results, are still to hear of a new name.
BehindRoom(q) == \/ q.next = "profile" /\ q.step = "keep"
                 \/ q.next = "tell" /\ q.step \notin {"enqueue", "account"}
RoomIsBehind == \E r \in Request : Active(r) /\ BehindRoom(requests[r])
OpsAreBehind == RoomIsBehind \/ \E r \in Request : At(r, {"sync", "enqueue"})

\* Outside of the room and until the player is entered there is nothing to copy to.
NoCopyYet ==
  /\ roomPlayer = NoSession => participant = NoSession /\ participantOps = <<>>
  /\ \A r \in Request :
       /\ At(r, {"sync"}) => participant = NoSession /\ participantOps = <<>>
       /\ At(r, {"sync", "enqueue"}) => roomPlayer # NoSession
       /\ Active(r) /\ requests[r].next = "join" /\ requests[r].step # "sync" =>
            roomPlayer = NoSession

\* The copies have the name, or the last operation of the results brings it.
LastIsName ==
  IF participantOps = <<>> THEN participant.name = sessionRow.name
  ELSE participantOps[Len(participantOps)].name = sessionRow.name
RoomHasName == RoomIsBehind \/ roomPlayer \in {NoSession, sessionRow.name}
ResultsGetName == roomPlayer # NoSession /\ ~OpsAreBehind => LastIsName
SyncComesFirst ==
  participant = NoSession /\ participantOps # <<>> => participantOps[1].kind = "sync"
ResultsHaveRow ==
  roomPlayer # NoSession /\ (\A r \in Request : ~At(r, {"sync"})) =>
    participant # NoSession \/ participantOps # <<>>
ResultsHaveUser ==
  ~changedHands =>
    /\ participant = NoSession \/ participant.user \in {NoUser, sessionRow.user}
    /\ \A i \in DOMAIN participantOps : participantOps[i].user \in {NoUser, sessionRow.user}

\* The account that the session had when it was renamed is still to be told, or
\* has the name.
BehindAccount(q) == q.next = "tell" \/ (q.next = "profile" /\ q.step = "keep")
AccountHasName == named # NoUser => account[named] = sessionRow.name
AccountGetsName ==
  /\ \A r \in Request : Active(r) /\ BehindAccount(requests[r]) => requests[r].user = named
  /\ (\A r \in Request : Active(r) => ~BehindAccount(requests[r])) => AccountHasName

\* What holds as long as no save was torn, and what holds as long as nothing was
\* left half done.
UntornInv == Alone /\ SeenIsRow /\ CacheFollowsRow
UndisturbedInv ==
  /\ UntornInv
  /\ NoCopyYet /\ RoomHasName /\ ResultsGetName /\ SyncComesFirst /\ ResultsHaveRow
  /\ ResultsHaveUser /\ AccountGetsName

\* The inductive invariant.
IdentityIInv == /\ RequestsOnRoute
                /\ torn => disturbed
                /\ ~torn => UntornInv
                /\ ~disturbed => UndisturbedInv

-----------------------------------------------------------------------------
(***************************************************************************)
(* The request under way, while there is no other.                         *)
(***************************************************************************)
\* What the invariant says when q is the only request.
AlongRow(q) ==
  /\ SeesRow(q)
  /\ q.step # "keep" => sessionCache \in {NoSession, sessionRow}
Along(q) ==
  /\ AlongRow(q)
  /\ IF BehindAccount(q) THEN q.user = named ELSE AccountHasName
  /\ roomPlayer = NoSession => participant = NoSession /\ participantOps = <<>>
  /\ q.step = "sync" => participant = NoSession /\ participantOps = <<>>
  /\ q.step \in {"sync", "enqueue"} => roomPlayer # NoSession
  /\ q.next = "join" /\ q.step # "sync" => roomPlayer = NoSession
  /\ BehindRoom(q) \/ roomPlayer \in {NoSession, sessionRow.name}
  /\ roomPlayer # NoSession /\ ~BehindRoom(q) /\ q.step \notin {"sync", "enqueue"} => LastIsName
  /\ SyncComesFirst
  /\ roomPlayer # NoSession /\ q.step # "sync" => participant # NoSession \/ participantOps # <<>>
  /\ ResultsHaveUser

\* What it says when there is none.
Resting ==
  /\ sessionCache \in {NoSession, sessionRow}
  /\ AccountHasName
  /\ roomPlayer = NoSession => participant = NoSession /\ participantOps = <<>>
  /\ roomPlayer \in {NoSession, sessionRow.name}
  /\ roomPlayer # NoSession => LastIsName
  /\ SyncComesFirst
  /\ roomPlayer # NoSession => participant # NoSession \/ participantOps # <<>>
  /\ ResultsHaveUser

LEMMA Untorn ==
  ASSUME UntornInv, ~torn, NEW r \in Request, Active(r)
  PROVE  /\ \A o \in Request \ {r} : requests[o] = NoRequest
         /\ AlongRow(requests[r])
<1>1. \A o \in Request \ {r} : requests[o] = NoRequest
  BY DEF UntornInv, Alone, Active
<1>2. SeesRow(requests[r])
  BY DEF UntornInv, SeenIsRow
<1>3. requests[r].step # "keep" => sessionCache \in {NoSession, sessionRow}
  BY <1>1, ~torn DEF UntornInv, CacheFollowsRow, AtStep, Active
<1>4. QED
  BY <1>1, <1>2, <1>3 DEF AlongRow

LEMMA StaysUntorn ==
  ASSUME NEW r \in Request, Active(r)', AlongRow(requests[r])',
         \A o \in Request \ {r} : requests'[o] = NoRequest
  PROVE  UntornInv'
BY DEF UntornInv, Alone, SeenIsRow, CacheFollowsRow, AtStep, Active, AlongRow

LEMMA EndsUntorn ==
  ASSUME sessionCache' \in {NoSession, sessionRow'}, \A o \in Request : requests'[o] = NoRequest
  PROVE  UntornInv'
BY DEF UntornInv, Alone, SeenIsRow, CacheFollowsRow, Active

LEMMA Undisturbed ==
  ASSUME UndisturbedInv, ~disturbed, ~torn, NEW r \in Request, Active(r)
  PROVE  /\ \A o \in Request \ {r} : requests[o] = NoRequest
         /\ Along(requests[r])
<1>1. (\A o \in Request \ {r} : requests[o] = NoRequest) /\ AlongRow(requests[r])
  BY Untorn DEF UndisturbedInv
<1>2. RoomIsBehind <=> BehindRoom(requests[r])
  BY <1>1 DEF RoomIsBehind, Active
<1>3. OpsAreBehind <=> BehindRoom(requests[r]) \/ requests[r].step \in {"sync", "enqueue"}
  BY <1>1, <1>2 DEF OpsAreBehind, At, Active
<1>4. IF BehindAccount(requests[r]) THEN requests[r].user = named ELSE AccountHasName
  BY <1>1 DEF UndisturbedInv, AccountGetsName, Active
<1>5. /\ roomPlayer = NoSession => participant = NoSession /\ participantOps = <<>>
      /\ requests[r].step = "sync" => participant = NoSession /\ participantOps = <<>>
      /\ requests[r].step \in {"sync", "enqueue"} => roomPlayer # NoSession
      /\ requests[r].next = "join" /\ requests[r].step # "sync" => roomPlayer = NoSession
  BY DEF UndisturbedInv, NoCopyYet, At
<1>6. roomPlayer # NoSession /\ requests[r].step # "sync" =>
        participant # NoSession \/ participantOps # <<>>
  BY <1>1 DEF UndisturbedInv, ResultsHaveRow, At, Active
<1>7. QED
  BY <1>1, <1>2, <1>3, <1>4, <1>5, <1>6
     DEF UndisturbedInv, Along, RoomHasName, ResultsGetName

LEMMA Rested ==
  ASSUME UndisturbedInv, ~disturbed, ~torn, \A o \in Request : requests[o] = NoRequest
  PROVE  Resting
BY DEF UndisturbedInv, UntornInv, Resting, CacheFollowsRow, AtStep, NoCopyYet, RoomHasName,
       RoomIsBehind, OpsAreBehind, ResultsGetName, ResultsHaveRow, AccountGetsName, At, Active

LEMMA StaysUndisturbed ==
  ASSUME NEW r \in Request, Active(r)', Along(requests[r])',
         \A o \in Request \ {r} : requests'[o] = NoRequest
  PROVE  UndisturbedInv'
<1>1. RoomIsBehind' <=> BehindRoom(requests[r])'
  BY DEF RoomIsBehind, Active
<1>2. OpsAreBehind' <=> BehindRoom(requests[r])' \/ requests'[r].step \in {"sync", "enqueue"}
  BY <1>1 DEF OpsAreBehind, At, Active
<1>3. (UntornInv /\ AccountGetsName)'
  BY StaysUntorn DEF Along, AccountGetsName, AccountHasName, BehindAccount, Active
<1>4. (NoCopyYet /\ ResultsHaveRow)'
  BY DEF NoCopyYet, ResultsHaveRow, At, Active, Along
<1>5. QED
  BY <1>1, <1>2, <1>3, <1>4 DEF UndisturbedInv, Along, RoomHasName, ResultsGetName

LEMMA ComesToRest ==
  ASSUME Resting', \A o \in Request : requests'[o] = NoRequest
  PROVE  UndisturbedInv'
<1>1. ~RoomIsBehind' /\ ~OpsAreBehind'
  BY DEF RoomIsBehind, OpsAreBehind, At, Active
<1>2. (UntornInv /\ AccountGetsName)'
  BY EndsUntorn DEF Resting, AccountGetsName, AccountHasName, Active
<1>3. QED
  BY <1>1, <1>2 DEF UndisturbedInv, NoCopyYet, RoomHasName, ResultsGetName, ResultsHaveRow, At,
                    Active, Resting

-----------------------------------------------------------------------------
(***************************************************************************)
(* The frames of the actions of a request.                                 *)
(***************************************************************************)
LEMMA ActiveIsActive == \A q \in ActiveRequest : q # NoRequest
<1> SUFFICES ASSUME NEW q \in ActiveRequest PROVE q # NoRequest
  OBVIOUS
<1>1. q.step \in Step
  BY DEF ActiveRequest
<1>2. NoRequest.step = "idle"
  BY DEF NoRequest
<1>3. QED
  BY <1>1, <1>2 DEF Step

StoresOK ==
  /\ sessionRow \in Session /\ sessionCache \in Session \cup {NoSession}
  /\ roomPlayer \in Name \cup {NoSession} /\ participant \in Session \cup {NoSession}
  /\ account \in [TgUser -> Name \cup {NoSession}]
  /\ named \in TgUser \cup {NoUser} /\ torn \in BOOLEAN
  /\ disturbed \in BOOLEAN /\ changedHands \in BOOLEAN
  /\ participantOps \in Seq(ParticipantOp)

\* Only request r moves.
Moves(r) == /\ DOMAIN requests' = Request
            /\ \A o \in Request \ {r} : requests'[o] = requests[o]

LEMMA RequestGoesOn ==
  ASSUME IdentityIInv, NEW r \in Request, Active(r), Moves(r),
         requests'[r] \in ActiveRequest, OnRoute(requests[r])',
         StoresOK', disturbed' = disturbed, torn' = torn,
         ~torn /\ AlongRow(requests[r]) => AlongRow(requests[r])',
         ~disturbed /\ Along(requests[r]) => Along(requests[r])'
  PROVE  IdentityIInv'
<1>1. RequestsOnRoute'
  <2>1. \A o \in Request : requests'[o] # NoRequest =>
          requests'[o] \in ActiveRequest /\ OnRoute(requests[o])'
    BY DEF IdentityIInv, RequestsOnRoute, Moves, OnRoute
  <2>2. \A o \in Request : requests'[o] = NoRequest \/ requests'[o].seen \in Session
    BY <2>1 DEF ActiveRequest
  <2>3. QED
    BY <2>1, <2>2 DEF RequestsOnRoute, IdentityTypeOK, StoresOK, Moves
<1>2. ASSUME ~disturbed' PROVE UndisturbedInv'
  <2>1. Along(requests[r]) /\ \A o \in Request \ {r} : requests[o] = NoRequest
    BY <1>2, Undisturbed DEF IdentityIInv
  <2>2. Active(r)'
    BY ActiveIsActive DEF Active
  <2>3. QED
    BY <1>2, <2>1, <2>2, StaysUndisturbed DEF Moves
<1>3. ASSUME ~torn' PROVE UntornInv'
  <2>1. AlongRow(requests[r]) /\ \A o \in Request \ {r} : requests[o] = NoRequest
    BY <1>3, Untorn DEF IdentityIInv
  <2>2. Active(r)'
    BY ActiveIsActive DEF Active
  <2>3. QED
    BY <1>3, <2>1, <2>2, StaysUntorn DEF Moves
<1>4. QED
  BY <1>1, <1>2, <1>3 DEF IdentityIInv

LEMMA IsDone ==
  ASSUME IdentityIInv, NEW r \in Request, Active(r), Moves(r), requests'[r] = NoRequest,
         StoresOK', ~disturbed' => ~disturbed, ~torn' => ~torn, torn' => torn \/ disturbed',
         ~torn' /\ AlongRow(requests[r]) => sessionCache' \in {NoSession, sessionRow'},
         ~disturbed' /\ Along(requests[r]) => Resting'
  PROVE  IdentityIInv'
<1>1. RequestsOnRoute'
  <2>1. \A o \in Request : requests'[o] # NoRequest =>
          requests'[o] \in ActiveRequest /\ OnRoute(requests[o])'
    BY DEF IdentityIInv, RequestsOnRoute, Moves, OnRoute
  <2>2. \A o \in Request : requests'[o] = NoRequest \/ requests'[o].seen \in Session
    BY <2>1 DEF ActiveRequest
  <2>3. QED
    BY <2>1, <2>2 DEF RequestsOnRoute, IdentityTypeOK, StoresOK, Moves
<1>2. ASSUME ~disturbed' PROVE UndisturbedInv'
  <2>1. Along(requests[r]) /\ \A o \in Request \ {r} : requests[o] = NoRequest
    BY <1>2, Undisturbed DEF IdentityIInv
  <2>2. QED
    BY <1>2, <2>1, ComesToRest DEF Moves
<1>3. ASSUME ~torn' PROVE UntornInv'
  <2>1. AlongRow(requests[r]) /\ \A o \in Request \ {r} : requests[o] = NoRequest
    BY <1>3, Untorn DEF IdentityIInv
  <2>2. QED
    BY <1>3, <2>1, EndsUntorn DEF Moves
<1>4. QED
  BY <1>1, <1>2, <1>3 DEF IdentityIInv

-----------------------------------------------------------------------------
(* Requests that begin, look up and fail *)

LEMMA Facts ==
  ASSUME IdentityIInv
  PROVE  /\ StoresOK /\ DOMAIN requests = Request
         /\ \A r \in Request : Active(r) =>
              requests[r] \in ActiveRequest /\ OnRoute(requests[r])
BY DEF IdentityIInv, RequestsOnRoute, IdentityTypeOK, StoresOK, Active

LEMMA StepIsActive ==
  \A r \in Request : \A step : AtStep(r, step) => Active(r) /\ requests[r].step = step
BY DEF AtStep, Active

LEMMA BeginKeeps ==
  ASSUME IdentityIInv, NEW r \in Request,
         NEW name \in Name, NEW user \in TgUser \cup {NoUser}, NEW kind \in Kind,
         kind \in {"open", "sign in"} => user \in TgUser,
         Begin(r, kind, name, user)
  PROVE  IdentityIInv'
<1> DEFINE q == [kind |-> kind, name |-> name, user |-> user, seen |-> sessionRow,
                 step |-> "cache", next |-> kind]
<1>1. /\ requests[r] = NoRequest /\ (kind = "join" => roomPlayer = NoSession)
      /\ requests' = [requests EXCEPT ![r] = q]
      /\ disturbed' = (disturbed \/ (\E o \in Request : requests[o] # NoRequest))
      /\ torn' = (torn \/ (\E o \in Request : requests[o] # NoRequest))
      /\ UNCHANGED <<sessionRow, sessionCache, named, changedHands, roomPlayer, participant,
                     participantOps, account>>
  BY DEF Begin, copiesUnchanged
<1>2. StoresOK /\ DOMAIN requests = Request
  BY Facts
<1>3. /\ q \in ActiveRequest /\ OnRoute(q)
  BY <1>2 DEF StoresOK, ActiveRequest, Kind, Step, OnRoute, Route
<1>4. /\ q.kind = kind /\ q.seen = sessionRow /\ q.step = "cache" /\ q.next = kind
  OBVIOUS
<1> HIDE DEF q
<1>5. requests'[r] = q /\ DOMAIN requests' = Request
      /\ \A o \in Request \ {r} : requests'[o] = requests[o]
  BY <1>1, <1>2
<1>6. StoresOK'
  BY <1>1, <1>2 DEF StoresOK
<1>7. RequestsOnRoute'
  <2>1. \A o \in Request : requests'[o] # NoRequest =>
          requests'[o] \in ActiveRequest /\ OnRoute(requests[o])'
    BY <1>3, <1>5 DEF IdentityIInv, RequestsOnRoute, OnRoute
  <2>2. \A o \in Request : requests'[o] = NoRequest \/ requests'[o].seen \in Session
    BY <2>1 DEF ActiveRequest
  <2>3. QED
    BY <1>5, <1>6, <2>1, <2>2 DEF RequestsOnRoute, IdentityTypeOK, StoresOK
<1>8. ASSUME ~disturbed' PROVE UndisturbedInv'
  <2>1. ~disturbed /\ \A o \in Request : requests[o] = NoRequest
    BY <1>1, <1>2, <1>8 DEF StoresOK
  <2>2. Resting
    BY <2>1, Rested DEF IdentityIInv
  <2>3. Along(requests[r])'
    BY <1>1, <1>4, <1>5, <2>2
       DEF Along, AlongRow, Resting, SeesRow, BehindRoom, BehindAccount, AccountHasName,
           LastIsName, SyncComesFirst, ResultsHaveUser, Kind
  <2>4. Active(r)'
    BY <1>3, <1>5, ActiveIsActive DEF Active
  <2>5. QED
    BY <1>5, <2>1, <2>3, <2>4, StaysUndisturbed
<1>9. ASSUME ~torn' PROVE UntornInv'
  <2>1. ~torn /\ \A o \in Request : requests[o] = NoRequest
    BY <1>1, <1>2, <1>9 DEF StoresOK
  <2>2. sessionCache \in {NoSession, sessionRow}
    BY <2>1 DEF IdentityIInv, UntornInv, CacheFollowsRow, AtStep
  <2>3. AlongRow(requests[r])'
    BY <1>1, <1>4, <1>5, <2>2 DEF AlongRow, SeesRow, Kind
  <2>4. Active(r)'
    BY <1>3, <1>5, ActiveIsActive DEF Active
  <2>5. QED
    BY <1>5, <2>1, <2>3, <2>4, StaysUntorn
<1>10. torn' => disturbed'
  BY <1>1, <1>2 DEF IdentityIInv, StoresOK
<1>11. QED
  BY <1>7, <1>8, <1>9, <1>10 DEF IdentityIInv

\* Only the request moves: all it has to keep is on its route and with its row.
LEMMA OnlyRequestMoves ==
  ASSUME IdentityIInv, NEW r \in Request, Active(r), Moves(r), onlyRequests,
         requests'[r] \in ActiveRequest, OnRoute(requests[r])',
         requests'[r].step \notin {"keep", "sync", "enqueue"},
         requests[r].step \notin {"keep", "sync", "enqueue", "account", "adopt"},
         (requests'[r].next = "join") <=> (requests[r].next = "join"),
         (requests'[r].next = "tell") <=> (requests[r].next = "tell"),
         requests'[r].step \notin {"account", "adopt"},
         requests[r].next = "tell" => requests'[r].user = requests[r].user,
         ~torn /\ AlongRow(requests[r]) => SeesRow(requests[r])'
  PROVE  IdentityIInv'
<1>1. UNCHANGED <<sessionRow, sessionCache, named, torn, disturbed, changedHands, roomPlayer, participant,
                  participantOps, account>>
  BY DEF onlyRequests, history, copiesUnchanged
<1>2. StoresOK'
  BY <1>1, Facts DEF StoresOK
<1>row. ASSUME ~torn, AlongRow(requests[r]) PROVE AlongRow(requests[r])'
  BY <1>1, <1>row DEF AlongRow
<1>3. ASSUME ~disturbed, Along(requests[r]) PROVE Along(requests[r])'
  <2>1. AlongRow(requests[r])'
    BY <1>3, <1>row DEF Along, IdentityIInv
  <2>2. QED
    BY <1>1, <1>3, <2>1
       DEF Along, BehindRoom, BehindAccount, AccountHasName, LastIsName, SyncComesFirst,
           ResultsHaveUser
<1>4. QED
  BY <1>1, <1>2, <1>row, <1>3, RequestGoesOn

LEMMA ReadCacheKeeps ==
  ASSUME IdentityIInv, NEW r \in Request, ReadCache(r) PROVE IdentityIInv'
<1> DEFINE p == requests[r]
           q == IF sessionCache = NoSession THEN [p EXCEPT !.step = "row"]
                ELSE [p EXCEPT !.seen = sessionCache, !.step = p.next]
<1>1. /\ Active(r) /\ p.step = "cache" /\ onlyRequests /\ StoresOK /\ DOMAIN requests = Request
      /\ p \in ActiveRequest /\ OnRoute(p)
  BY Facts, StepIsActive DEF ReadCache
<1>2. requests' = [requests EXCEPT ![r] = q]
  BY <1>1 DEF ReadCache
<1>3. Moves(r) /\ requests'[r] = q
  BY <1>1, <1>2 DEF Moves
<1>4. /\ q \in ActiveRequest /\ q.kind = p.kind /\ q.next = p.next /\ q.name = p.name
      /\ q.user = p.user
      /\ \/ q.step = "row" /\ q.seen = p.seen
         \/ q.step = p.next /\ q.seen = sessionCache /\ sessionCache # NoSession
  BY <1>1 DEF ActiveRequest, StoresOK, Step
<1> HIDE DEF p, q
<1>5. p.next \in {"join", "profile", "tell", "open", "sign in", "link"}
  BY <1>1 DEF OnRoute, Route
<1>6. OnRoute(q)
  BY <1>1, <1>4, <1>5 DEF OnRoute
<1>7. ~torn /\ AlongRow(p) => SeesRow(requests[r])'
  BY <1>1, <1>3, <1>4, <1>5 DEF AlongRow, SeesRow, onlyRequests, history
<1>8. OnRoute(requests[r])'
  BY <1>3, <1>6 DEF OnRoute
<1>9. QED
  BY <1>1, <1>3, <1>4, <1>5, <1>7, <1>8, OnlyRequestMoves DEF p

LEMMA ReadRowKeeps ==
  ASSUME IdentityIInv, NEW r \in Request, ReadRow(r) PROVE IdentityIInv'
<1> DEFINE p == requests[r]
           q == [p EXCEPT !.seen = sessionRow, !.step = "fill"]
<1>1. /\ Active(r) /\ p.step = "row" /\ onlyRequests /\ StoresOK /\ DOMAIN requests = Request
      /\ p \in ActiveRequest /\ OnRoute(p)
  BY Facts, StepIsActive DEF ReadRow
<1>2. Moves(r) /\ requests'[r] = q
  BY <1>1 DEF Moves, ReadRow
<1>3. /\ q \in ActiveRequest /\ q.kind = p.kind /\ q.next = p.next /\ q.name = p.name
      /\ q.user = p.user /\ q.step = "fill" /\ q.seen = sessionRow
  BY <1>1 DEF ActiveRequest, StoresOK, Step
<1> HIDE DEF p, q
<1>4. OnRoute(requests[r])'
  BY <1>1, <1>2, <1>3 DEF OnRoute
<1>5. ~torn /\ AlongRow(p) => SeesRow(requests[r])'
  BY <1>1, <1>2, <1>3 DEF AlongRow, SeesRow, onlyRequests, history
<1>6. QED
  BY <1>1, <1>2, <1>3, <1>4, <1>5, OnlyRequestMoves DEF p

LEMMA FillCacheKeeps ==
  ASSUME IdentityIInv, NEW r \in Request, FillCache(r) PROVE IdentityIInv'
<1> DEFINE p == requests[r]
           q == [p EXCEPT !.step = p.next]
<1>1. /\ Active(r) /\ p.step = "fill" /\ StoresOK /\ DOMAIN requests = Request
      /\ p \in ActiveRequest /\ OnRoute(p) /\ sessionCache' = p.seen
      /\ UNCHANGED <<sessionRow, named, torn, disturbed, changedHands, roomPlayer, participant,
                     participantOps, account>>
  BY Facts, StepIsActive DEF FillCache, history, copiesUnchanged
<1>2. Moves(r) /\ requests'[r] = q
  BY <1>1 DEF Moves, FillCache, Goes
<1>3. /\ q \in ActiveRequest /\ q.kind = p.kind /\ q.next = p.next /\ q.name = p.name
      /\ q.user = p.user /\ q.step = p.next /\ q.seen = p.seen /\ p.seen \in Session
  BY <1>1 DEF ActiveRequest
<1> HIDE DEF p, q
<1>4. p.next \in {"join", "profile", "tell", "open", "sign in", "link"}
  BY <1>1 DEF OnRoute, Route
<1>5. OnRoute(requests[r])'
  BY <1>1, <1>2, <1>3, <1>4 DEF OnRoute
<1>6. StoresOK'
  BY <1>1, <1>3 DEF StoresOK
<1>row. ASSUME ~torn, AlongRow(p) PROVE AlongRow(requests[r])'
  BY <1>1, <1>2, <1>3, <1>4, <1>5, <1>6, <1>row DEF AlongRow, SeesRow
<1>7. ASSUME ~disturbed, Along(p) PROVE Along(requests[r])'
  BY <1>1, <1>2, <1>3, <1>4, <1>7
     DEF Along, AlongRow, SeesRow, BehindRoom, BehindAccount, AccountHasName, LastIsName,
           SyncComesFirst, ResultsHaveUser
<1>8. QED
  BY <1>1, <1>2, <1>3, <1>5, <1>6, <1>7, <1>row, RequestGoesOn DEF p

LEMMA SaveRowKeeps ==
  ASSUME IdentityIInv, NEW r \in Request, SaveRow(r) PROVE IdentityIInv'
<1> DEFINE p == requests[r]
           q == [p EXCEPT !.step = "keep"]
<1>1. /\ Active(r) /\ p.step = "save" /\ StoresOK /\ DOMAIN requests = Request
      /\ p \in ActiveRequest /\ OnRoute(p) /\ sessionRow' = p.seen
      /\ changedHands' = (changedHands \/ sessionRow.user \notin {NoUser, p.seen.user})
      /\ named' = IF p.kind = "profile" THEN p.user ELSE named
      /\ UNCHANGED <<sessionCache, torn, disturbed, roomPlayer, participant, participantOps,
                     account>>
  BY Facts, StepIsActive DEF SaveRow, history, copiesUnchanged
<1>2. Moves(r) /\ requests'[r] = q
  BY <1>1 DEF Moves, SaveRow, Goes
<1>3. /\ q \in ActiveRequest /\ q.kind = p.kind /\ q.next = p.next /\ q.name = p.name
      /\ q.user = p.user /\ q.step = "keep" /\ q.seen = p.seen /\ p.seen \in Session
  BY <1>1 DEF ActiveRequest, Step
<1> HIDE DEF p, q
<1>4. /\ p.next \in {"profile", "link"} /\ (p.kind = "profile" <=> p.next = "profile")
      /\ p.user \in TgUser \cup {NoUser}
  BY <1>1 DEF OnRoute, Route, ActiveRequest
<1>5. OnRoute(requests[r])'
  BY <1>1, <1>2, <1>3, <1>4 DEF OnRoute
<1>6. StoresOK'
  BY <1>1, <1>3, <1>4 DEF StoresOK
<1>row. ASSUME ~torn, AlongRow(p) PROVE AlongRow(requests[r])'
  BY <1>1, <1>2, <1>3, <1>4, <1>row DEF AlongRow, SeesRow
<1>7. ASSUME ~disturbed, Along(p) PROVE Along(requests[r])'
  <2>1. (AlongRow(requests[r]) /\ SyncComesFirst)'
    BY <1>1, <1>2, <1>3, <1>4, <1>7 DEF Along, AlongRow, SeesRow, SyncComesFirst
  <2>2. p.next = "link" => sessionRow'.name = sessionRow.name
    BY <1>1, <1>7 DEF Along, AlongRow, SeesRow
  <2>3. BehindRoom(requests[r])' <=> p.next = "profile"
    BY <1>2, <1>3, <1>4 DEF BehindRoom
  <2>4. ~BehindRoom(p)
    BY <1>1, <1>4 DEF BehindRoom
  <2>5. LastIsName /\ p.next = "link" => LastIsName'
    BY <1>1, <2>2 DEF LastIsName
  <2>6. ResultsHaveUser'
    <3>1. CASE changedHands'
      BY <3>1 DEF ResultsHaveUser
    <3>2. CASE ~changedHands'
      BY <1>1, <1>7, <3>2 DEF Along, ResultsHaveUser, StoresOK
    <3>3. QED
      BY <3>1, <3>2
  <2>7. /\ BehindAccount(requests[r])' => requests'[r].user = named'
        /\ ~BehindAccount(requests[r])' => AccountHasName'
    BY <1>1, <1>2, <1>3, <1>4, <1>7, <2>2 DEF Along, BehindAccount, AccountHasName
  <2>8. QED
    BY <1>1, <1>2, <1>3, <1>4, <1>7, <2>1, <2>2, <2>3, <2>4, <2>5, <2>6, <2>7 DEF Along
<1>8. QED
  BY <1>1, <1>2, <1>3, <1>5, <1>6, <1>7, <1>row, RequestGoesOn DEF p

LEMMA KeepInCacheKeeps ==
  ASSUME IdentityIInv, NEW r \in Request, KeepInCache(r) PROVE IdentityIInv'
<1> DEFINE p == requests[r]
<1>1. /\ Active(r) /\ p.step = "keep" /\ StoresOK /\ DOMAIN requests = Request
      /\ p \in ActiveRequest /\ OnRoute(p) /\ sessionCache' = p.seen
      /\ requests' = [requests EXCEPT ![r] = AfterSave(r)]
      /\ UNCHANGED <<sessionRow, named, torn, disturbed, changedHands, roomPlayer, participant,
                     participantOps, account>>
  BY Facts, StepIsActive DEF KeepInCache, history, SavedToCache, copiesUnchanged
<1>2. Moves(r) /\ requests'[r] = AfterSave(r)
  BY <1>1 DEF Moves
<1>3. p.seen \in Session /\ p.kind \in Kind
  BY <1>1 DEF ActiveRequest
<1>4. StoresOK'
  BY <1>1, <1>3 DEF StoresOK
<1>5. CASE p.kind = "profile"
  <2> DEFINE q == [p EXCEPT !.step = "cache", !.next = "tell"]
  <2>1. requests'[r] = q
    BY <1>2, <1>5 DEF AfterSave
  <2>2. /\ q \in ActiveRequest /\ q.kind = p.kind /\ q.next = "tell" /\ q.name = p.name
        /\ q.user = p.user /\ q.step = "cache" /\ q.seen = p.seen
    BY <1>1 DEF ActiveRequest, Step
  <2> HIDE DEF p, q
  <2>3. p.next = "profile"
    BY <1>1, <1>5 DEF OnRoute, Route
  <2>4. OnRoute(requests[r])'
    BY <1>1, <1>5, <2>1, <2>2 DEF OnRoute, Route
  <2>row. ASSUME ~torn, AlongRow(p) PROVE AlongRow(requests[r])'
    BY <1>1, <2>1, <2>2, <2>3, <2>row DEF AlongRow, SeesRow
  <2>5. ASSUME ~disturbed, Along(p) PROVE Along(requests[r])'
    BY <1>1, <2>1, <2>2, <2>3, <2>5
       DEF Along, AlongRow, SeesRow, BehindRoom, BehindAccount, AccountHasName, LastIsName,
           SyncComesFirst, ResultsHaveUser
  <2>6. QED
    BY <1>1, <1>2, <1>4, <2>1, <2>2, <2>4, <2>5, <2>row, RequestGoesOn DEF p
<1>6. CASE p.kind = "sign in"
  <2> DEFINE q == [p EXCEPT !.step = "adopt"]
  <2>1. requests'[r] = q
    BY <1>2, <1>6 DEF AfterSave
  <2>2. /\ q \in ActiveRequest /\ q.kind = p.kind /\ q.next = p.next /\ q.name = p.name
        /\ q.user = p.user /\ q.step = "adopt" /\ q.seen = p.seen
    BY <1>1 DEF ActiveRequest, Step
  <2> HIDE DEF p, q
  <2>3. p.next = "link"
    BY <1>1, <1>6 DEF OnRoute, Route
  <2>4. OnRoute(requests[r])'
    BY <1>1, <1>6, <2>1, <2>2, <2>3 DEF OnRoute, Route
  <2>row. ASSUME ~torn, AlongRow(p) PROVE AlongRow(requests[r])'
    BY <1>1, <2>1, <2>2, <2>3, <2>row DEF AlongRow, SeesRow
  <2>5. ASSUME ~disturbed, Along(p) PROVE Along(requests[r])'
    BY <1>1, <2>1, <2>2, <2>3, <2>5
       DEF Along, AlongRow, SeesRow, BehindRoom, BehindAccount, AccountHasName, LastIsName,
           SyncComesFirst, ResultsHaveUser
  <2>6. QED
    BY <1>1, <1>2, <1>4, <2>1, <2>2, <2>4, <2>5, <2>row, RequestGoesOn DEF p
<1>7. CASE p.kind \notin {"profile", "sign in"}
  <2>1. requests'[r] = NoRequest
    BY <1>2, <1>7 DEF AfterSave
  <2> HIDE DEF p
  <2>2. p.next = "link"
    BY <1>1, <1>7 DEF OnRoute, Route
  <2>row. ASSUME ~torn', AlongRow(p) PROVE sessionCache' \in {NoSession, sessionRow'}
    BY <1>1, <2>2, <2>row DEF AlongRow, SeesRow
  <2>3. ASSUME ~disturbed', Along(p) PROVE Resting'
    BY <1>1, <2>2, <2>3
       DEF Along, AlongRow, Resting, SeesRow, BehindRoom, BehindAccount, AccountHasName,
           LastIsName, SyncComesFirst, ResultsHaveUser
  <2>4. QED
    BY <1>1, <1>2, <1>4, <2>1, <2>3, <2>row, IsDone DEF p
<1>8. QED
  BY <1>5, <1>6, <1>7

\* No request moves and the row stays; the cache may be emptied.
LEMMA RowRests ==
  ASSUME IdentityIInv, UNCHANGED <<sessionRow, requests, torn>>,
         sessionCache' \in {NoSession, sessionCache}, ~torn'
  PROVE  UntornInv'
BY DEF IdentityIInv, UntornInv, Alone, SeenIsRow, SeesRow, CacheFollowsRow, AtStep, Active

LEMMA CacheExpiresKeeps == ASSUME IdentityIInv, CacheExpires PROVE IdentityIInv'
<1>1. /\ sessionCache' = NoSession
      /\ UNCHANGED <<sessionRow, requests, starts, named, torn, disturbed, changedHands, roomPlayer,
                     participant, participantOps, account>>
  BY DEF CacheExpires, history, copiesUnchanged
<1>2. RequestsOnRoute'
  BY <1>1 DEF IdentityIInv, RequestsOnRoute, IdentityTypeOK
<1>3. ~torn' => UntornInv'
  BY <1>1, RowRests
<1>4. ~disturbed' => UndisturbedInv'
  BY <1>1, <1>3 DEF IdentityIInv, UndisturbedInv, NoCopyYet, RoomHasName, RoomIsBehind, BehindRoom,
              OpsAreBehind, ResultsGetName, LastIsName, SyncComesFirst, ResultsHaveRow,
              ResultsHaveUser, AccountGetsName, BehindAccount, AccountHasName, Active, At
<1>5. QED
  BY <1>1, <1>2, <1>3, <1>4 DEF IdentityIInv

-----------------------------------------------------------------------------
(* What the requests do with the session *)

LEMMA RenameKeeps ==
  ASSUME IdentityIInv, NEW r \in Request, Rename(r) PROVE IdentityIInv'
<1> DEFINE p == requests[r]
           s == Renamed(p.seen, p.name)
           q == [p EXCEPT !.seen = s, !.user = s.user, !.step = "save"]
<1>1. /\ Active(r) /\ p.step = "profile" /\ onlyRequests /\ StoresOK /\ DOMAIN requests = Request
      /\ p \in ActiveRequest /\ OnRoute(p)
  BY Facts, StepIsActive DEF Rename
<1>2. Moves(r) /\ requests'[r] = q
  BY <1>1 DEF Moves, Rename
<1>3. s \in Session /\ s.name = p.name /\ s.user = p.seen.user /\ s.user \in TgUser \cup {NoUser}
  BY <1>1 DEF ActiveRequest, Session, Renamed
<1> HIDE DEF s
<1>4. /\ q \in ActiveRequest /\ q.kind = p.kind /\ q.next = p.next /\ q.name = p.name
      /\ q.user = s.user /\ q.step = "save" /\ q.seen = s
  BY <1>1, <1>3 DEF ActiveRequest, Step
<1> HIDE DEF p, q
<1>5. p.next = "profile" /\ p.kind = "profile"
  BY <1>1 DEF OnRoute, Route
<1>6. OnRoute(requests[r])'
  BY <1>1, <1>2, <1>4, <1>5 DEF OnRoute
<1>7. ~torn /\ AlongRow(p) => SeesRow(requests[r])'
  BY <1>1, <1>2, <1>3, <1>4, <1>5 DEF AlongRow, SeesRow, onlyRequests, history
<1>8. QED
  BY <1>1, <1>2, <1>4, <1>5, <1>6, <1>7, OnlyRequestMoves DEF p

LEMMA RestoredKeeps ==
  ASSUME IdentityIInv, NEW r \in Request, Restored(r) PROVE IdentityIInv'
<1> DEFINE p == requests[r]
           q == [p EXCEPT !.step = "cache", !.next = "link"]
<1>1. /\ Active(r) /\ p.step = "open" /\ onlyRequests /\ StoresOK /\ DOMAIN requests = Request
      /\ p \in ActiveRequest /\ OnRoute(p)
  BY Facts, StepIsActive DEF Restored
<1>2. Moves(r) /\ requests'[r] = q
  BY <1>1 DEF Moves, Restored
<1>3. /\ q \in ActiveRequest /\ q.kind = p.kind /\ q.next = "link" /\ q.name = p.name
      /\ q.user = p.user /\ q.step = "cache" /\ q.seen = p.seen
  BY <1>1 DEF ActiveRequest, Step
<1> HIDE DEF p, q
<1>4. p.kind = "open" /\ p.next = "open"
  BY <1>1 DEF OnRoute, Route
<1>5. OnRoute(requests[r])'
  BY <1>1, <1>2, <1>3, <1>4 DEF OnRoute, Route
<1>6. ~torn /\ AlongRow(p) => SeesRow(requests[r])'
  BY <1>1, <1>2, <1>3, <1>4 DEF AlongRow, SeesRow, onlyRequests, history
<1>7. QED
  BY <1>1, <1>2, <1>3, <1>4, <1>5, <1>6, OnlyRequestMoves DEF p

LEMMA LinkKeeps ==
  ASSUME IdentityIInv, NEW r \in Request, Link(r) PROVE IdentityIInv'
<1> DEFINE p == requests[r]
<1>1. /\ Active(r) /\ p.step = "link" /\ onlyRequests /\ StoresOK /\ DOMAIN requests = Request
      /\ p \in ActiveRequest /\ OnRoute(p)
  BY Facts, StepIsActive DEF Link
<1>2. p.next = "link" /\ p.kind \in {"open", "sign in"} /\ p.user \in TgUser
  BY <1>1 DEF OnRoute, Route
<1>3. CASE p.seen.user # p.user
  <2> DEFINE s == [p.seen EXCEPT !.user = p.user]
             q == [p EXCEPT !.seen = s, !.step = "save"]
  <2>1. Moves(r) /\ requests'[r] = q
    BY <1>1, <1>3 DEF Moves, Link
  <2>2. s \in Session /\ s.name = p.seen.name /\ s.user = p.user
    BY <1>1, <1>2 DEF ActiveRequest, Session
  <2> HIDE DEF s
  <2>3. /\ q \in ActiveRequest /\ q.kind = p.kind /\ q.next = p.next /\ q.name = p.name
        /\ q.user = p.user /\ q.step = "save" /\ q.seen = s
    BY <1>1, <2>2 DEF ActiveRequest, Step
  <2> HIDE DEF p, q
  <2>4. OnRoute(requests[r])'
    BY <1>1, <1>2, <2>1, <2>3 DEF OnRoute
  <2>5. ~torn /\ AlongRow(p) => SeesRow(requests[r])'
    BY <1>1, <1>2, <2>1, <2>2, <2>3 DEF AlongRow, SeesRow, onlyRequests, history
  <2>6. QED
    BY <1>1, <1>2, <2>1, <2>3, <2>4, <2>5, OnlyRequestMoves DEF p
<1>4. /\ UNCHANGED <<sessionRow, sessionCache, named, torn, disturbed, changedHands, roomPlayer,
                     participant, participantOps, account>>
      /\ StoresOK'
  BY <1>1 DEF onlyRequests, history, copiesUnchanged, StoresOK
<1>5. CASE p.seen.user = p.user /\ p.kind = "sign in"
  <2> DEFINE q == [p EXCEPT !.step = "adopt"]
  <2>1. Moves(r) /\ requests'[r] = q
    BY <1>1, <1>5 DEF Moves, Link
  <2>2. /\ q \in ActiveRequest /\ q.kind = p.kind /\ q.next = p.next /\ q.name = p.name
        /\ q.user = p.user /\ q.step = "adopt" /\ q.seen = p.seen
    BY <1>1 DEF ActiveRequest, Step
  <2> HIDE DEF p, q
  <2>3. OnRoute(requests[r])'
    BY <1>1, <1>2, <1>5, <2>1, <2>2 DEF OnRoute
  <2>row. ASSUME ~torn, AlongRow(p) PROVE AlongRow(requests[r])'
    BY <1>1, <1>2, <1>4, <1>5, <2>1, <2>2, <2>row DEF AlongRow, SeesRow
  <2>4. ASSUME ~disturbed, Along(p) PROVE Along(requests[r])'
    BY <1>1, <1>2, <1>4, <1>5, <2>1, <2>2, <2>4
       DEF Along, AlongRow, SeesRow, BehindRoom, BehindAccount, AccountHasName, LastIsName,
           SyncComesFirst, ResultsHaveUser
  <2>5. QED
    BY <1>1, <1>4, <2>1, <2>2, <2>3, <2>4, <2>row, RequestGoesOn DEF p
<1>6. CASE p.seen.user = p.user /\ p.kind # "sign in"
  <2>1. Moves(r) /\ requests'[r] = NoRequest
    BY <1>1, <1>6 DEF Moves, Link
  <2> HIDE DEF p
  <2>row. ASSUME ~torn', AlongRow(p) PROVE sessionCache' \in {NoSession, sessionRow'}
    BY <1>1, <1>4, <2>row DEF AlongRow, SeesRow
  <2>2. ASSUME ~disturbed', Along(p) PROVE Resting'
    BY <1>1, <1>2, <1>4, <2>2
       DEF Along, AlongRow, Resting, SeesRow, BehindRoom, BehindAccount, AccountHasName,
           LastIsName, SyncComesFirst, ResultsHaveUser
  <2>3. QED
    BY <1>1, <1>4, <2>1, <2>2, <2>row, IsDone DEF p
<1>7. QED
  BY <1>3, <1>5, <1>6

LEMMA UpsertUserKeeps ==
  ASSUME IdentityIInv, NEW r \in Request, UpsertUser(r) PROVE IdentityIInv'
<1> DEFINE p == requests[r]
           q == [p EXCEPT !.step = "cache", !.next = "link"]
<1>1. /\ Active(r) /\ p.step = "sign in" /\ StoresOK /\ DOMAIN requests = Request
      /\ p \in ActiveRequest /\ OnRoute(p)
      /\ account' = [account EXCEPT ![p.user] = IF @ = NoSession THEN p.seen.name ELSE @]
      /\ UNCHANGED <<sessionRow, sessionCache, named, torn, disturbed, changedHands, roomPlayer,
                     participant, participantOps>>
  BY Facts, StepIsActive DEF UpsertUser, history
<1>2. Moves(r) /\ requests'[r] = q
  BY <1>1 DEF Moves, UpsertUser
<1>3. /\ q \in ActiveRequest /\ q.kind = p.kind /\ q.next = "link" /\ q.name = p.name
      /\ q.user = p.user /\ q.step = "cache" /\ q.seen = p.seen /\ p.seen.name \in Name
  BY <1>1 DEF ActiveRequest, Step, Session
<1> HIDE DEF p, q
<1>4. p.kind = "sign in" /\ p.next = "sign in"
  BY <1>1 DEF OnRoute, Route
<1>5. OnRoute(requests[r])'
  BY <1>1, <1>2, <1>3, <1>4 DEF OnRoute, Route
<1>6. StoresOK'
  BY <1>1, <1>3 DEF StoresOK
<1>row. ASSUME ~torn, AlongRow(p) PROVE AlongRow(requests[r])'
  BY <1>1, <1>2, <1>3, <1>4, <1>5, <1>6, <1>row DEF AlongRow, SeesRow
<1>named. Along(p) /\ ~disturbed => AccountHasName'
  BY <1>1, <1>4, IdentityAssumption
     DEF Along, BehindAccount, AccountHasName, StoresOK, Session
<1>7. ASSUME ~disturbed, Along(p) PROVE Along(requests[r])'
  BY <1>1, <1>2, <1>3, <1>4, <1>7, <1>named
     DEF Along, AlongRow, SeesRow, BehindRoom, BehindAccount, LastIsName, SyncComesFirst,
         ResultsHaveUser
<1>8. QED
  BY <1>1, <1>2, <1>3, <1>5, <1>6, <1>7, <1>row, RequestGoesOn DEF p

-----------------------------------------------------------------------------
(* The copies *)

LEMMA TellRoomKeeps ==
  ASSUME IdentityIInv, NEW r \in Request, TellRoom(r) PROVE IdentityIInv'
<1> DEFINE p == requests[r]
           to == IF roomPlayer = NoSession THEN "account" ELSE "enqueue"
           q == [p EXCEPT !.step = to]
<1>1. /\ Active(r) /\ p.step = "tell" /\ StoresOK /\ DOMAIN requests = Request
      /\ p \in ActiveRequest /\ OnRoute(p)
      /\ UNCHANGED <<sessionRow, sessionCache, named, torn, disturbed, changedHands, participant,
                     participantOps, account>>
  BY Facts, StepIsActive DEF TellRoom, history
<1>2. Goes(r, to) /\ roomPlayer' = IF roomPlayer = NoSession THEN NoSession ELSE p.name
  BY DEF TellRoom
<1>3. Moves(r) /\ requests'[r] = q
  BY <1>1, <1>2 DEF Moves, Goes
<1>4. /\ q \in ActiveRequest /\ q.kind = p.kind /\ q.next = p.next /\ q.name = p.name
      /\ q.user = p.user /\ q.step = to /\ q.seen = p.seen /\ p.name \in Name
  BY <1>1 DEF ActiveRequest, Step
<1> HIDE DEF p, q
<1>5. p.next = "tell"
  BY <1>1 DEF OnRoute, Route
<1>6. OnRoute(requests[r])'
  BY <1>1, <1>3, <1>4, <1>5 DEF OnRoute
<1>7. StoresOK'
  BY <1>1, <1>2, <1>4 DEF StoresOK
<1>8. p.name # NoSession
  BY <1>4, IdentityAssumption
<1>row. ASSUME ~torn, AlongRow(p) PROVE AlongRow(requests[r])'
  BY <1>1, <1>2, <1>3, <1>4, <1>5, <1>6, <1>7, <1>8, <1>row DEF AlongRow, SeesRow
<1>9. ASSUME ~disturbed, Along(p) PROVE Along(requests[r])'
  <2>1. p.seen = sessionRow /\ sessionRow.name = p.name
    BY <1>1, <1>5, <1>9 DEF Along, AlongRow, SeesRow
  <2>2. CASE roomPlayer = NoSession
    <3>1. roomPlayer' = NoSession /\ q.step = "account"
      BY <1>2, <1>4, <2>2
    <3>2. QED
      BY <1>1, <1>3, <1>4, <1>5, <1>9, <2>1, <2>2, <3>1
         DEF Along, AlongRow, SeesRow, BehindRoom, BehindAccount, AccountHasName,
             SyncComesFirst, ResultsHaveUser
  <2>3. CASE roomPlayer # NoSession
    <3>1. roomPlayer' = p.name /\ q.step = "enqueue"
      BY <1>2, <1>4, <2>3
    <3>2. QED
      BY <1>1, <1>3, <1>4, <1>5, <1>8, <1>9, <2>1, <2>3, <3>1
         DEF Along, AlongRow, SeesRow, BehindRoom, BehindAccount, AccountHasName,
             SyncComesFirst, ResultsHaveUser
  <2>4. QED
    BY <2>2, <2>3
<1>10. QED
  BY <1>1, <1>3, <1>4, <1>6, <1>7, <1>9, <1>row, RequestGoesOn DEF p

\* What an operation at the end of the queue has to bring.
LEMMA Appended ==
  ASSUME participantOps \in Seq(ParticipantOp), NEW op \in ParticipantOp,
         participantOps' = Append(participantOps, op),
         UNCHANGED <<sessionRow, changedHands, participant>>,
         SyncComesFirst, ResultsHaveUser,
         op.name = sessionRow.name, op.user = sessionRow.user,
         op.kind = "sync" \/ participant # NoSession \/ participantOps # <<>>
  PROVE  /\ participantOps' \in Seq(ParticipantOp) /\ participantOps' # <<>>
         /\ LastIsName' /\ SyncComesFirst' /\ ResultsHaveUser'
<1>1. /\ Len(participantOps') = Len(participantOps) + 1 /\ Len(participantOps) \in Nat
      /\ participantOps' \in Seq(ParticipantOp) /\ participantOps' # <<>>
      /\ participantOps'[Len(participantOps) + 1] = op
      /\ \A i \in 1 .. Len(participantOps) : participantOps'[i] = participantOps[i]
      /\ DOMAIN participantOps = 1 .. Len(participantOps)
      /\ DOMAIN participantOps' = 1 .. (Len(participantOps) + 1)
      /\ participantOps # <<>> <=> Len(participantOps) # 0
  OBVIOUS
<1>2. LastIsName'
  BY <1>1 DEF LastIsName
<1>3. SyncComesFirst'
  BY <1>1 DEF SyncComesFirst
<1>4. ResultsHaveUser'
  BY <1>1 DEF ResultsHaveUser
<1>5. QED
  BY <1>1, <1>2, <1>3, <1>4

LEMMA EnqueueProfileKeeps ==
  ASSUME IdentityIInv, NEW r \in Request, EnqueueProfile(r) PROVE IdentityIInv'
<1> DEFINE p == requests[r]
           q == [p EXCEPT !.step = "account"]
           op == Told(r)
<1>1. /\ Active(r) /\ p.step = "enqueue" /\ StoresOK /\ DOMAIN requests = Request
      /\ p \in ActiveRequest /\ OnRoute(p) /\ participantOps' = Append(participantOps, op)
      /\ UNCHANGED <<sessionRow, sessionCache, named, torn, disturbed, changedHands, roomPlayer, participant,
                     account>>
  BY Facts, StepIsActive DEF EnqueueProfile, history
<1>2. Moves(r) /\ requests'[r] = q
  BY <1>1 DEF Moves, EnqueueProfile, Goes
<1>3. /\ q \in ActiveRequest /\ q.kind = p.kind /\ q.next = p.next /\ q.name = p.name
      /\ q.user = p.user /\ q.step = "account" /\ q.seen = p.seen
  BY <1>1 DEF ActiveRequest, Step
<1>4. op \in ParticipantOp /\ op.name = p.name /\ op.user = p.seen.user
  BY <1>1 DEF Told, ParticipantOp, ActiveRequest, Session
<1> HIDE DEF p, q, op
<1>5. p.next = "tell"
  BY <1>1 DEF OnRoute, Route
<1>6. OnRoute(requests[r])'
  BY <1>1, <1>2, <1>3, <1>5 DEF OnRoute
<1>7. StoresOK'
  BY <1>1, <1>4 DEF StoresOK
<1>row. ASSUME ~torn, AlongRow(p) PROVE AlongRow(requests[r])'
  BY <1>1, <1>2, <1>3, <1>4, <1>5, <1>6, <1>7, <1>row DEF AlongRow, SeesRow
<1>8. ASSUME ~disturbed, Along(p) PROVE Along(requests[r])'
  <2>1. p.seen = sessionRow /\ sessionRow.name = p.name /\ roomPlayer # NoSession
    BY <1>1, <1>5, <1>8 DEF Along, AlongRow, SeesRow
  <2>2. participant # NoSession \/ participantOps # <<>>
    BY <1>1, <1>8, <2>1 DEF Along
  <2>3. participantOps' # <<>> /\ LastIsName' /\ SyncComesFirst' /\ ResultsHaveUser'
    BY <1>1, <1>4, <1>8, <2>1, <2>2, Appended DEF Along, StoresOK
  <2>4. roomPlayer \in {NoSession, sessionRow.name}
    BY <1>1, <1>5, <1>8 DEF Along, BehindRoom
  <2>5. SeesRow(requests[r])' /\ ~BehindRoom(requests[r])'
    BY <1>1, <1>2, <1>3, <1>5, <2>1 DEF SeesRow, BehindRoom
  <2>6. QED
    BY <1>1, <1>2, <1>3, <1>5, <1>8, <2>1, <2>3, <2>4, <2>5
       DEF Along, AlongRow, BehindAccount, AccountHasName
<1>9. QED
  BY <1>1, <1>2, <1>3, <1>6, <1>7, <1>8, <1>row, RequestGoesOn DEF p

LEMMA UpdateAccountKeeps ==
  ASSUME IdentityIInv, NEW r \in Request, UpdateAccount(r) PROVE IdentityIInv'
<1> DEFINE p == requests[r]
<1>1. /\ Active(r) /\ p.step = "account" /\ StoresOK /\ DOMAIN requests = Request
      /\ p \in ActiveRequest /\ OnRoute(p)
      /\ account' = [u \in TgUser |-> IF u = p.user THEN p.name ELSE account[u]]
      /\ UNCHANGED <<sessionRow, sessionCache, named, torn, disturbed, changedHands, roomPlayer, participant,
                     participantOps>>
  BY Facts, StepIsActive DEF UpdateAccount, history
<1>2. Moves(r) /\ requests'[r] = NoRequest
  BY <1>1 DEF Moves, UpdateAccount, Ends
<1>3. p.name \in Name
  BY <1>1 DEF ActiveRequest
<1> HIDE DEF p
<1>4. p.next = "tell"
  BY <1>1 DEF OnRoute, Route
<1>5. StoresOK'
  BY <1>1, <1>3 DEF StoresOK
<1>named. Along(p) /\ ~disturbed' => AccountHasName'
  BY <1>1, <1>4, IdentityAssumption
     DEF Along, AlongRow, SeesRow, BehindAccount, AccountHasName, StoresOK
<1>row. ASSUME ~torn', AlongRow(p) PROVE sessionCache' \in {NoSession, sessionRow'}
  BY <1>1, <1>2, <1>3, <1>4, <1>5, <1>row DEF AlongRow, SeesRow
<1>6. ASSUME ~disturbed', Along(p) PROVE Resting'
  BY <1>1, <1>4, <1>6, <1>named
     DEF Along, AlongRow, Resting, SeesRow, BehindRoom, BehindAccount, AccountHasName,
           LastIsName, SyncComesFirst, ResultsHaveUser
<1>7. QED
  BY <1>1, <1>2, <1>5, <1>6, <1>row, IsDone DEF p

LEMMA AdoptParticipantKeeps ==
  ASSUME IdentityIInv, NEW r \in Request, AdoptParticipant(r) PROVE IdentityIInv'
<1> DEFINE p == requests[r]
<1>1. /\ Active(r) /\ p.step = "adopt" /\ StoresOK /\ DOMAIN requests = Request
      /\ p \in ActiveRequest /\ OnRoute(p)
      /\ participant' = IF participant = NoSession THEN NoSession
                        ELSE [participant EXCEPT !.user = p.user]
      /\ UNCHANGED <<sessionRow, sessionCache, named, torn, disturbed, changedHands, roomPlayer,
                     participantOps, account>>
  BY Facts, StepIsActive DEF AdoptParticipant, history
<1>2. Moves(r) /\ requests'[r] = NoRequest
  BY <1>1 DEF Moves, AdoptParticipant, Ends
<1>3. p.user \in TgUser \cup {NoUser}
  BY <1>1 DEF ActiveRequest
<1> HIDE DEF p
<1>4. p.next = "link"
  BY <1>1 DEF OnRoute, Route
<1>5. /\ participant' \in Session \cup {NoSession}
      /\ participant = NoSession <=> participant' = NoSession
      /\ participant # NoSession => participant'.name = participant.name
                                 /\ participant'.user = p.user
  BY <1>1, <1>3, IdentityAssumption DEF StoresOK, Session
<1>6. StoresOK'
  BY <1>1, <1>5 DEF StoresOK
<1>row. ASSUME ~torn', AlongRow(p) PROVE sessionCache' \in {NoSession, sessionRow'}
  BY <1>1, <1>2, <1>3, <1>4, <1>5, <1>6, <1>row DEF AlongRow, SeesRow
<1>7. ASSUME ~disturbed', Along(p) PROVE Resting'
  <2>1. sessionRow.user = p.user /\ roomPlayer \in {NoSession, sessionRow.name}
    BY <1>1, <1>4, <1>7 DEF Along, AlongRow, SeesRow, BehindRoom
  <2>2. SyncComesFirst' /\ ResultsHaveUser'
    BY <1>1, <1>5, <1>7, <2>1 DEF Along, SyncComesFirst, ResultsHaveUser
  <2>3. roomPlayer # NoSession => LastIsName'
    <3>1. roomPlayer # NoSession =>
            LastIsName /\ (participant # NoSession \/ participantOps # <<>>)
      BY <1>1, <1>4, <1>7 DEF Along, BehindRoom
    <3>2. QED
      BY <1>1, <1>5, <3>1 DEF LastIsName
  <2>4. QED
    BY <1>1, <1>4, <1>5, <1>7, <2>1, <2>2, <2>3
       DEF Along, AlongRow, Resting, BehindAccount, AccountHasName
<1>8. QED
  BY <1>1, <1>2, <1>6, <1>7, <1>row, IsDone DEF p

LEMMA EnterAsPlayerKeeps ==
  ASSUME IdentityIInv, NEW r \in Request, EnterAsPlayer(r) PROVE IdentityIInv'
<1> DEFINE p == requests[r]
           q == [p EXCEPT !.step = "sync"]
<1>1. /\ Active(r) /\ p.step = "join" /\ StoresOK /\ DOMAIN requests = Request
      /\ p \in ActiveRequest /\ OnRoute(p) /\ roomPlayer' = p.seen.name
      /\ UNCHANGED <<sessionRow, sessionCache, named, torn, disturbed, changedHands, participant,
                     participantOps, account>>
  BY Facts, StepIsActive DEF EnterAsPlayer, history
<1>2. Moves(r) /\ requests'[r] = q
  BY <1>1 DEF Moves, EnterAsPlayer, Goes
<1>3. /\ q \in ActiveRequest /\ q.kind = p.kind /\ q.next = p.next /\ q.name = p.name
      /\ q.user = p.user /\ q.step = "sync" /\ q.seen = p.seen /\ p.seen.name \in Name
  BY <1>1 DEF ActiveRequest, Step, Session
<1> HIDE DEF p, q
<1>4. p.next = "join"
  BY <1>1 DEF OnRoute, Route
<1>5. OnRoute(requests[r])'
  BY <1>1, <1>2, <1>3, <1>4 DEF OnRoute
<1>6. StoresOK' /\ p.seen.name # NoSession
  BY <1>1, <1>3, IdentityAssumption DEF StoresOK
<1>row. ASSUME ~torn, AlongRow(p) PROVE AlongRow(requests[r])'
  BY <1>1, <1>2, <1>3, <1>4, <1>5, <1>6, <1>row DEF AlongRow, SeesRow
<1>7. ASSUME ~disturbed, Along(p) PROVE Along(requests[r])'
  <2>1. p.seen = sessionRow /\ roomPlayer = NoSession /\ participant = NoSession
        /\ participantOps = <<>>
    BY <1>1, <1>4, <1>7 DEF Along, AlongRow, SeesRow
  <2>2. SeesRow(requests[r])' /\ ~BehindRoom(requests[r])'
    BY <1>1, <1>2, <1>3, <1>4, <2>1 DEF SeesRow, BehindRoom
  <2>3. SyncComesFirst' /\ ResultsHaveUser'
    BY <1>1, <1>7 DEF Along, SyncComesFirst, ResultsHaveUser
  <2>4. QED
    BY <1>1, <1>2, <1>3, <1>4, <1>6, <1>7, <2>1, <2>2, <2>3
       DEF Along, AlongRow, BehindAccount, AccountHasName
<1>8. QED
  BY <1>1, <1>2, <1>3, <1>5, <1>6, <1>7, <1>row, RequestGoesOn DEF p

LEMMA EnqueueSyncKeeps ==
  ASSUME IdentityIInv, NEW r \in Request, EnqueueSync(r) PROVE IdentityIInv'
<1> DEFINE p == requests[r]
           op == [kind |-> "sync", name |-> p.seen.name, user |-> p.seen.user]
<1>1. /\ Active(r) /\ p.step = "sync" /\ StoresOK /\ DOMAIN requests = Request
      /\ p \in ActiveRequest /\ OnRoute(p) /\ participantOps' = Append(participantOps, op)
      /\ UNCHANGED <<sessionRow, sessionCache, named, torn, disturbed, changedHands, roomPlayer, participant,
                     account>>
  BY Facts, StepIsActive DEF EnqueueSync, history
<1>2. Moves(r) /\ requests'[r] = NoRequest
  BY <1>1 DEF Moves, EnqueueSync, Ends
<1>3. op \in ParticipantOp /\ op.kind = "sync" /\ op.name = p.seen.name /\ op.user = p.seen.user
  BY <1>1 DEF ParticipantOp, ActiveRequest, Session
<1> HIDE DEF p, op
<1>4. p.next = "join"
  BY <1>1 DEF OnRoute, Route
<1>5. StoresOK'
  BY <1>1, <1>3 DEF StoresOK
<1>row. ASSUME ~torn', AlongRow(p) PROVE sessionCache' \in {NoSession, sessionRow'}
  BY <1>1, <1>2, <1>3, <1>4, <1>5, <1>row DEF AlongRow, SeesRow
<1>6. ASSUME ~disturbed', Along(p) PROVE Resting'
  <2>1. /\ p.seen = sessionRow /\ roomPlayer # NoSession
        /\ roomPlayer \in {NoSession, sessionRow.name}
    BY <1>1, <1>4, <1>6 DEF Along, AlongRow, SeesRow, BehindRoom
  <2>2. participantOps' # <<>> /\ LastIsName' /\ SyncComesFirst' /\ ResultsHaveUser'
    BY <1>1, <1>3, <1>6, <2>1, Appended DEF Along, StoresOK
  <2>3. QED
    BY <1>1, <1>4, <1>6, <2>1, <2>2
       DEF Along, AlongRow, Resting, BehindAccount, AccountHasName
<1>7. QED
  BY <1>1, <1>2, <1>5, <1>6, <1>row, IsDone DEF p

LEMMA RequestFailsKeeps ==
  ASSUME IdentityIInv, NEW r \in Request, RequestFails(r) PROVE IdentityIInv'
<1> DEFINE p == requests[r]
<1>1. /\ Active(r) /\ StoresOK /\ DOMAIN requests = Request
      /\ p \in ActiveRequest /\ OnRoute(p)
      /\ disturbed' = (disturbed \/ Written(r))
      /\ torn' = (torn \/ p.step = "keep")
      /\ UNCHANGED <<sessionRow, sessionCache, named, changedHands, roomPlayer, participant,
                     participantOps, account>>
  BY Facts DEF RequestFails, copiesUnchanged, Active
<1>2. Moves(r) /\ requests'[r] = NoRequest
  BY <1>1 DEF Moves, RequestFails, Ends
<1>3. StoresOK'
  BY <1>1 DEF StoresOK, Written
<1>row. ASSUME ~torn', AlongRow(p) PROVE sessionCache' \in {NoSession, sessionRow'}
  BY <1>1, <1>row DEF AlongRow
<1>4. ASSUME ~disturbed', Along(p) PROVE Resting'
  <2>1. ~disturbed /\ ~Written(r)
    BY <1>1, <1>4
  <2>2. /\ p.step \notin {"keep", "enqueue", "sync"} /\ p.next # "tell"
    BY <2>1 DEF Written
  <2> HIDE DEF p
  <2>3. ~BehindRoom(p) /\ ~BehindAccount(p)
    BY <2>2 DEF BehindRoom, BehindAccount
  <2>4. QED
    BY <1>1, <1>4, <2>2, <2>3
       DEF Along, AlongRow, Resting, AccountHasName, LastIsName, SyncComesFirst, ResultsHaveUser
<1>5. (~disturbed' => ~disturbed) /\ (~torn' => ~torn) /\ (torn' => torn \/ disturbed')
  BY <1>1 DEF StoresOK, Written
<1>6. QED
  BY <1>1, <1>2, <1>3, <1>4, <1>5, <1>row, IsDone DEF p

-----------------------------------------------------------------------------
(* The participant's operations *)

\* No request moves: what is left to say is about the results.
LEMMA RequestsRest ==
  ASSUME IdentityIInv, ~disturbed,
         UNCHANGED <<sessionRow, sessionCache, requests, roomPlayer, account, named, torn>>,
         roomPlayer = NoSession => participant' = NoSession /\ participantOps' = <<>>,
         \A r \in Request : At(r, {"sync"}) => participant' = NoSession /\ participantOps' = <<>>,
         roomPlayer # NoSession /\ ~OpsAreBehind => LastIsName',
         SyncComesFirst', ResultsHaveRow', ResultsHaveUser'
  PROVE  UndisturbedInv'
<1>1. UndisturbedInv
  BY DEF IdentityIInv
<1>2. UntornInv' /\ AccountGetsName'
  BY <1>1 DEF UndisturbedInv, UntornInv, Alone, SeenIsRow, SeesRow, CacheFollowsRow, AtStep,
              Active, AccountGetsName, BehindAccount, AccountHasName
<1>3. RoomHasName'
  BY <1>1 DEF UndisturbedInv, RoomHasName, RoomIsBehind, BehindRoom, Active
<1>4. NoCopyYet'
  BY <1>1 DEF UndisturbedInv, NoCopyYet, At, Active
<1>5. OpsAreBehind' <=> OpsAreBehind
  BY DEF OpsAreBehind, RoomIsBehind, BehindRoom, At, Active
<1>6. ResultsGetName'
  BY <1>5 DEF ResultsGetName
<1>7. QED
  BY <1>2, <1>3, <1>4, <1>6 DEF UndisturbedInv

LEMMA RunParticipantOpKeeps == ASSUME IdentityIInv, RunParticipantOp PROVE IdentityIInv'
<1> DEFINE op == participantOps[1]
           ops == participantOps
<1>1. /\ ops \in Seq(ParticipantOp) /\ ops # <<>> /\ StoresOK /\ RequestsOnRoute
      /\ participantOps' = Tail(ops)
      /\ participant' = IF op.kind = "profile" /\ participant = NoSession THEN NoSession
                        ELSE [name |-> op.name, user |-> op.user]
      /\ UNCHANGED <<sessionRow, sessionCache, requests, roomPlayer, account, named, torn,
                     disturbed, changedHands>>
  BY Facts DEF RunParticipantOp, history, StoresOK, IdentityIInv
<1>2. /\ Len(ops) \in Nat \ {0} /\ op \in ParticipantOp
      /\ Tail(ops) \in Seq(ParticipantOp) /\ Len(Tail(ops)) = Len(ops) - 1
      /\ \A i \in 1 .. Len(ops) - 1 : Tail(ops)[i] = ops[i + 1]
      /\ DOMAIN Tail(ops) = 1 .. Len(ops) - 1 /\ DOMAIN ops = 1 .. Len(ops)
      /\ Tail(ops) = <<>> <=> Len(ops) = 1
  <2>1. ops \in Seq(ParticipantOp) /\ ops # <<>>
    BY <1>1
  <2> HIDE DEF ops
  <2>2. Len(ops) \in Nat \ {0} /\ DOMAIN ops = 1 .. Len(ops)
    BY <2>1
  <2>3. ops[1] \in ParticipantOp
    BY <2>1, <2>2
  <2>4. /\ Tail(ops) \in Seq(ParticipantOp) /\ Len(Tail(ops)) = Len(ops) - 1
        /\ \A i \in 1 .. Len(ops) - 1 : Tail(ops)[i] = ops[i + 1]
    BY <2>1, <2>2
  <2>5. DOMAIN Tail(ops) = 1 .. Len(ops) - 1
    BY <2>4
  <2>6. Tail(ops) = <<>> <=> Len(ops) = 1
    <3>1. \A s \in Seq(ParticipantOp) : s = <<>> <=> Len(s) = 0
      OBVIOUS
    <3>2. QED
      BY <2>2, <2>4, <3>1
  <2>7. QED
    BY <2>2, <2>3, <2>4, <2>5, <2>6 DEF ops
<1>3. [name |-> op.name, user |-> op.user] \in Session
  BY <1>2 DEF ParticipantOp, Session
<1>4. StoresOK'
  BY <1>1, <1>2, <1>3 DEF StoresOK
<1>5. RequestsOnRoute'
  BY ZenonT(40), <1>1, <1>4 DEF RequestsOnRoute, IdentityTypeOK, StoresOK, OnRoute
<1>6. ASSUME ~disturbed PROVE UndisturbedInv'
  <2>1. UndisturbedInv
    BY <1>6 DEF IdentityIInv
  <2>2. participant = NoSession => op.kind = "sync"
    BY <1>1, <2>1 DEF UndisturbedInv, SyncComesFirst
  <2>3. participant' = [name |-> op.name, user |-> op.user] /\ participant' # NoSession
    BY <1>1, <1>3, <2>2, IdentityAssumption DEF Session
  <2>4. roomPlayer # NoSession /\ \A r \in Request : ~At(r, {"sync"})
    BY <1>1, <2>1 DEF UndisturbedInv, NoCopyYet
  <2>5. SyncComesFirst' /\ ResultsHaveRow'
    BY <2>3 DEF SyncComesFirst, ResultsHaveRow
  <2>6. ResultsHaveUser'
    <3>1. ResultsHaveUser
      BY <2>1 DEF UndisturbedInv
    <3>2. CASE changedHands
      BY <1>1, <3>2 DEF ResultsHaveUser
    <3>3. CASE ~changedHands
      <4>1. \A i \in 1 .. Len(ops) : ops[i].user \in {NoUser, sessionRow.user}
        BY <1>2, <3>1, <3>3 DEF ResultsHaveUser
      <4>2. participant'.user = op.user /\ op.user \in {NoUser, sessionRow.user}
        BY <1>2, <2>3, <4>1
      <4>3. \A i \in 1 .. Len(ops) - 1 : Tail(ops)[i].user \in {NoUser, sessionRow.user}
        BY <1>2, <4>1
      <4>4. QED
        BY <1>1, <1>2, <4>2, <4>3 DEF ResultsHaveUser
    <3>4. QED
      BY <3>2, <3>3
  <2>7. ASSUME LastIsName PROVE LastIsName'
    <3>1. ops[Len(ops)].name = sessionRow.name
      BY <1>1, <2>7 DEF LastIsName
    <3>2. CASE Len(ops) = 1
      BY <1>1, <1>2, <2>3, <3>1, <3>2 DEF LastIsName
    <3>3. CASE Len(ops) # 1
      <4>1. Tail(ops)[Len(Tail(ops))] = ops[Len(ops)] /\ Tail(ops) # <<>>
        BY <1>2, <3>3
      <4>2. QED
        BY <1>1, <3>1, <4>1 DEF LastIsName
    <3>4. QED
      BY <3>2, <3>3
  <2>8. ~OpsAreBehind => LastIsName
    BY <2>1, <2>4 DEF UndisturbedInv, ResultsGetName
  <2>9. QED
    BY <1>1, <1>6, <2>4, <2>5, <2>6, <2>7, <2>8, RequestsRest
<1>7. ~torn' => UntornInv'
  BY <1>1, RowRests
<1>8. QED
  BY <1>1, <1>5, <1>6, <1>7 DEF IdentityIInv

LEMMA ParticipantOpFailsKeeps == ASSUME IdentityIInv, ParticipantOpFails PROVE IdentityIInv'
<1>1. /\ participantOps \in Seq(ParticipantOp) /\ participantOps # <<>>
      /\ participantOps' = Tail(participantOps) /\ disturbed' = TRUE
      /\ UNCHANGED <<sessionRow, sessionCache, requests, roomPlayer, participant, account,
                     named, torn, changedHands>>
  BY DEF ParticipantOpFails, IdentityIInv, RequestsOnRoute
<1>2. participantOps' \in Seq(ParticipantOp)
  BY <1>1
<1>3. RequestsOnRoute'
  BY ZenonT(40), <1>1, <1>2 DEF IdentityIInv, RequestsOnRoute, IdentityTypeOK, OnRoute
<1>4. ~torn' => UntornInv'
  BY <1>1, RowRests
<1>5. QED
  BY <1>1, <1>3, <1>4 DEF IdentityIInv

-----------------------------------------------------------------------------
(* The theorems *)

LEMMA InitIdentity == IdentityInit => IdentityIInv
<1> SUFFICES ASSUME IdentityInit PROVE IdentityIInv
  OBVIOUS
<1>1. RequestsOnRoute
  <2>1. sessionRow \in Session
    BY DEF IdentityInit, Session
  <2>2. account \in [TgUser -> Name \cup {NoSession}]
    BY DEF IdentityInit
  <2>3. DOMAIN requests = Request /\ \A r \in Request : requests[r] = NoRequest
    BY DEF IdentityInit
  <2>4. participantOps \in Seq(ParticipantOp)
    BY DEF IdentityInit
  <2>5. /\ disturbed \in BOOLEAN /\ changedHands \in BOOLEAN
        /\ named \in TgUser \cup {NoUser} /\ torn \in BOOLEAN
    BY DEF IdentityInit
  <2>6. IdentityTypeOK
    BY <2>1, <2>2, <2>3, <2>5 DEF IdentityInit, IdentityTypeOK
  <2>7. QED
    BY <2>3, <2>4, <2>6 DEF RequestsOnRoute
<1>2. \A o \in Request : requests[o] = NoRequest
  BY DEF IdentityInit
<1>3. SyncComesFirst /\ ResultsHaveUser
  BY DEF IdentityInit, SyncComesFirst, ResultsHaveUser
<1>4. UntornInv /\ AccountGetsName
  BY <1>2 DEF IdentityInit, UntornInv, Alone, SeenIsRow, CacheFollowsRow, AccountGetsName,
              AccountHasName, Active
<1>5. UndisturbedInv
  BY <1>2, <1>3, <1>4
     DEF IdentityInit, UndisturbedInv, NoCopyYet, RoomHasName, ResultsGetName, ResultsHaveRow,
         At, Active
<1>6. QED
  BY <1>1, <1>4, <1>5 DEF IdentityInit, IdentityIInv

\* Every step of the system keeps the inductive invariant: one case per action.
LEMMA StepKeepsIdentity == IdentityIInv /\ [IdentityNext]_identityVars => IdentityIInv'
<1> SUFFICES ASSUME IdentityIInv, [IdentityNext]_identityVars PROVE IdentityIInv'
  OBVIOUS
<1>1. sessionRow.name \in Name
  BY Facts DEF StoresOK, Session
<1>2. ASSUME NEW r \in Request, NEW name \in Name, Begin(r, "profile", name, NoUser)
      PROVE  IdentityIInv'
  BY <1>2, BeginKeeps DEF Kind
<1>3. ASSUME NEW r \in Request, NEW user \in TgUser, NEW kind \in {"open", "sign in"},
             Begin(r, kind, sessionRow.name, user)
      PROVE  IdentityIInv'
  BY <1>1, <1>3, BeginKeeps DEF Kind
<1>4. ASSUME NEW r \in Request, Begin(r, "join", sessionRow.name, NoUser) PROVE IdentityIInv'
  BY <1>1, <1>4, BeginKeeps DEF Kind
<1>5. ASSUME NEW r \in Request,
             ReadCache(r) \/ ReadRow(r) \/ FillCache(r) \/ SaveRow(r) \/ KeepInCache(r)
      PROVE  IdentityIInv'
  BY <1>5, ReadCacheKeeps, ReadRowKeeps, FillCacheKeeps, SaveRowKeeps, KeepInCacheKeeps
<1>6. ASSUME NEW r \in Request,
             Rename(r) \/ TellRoom(r) \/ EnqueueProfile(r) \/ UpdateAccount(r) \/ UpsertUser(r)
      PROVE  IdentityIInv'
  BY <1>6, RenameKeeps, TellRoomKeeps, EnqueueProfileKeeps, UpdateAccountKeeps, UpsertUserKeeps
<1>7. ASSUME NEW r \in Request,
             \/ Restored(r) \/ Link(r) \/ AdoptParticipant(r)
             \/ EnterAsPlayer(r) \/ EnqueueSync(r) \/ RequestFails(r)
      PROVE  IdentityIInv'
  BY <1>7, RestoredKeeps, LinkKeeps, AdoptParticipantKeeps, EnterAsPlayerKeeps,
     EnqueueSyncKeeps, RequestFailsKeeps
<1>8. CASE CacheExpires
  BY <1>8, CacheExpiresKeeps
<1>9. CASE RunParticipantOp
  BY <1>9, RunParticipantOpKeeps
<1>10. CASE ParticipantOpFails
  BY <1>10, ParticipantOpFailsKeeps
<1>11. CASE UNCHANGED identityVars
  <2>1. RequestsOnRoute'
    BY ZenonT(40), <1>11 DEF identityVars, IdentityIInv, RequestsOnRoute, IdentityTypeOK, OnRoute
  <2>2. ~torn' => UntornInv'
    BY <1>11, RowRests DEF identityVars
  <2>3. ~disturbed' => UndisturbedInv'
    BY <1>11, <2>2
       DEF identityVars, IdentityIInv, UndisturbedInv, NoCopyYet, RoomHasName, RoomIsBehind,
           BehindRoom, OpsAreBehind, ResultsGetName, LastIsName, SyncComesFirst, ResultsHaveRow,
           ResultsHaveUser, AccountGetsName, BehindAccount, AccountHasName, Active, At
  <2>4. QED
    BY <1>11, <2>1, <2>2, <2>3 DEF identityVars, IdentityIInv
<1>12. QED
  BY <1>2, <1>3, <1>4, <1>5, <1>6, <1>7, <1>8, <1>9, <1>10, <1>11 DEF IdentityNext

LEMMA IdentityIsInductive == IdentitySpec => []IdentityIInv
BY InitIdentity, StepKeepsIdentity, PTL DEF IdentitySpec

\* The copies of a player's session agree with its row unless requests overlap or
\* fail half done: the cache outside of a save, and at rest the room, the participant
\* and its user, and the account that the session had when it was renamed last
\* (player-session.repository.ts, player-session.service.ts, updateSessionPlayer, the
\* account's update in routes.ts, and the participant's operations of
\* room-result-history.service.ts).
THEOREM IdentityInvariant == IdentitySpec => []IdentityInv
<1>1. ASSUME IdentityIInv PROVE IdentityInv
  <2>1. IdentityTypeOK
    BY <1>1 DEF IdentityIInv, RequestsOnRoute
  <2>2. CacheFollowsRow
    BY <1>1 DEF IdentityIInv, UntornInv, CacheFollowsRow
  <2>3. ASSUME ~disturbed, AtRest PROVE Resting
    BY <1>1, <2>3, Rested DEF IdentityIInv, AtRest
  <2>4. CopiesFollowSession
    BY <2>3 DEF CopiesFollowSession, AtRest, Resting, LastIsName, ResultsHaveUser
  <2>5. AccountFollowsSession
    BY <2>3 DEF AccountFollowsSession, Resting, AccountHasName
  <2>6. QED
    BY <2>1, <2>2, <2>4, <2>5 DEF IdentityInv
<1>2. QED
  BY <1>1, IdentityIsInductive, PTL

\* A session that belongs to a user is not given up to nobody while requests
\* follow each other, also when some of them fail, unless one fails between the
\* row and the cache: a rename saves the user it read, a link saves the user who
\* asks (updateProfile and linkToUser in player-session.service.ts, save in
\* player-session.repository.ts).
THEOREM SessionKeepsAUser == IdentitySpec => LinksLast
<1> DEFINE Keeps == ~torn' /\ sessionRow.user # NoUser => sessionRow'.user # NoUser
<1>1. ASSUME IdentityIInv, [IdentityNext]_identityVars PROVE [Keeps]_identityVars
  <2>1. ASSUME NEW r \in Request, SaveRow(r) PROVE Keeps
    <3>1. /\ Active(r) /\ requests[r].step = "save" /\ OnRoute(requests[r])
          /\ sessionRow' = requests[r].seen /\ torn' = torn
      BY <1>1, <2>1, Facts, StepIsActive DEF SaveRow
    <3>2. requests[r].next \in {"profile", "link"}
      BY <3>1 DEF OnRoute, Route
    <3>3. requests[r].next = "link" => requests[r].user # NoUser
      BY <3>1, IdentityAssumption DEF OnRoute, Route
    <3>4. ~torn => SeesRow(requests[r])
      BY <1>1, <3>1, Untorn DEF IdentityIInv, AlongRow
    <3>5. QED
      BY <3>1, <3>2, <3>3, <3>4 DEF SeesRow
  <2>2. CASE ~ \E r \in Request : SaveRow(r)
    <3>1. sessionRow' = sessionRow
      BY <1>1, <2>2
         DEF IdentityNext, identityVars, Begin, ReadCache, ReadRow, FillCache, KeepInCache,
             Rename, TellRoom, EnqueueProfile, UpdateAccount, UpsertUser, Restored, Link,
             AdoptParticipant, EnterAsPlayer, EnqueueSync, RequestFails, CacheExpires,
             RunParticipantOp, ParticipantOpFails, onlyRequests
    <3>2. QED
      BY <3>1
  <2>3. QED
    BY <2>1, <2>2
<1>2. QED
  BY <1>1, IdentityIsInductive, PTL DEF IdentitySpec, LinksLast
=============================================================================
