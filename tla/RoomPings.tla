------------------------------ MODULE RoomPings ------------------------------
(***************************************************************************)
(* Pings: a page shows its own ping at once and asks the room to pass it   *)
(* on; the room takes its commands one after the other, holds a player to  *)
(* a pace, records the ping and broadcasts it; the other pages show it for *)
(* a while, at their own pace, once their sound has been loaded.           *)
(***************************************************************************)
EXTENDS Integers, Sequences, FiniteSets

CONSTANTS
  Pinger,         \* the players, each with one page
  Cooldown,       \* pingCooldownMs and PING_COOLDOWN_MS, in units
  Duration,       \* PING_DURATION_MS
  NoPing,        \* no command is running
  MaxTime, MaxPings, MaxPingFaults   \* bounds

ASSUME PingsAssumption ==
  /\ Cooldown \in Nat \ {0} /\ Duration \in Nat \ {0}
  /\ NoPing \notin [by : Pinger, id : Nat]

VARIABLES
  time,
  asked,        \* roomCommandOperations: pings that wait for their turn
  appending,    \* the ping whose event is being appended, or NoPing
  lastPing,     \* pingCooldowns[p], or -1
  pingLog,      \* the ping_created events
  passedOn,     \* mailbox[p]: broadcasts on their way to the page of p
  loaded,       \* isAudioReady of each page
  lastShownAt,  \* lastPingAtByUser[p][q] of the page of p, or -1
  preparing,    \* preparing[p]: pings that await the sound
  shown,        \* shown[p]: the pings on the page
  made,         \* how many pings were made
  pingFaults,
  doubted       \* history: pings recorded by an append that failed

pingVars == <<time, asked, appending, lastPing, pingLog, passedOn, loaded, lastShownAt,
              preparing, shown, made, pingFaults, doubted>>
pageOfPings == <<loaded, lastShownAt, preparing, shown>>
serverOfPings == <<asked, appending, lastPing, pingLog, passedOn, pingFaults, doubted>>

PingsInit ==
  /\ time = 0 /\ asked = << >> /\ appending = NoPing /\ pingLog = << >>
  /\ made = 0 /\ pingFaults = 0 /\ doubted = {}
  /\ lastPing = [p \in Pinger |-> -1]
  /\ passedOn = [p \in Pinger |-> << >>]
  /\ loaded = [p \in Pinger |-> FALSE]
  /\ lastShownAt = [p \in Pinger |-> [q \in Pinger |-> -1]]
  /\ preparing = [p \in Pinger |-> {}]
  /\ shown = [p \in Pinger |-> {}]

\* Within the cooldown of q, by the clock of the room or of a page.
TooSoon(last, q) == last[q] >= 0 /\ time - last[q] < Cooldown

-----------------------------------------------------------------------------
(* The pages                                                               *)

View(ping, waited) == [by |-> ping.by, id |-> ping.id, startedAt |-> time, waited |-> waited]

Noted(p, ping) == lastShownAt' = [lastShownAt EXCEPT ![p][ping.by] = time]

\* showPing: it awaits loadPingSound, which returns at once when it has loaded.
Shows(p, ping) ==
  IF TooSoon(lastShownAt[p], ping.by) THEN UNCHANGED <<lastShownAt, preparing, shown>>
  ELSE /\ Noted(p, ping)
       /\ IF loaded[p]
          THEN shown' = [shown EXCEPT ![p] = @ \cup {View(ping, FALSE)}] /\ UNCHANGED preparing
          ELSE preparing' = [preparing EXCEPT ![p] = @ \cup {ping}] /\ UNCHANGED shown

\* onAltClickPing
MakePing(p) ==
  LET ping == [by |-> p, id |-> made + 1] IN
    /\ made < MaxPings /\ made' = made + 1
    /\ asked' = Append(asked, ping)
    /\ Shows(p, ping)
    /\ UNCHANGED <<time, appending, lastPing, pingLog, passedOn, loaded, pingFaults, doubted>>

\* room:pinged; the page has shown its own ping already.
HearPing(p) ==
  /\ passedOn[p] # << >> /\ passedOn' = [passedOn EXCEPT ![p] = Tail(@)]
  /\ IF Head(passedOn[p]).by = p THEN UNCHANGED <<lastShownAt, preparing, shown>>
     ELSE Shows(p, Head(passedOn[p]))
  /\ UNCHANGED <<time, asked, appending, lastPing, pingLog, loaded, made, pingFaults, doubted>>

\* The load that the controller begins with is answered.
SoundLoads(p) ==
  /\ ~loaded[p] /\ loaded' = [loaded EXCEPT ![p] = TRUE]
  /\ UNCHANGED <<time, serverOfPings, lastShownAt, preparing, shown, made>>

\* The load that a ping has waited for is answered, or fails: it appears.
PingAppears(p, ping) ==
  /\ ping \in preparing[p]
  /\ preparing' = [preparing EXCEPT ![p] = @ \ {ping}]
  /\ shown' = [shown EXCEPT ![p] = @ \cup {View(ping, TRUE)}]
  /\ loaded' \in {loaded, [loaded EXCEPT ![p] = TRUE]}
  /\ UNCHANGED <<time, serverOfPings, lastShownAt, made>>

\* updatePings, at the next frame.
Expired(p, now) == {v \in shown[p] : v.startedAt + Duration <= now}

-----------------------------------------------------------------------------
(* The room                                                                *)

\* pingCommand: the pace is kept before the event is appended.
BeginPing ==
  /\ asked # << >> /\ appending = NoPing
  /\ LET ping == Head(asked) IN
       IF TooSoon(lastPing, ping.by) THEN UNCHANGED <<appending, lastPing>>
       ELSE appending' = ping /\ lastPing' = [lastPing EXCEPT ![ping.by] = time]
  /\ asked' = Tail(asked)
  /\ UNCHANGED <<time, pingLog, passedOn, pageOfPings, made, pingFaults, doubted>>

Recorded(ping) == Append(pingLog, [by |-> ping.by, id |-> ping.id, at |-> lastPing[ping.by]])

PingRecorded ==
  /\ appending # NoPing /\ appending' = NoPing
  /\ pingLog' = Recorded(appending)
  /\ passedOn' = [p \in Pinger |-> Append(passedOn[p], appending)]
  /\ UNCHANGED <<time, asked, lastPing, pageOfPings, made, pingFaults, doubted>>

\* Mutant: the ping is passed on whether or not it was recorded.
ToldAnyway(ping) == [p \in Pinger |-> Append(passedOn[p], ping)]
NotTold(ping) == passedOn

\* The append throws, stored or not: the player may ping again at once.
PingRefused(stored) ==
  /\ appending # NoPing /\ appending' = NoPing
  /\ pingFaults < MaxPingFaults /\ pingFaults' = pingFaults + 1
  /\ lastPing' = [lastPing EXCEPT ![appending.by] = -1]
  /\ pingLog' = IF stored THEN Recorded(appending) ELSE pingLog
  /\ doubted' = IF stored THEN doubted \cup {appending.id} ELSE doubted
  /\ passedOn' = NotTold(appending)
  /\ UNCHANGED <<time, asked, pageOfPings, made>>

-----------------------------------------------------------------------------

PingTime ==
  /\ time < MaxTime /\ time' = time + 1
  /\ shown' = [p \in Pinger |-> shown[p] \ Expired(p, time + 1)]
  /\ UNCHANGED <<serverOfPings, loaded, lastShownAt, preparing, made>>

PingsNext ==
  \/ \E p \in Pinger :
       \/ MakePing(p) \/ HearPing(p) \/ SoundLoads(p)
       \/ \E ping \in preparing[p] : PingAppears(p, ping)
  \/ BeginPing \/ PingRecorded \/ \E stored \in BOOLEAN : PingRefused(stored)
  \/ PingTime

PingsSpec == PingsInit /\ [][PingsNext]_pingVars

-----------------------------------------------------------------------------
(* Correctness                                                             *)

\* A ping is in one place of a page at most, and what a page shows is not over.
PingsTypeOK ==
  /\ \A p \in Pinger : \A v \in shown[p] :
       v.startedAt + Duration > time /\ [by |-> v.by, id |-> v.id] \notin preparing[p]
  /\ \A p \in Pinger : \A v, w \in shown[p] : v.id = w.id => v = w
  /\ \A i, j \in DOMAIN pingLog : pingLog[i].id = pingLog[j].id => i = j

\* What counts for a player is paced, however many pings wait for their turn,
\* unless an append that failed was stored all the same.
PingsArePaced ==
  \A i, j \in DOMAIN pingLog :
    i < j /\ pingLog[i].by = pingLog[j].by /\ pingLog[i].id \notin doubted =>
      pingLog[j].at - pingLog[i].at >= Cooldown

\* What a page shows of others is on record.
ShownPingsAreRecorded ==
  \A p \in Pinger : \A ping \in preparing[p] \cup {[by |-> v.by, id |-> v.id] : v \in shown[p]} :
    ping.by # p => \E i \in DOMAIN pingLog : pingLog[i].id = ping.id /\ pingLog[i].by = ping.by

\* A page is not flooded: of one player it shows no more pings at a time than
\* the pace allows, but for those that have waited for the sound.
PingsAreFew ==
  \A p, q \in Pinger :
    Cardinality({v \in shown[p] : v.by = q /\ ~v.waited}) <= 1 + (Duration - 1) \div Cooldown

\* The pings of a player are paced, on record before others see them, and few on
\* every page, although appends fail and sounds are awaited.
PingsInv ==
  /\ PingsTypeOK
  /\ PingsArePaced
  /\ ShownPingsAreRecorded
  /\ PingsAreFew
=============================================================================
