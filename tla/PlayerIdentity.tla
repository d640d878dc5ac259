--------------------------- MODULE PlayerIdentity ---------------------------
(***************************************************************************)
(* Who a player is: the player session behind one token, in PostgreSQL and *)
(* in a cache, and what is copied from it: the player in a room, the       *)
(* participant row of the results, the account of the user.  HTTP requests *)
(* and joins work on it at the same time; each await is a step.            *)
(***************************************************************************)
EXTENDS Naturals, Sequences

CONSTANTS
  Request,    \* the requests that can be under way at a time
  Name,       \* the names a player may choose
  TgUser,       \* the users that sign in
  NoUser,
  NoSession,
  MaxStarts   \* bound: requests in all

ASSUME IdentityAssumption ==
  /\ NoUser \notin TgUser
  /\ NoSession \notin Name \cup [name : Name, user : TgUser \cup {NoUser}]
  /\ MaxStarts \in Nat

VARIABLES
  sessionRow,      \* the row of player_sessions
  sessionCache,    \* the entry in Redis, or NoSession
  requests,        \* requests[r]: the request in this place, with its next step
  starts,
  roomPlayer,      \* the name in room.players, or NoSession outside of the room
  participant,     \* the row of room_participants, or NoSession
  participantOps,  \* participantHistoryOperations of the room and the player
  account,         \* account[u]: the display name of user u, or NoSession
  named,           \* history: the user of the session that was renamed last
  torn,            \* history: requests overlapped, or one failed between the row
                   \* and the cache
  disturbed,       \* history: requests overlapped, or one failed half done
  changedHands     \* history: the session went from one user to another

identityVars == <<sessionRow, sessionCache, requests, starts, roomPlayer, participant,
                  participantOps, account, named, torn, disturbed, changedHands>>
history == <<named, torn, disturbed, changedHands>>

Session == [name : Name, user : TgUser \cup {NoUser}]
NoRequest == [step |-> "idle"]

IdentityInit ==
  /\ sessionRow \in [name : Name, user : {NoUser}]
  /\ sessionCache = NoSession
  /\ requests = [r \in Request |-> NoRequest] /\ starts = 0
  /\ roomPlayer = NoSession /\ participant = NoSession /\ participantOps = <<>>
  /\ account \in [TgUser -> Name \cup {NoSession}]
  /\ named = NoUser /\ torn = FALSE /\ disturbed = FALSE /\ changedHands = FALSE

Goes(r, step) == requests' = [requests EXCEPT ![r].step = step]
Ends(r) == requests' = [requests EXCEPT ![r] = NoRequest]
copiesUnchanged == UNCHANGED <<roomPlayer, participant, participantOps, account>>
onlyRequests == UNCHANGED <<sessionRow, sessionCache, starts, history>> /\ copiesUnchanged

\* A request comes in: a join, a profile update with a name, the session of a
\* signed-in user, who has an account, or a sign-in that brings the session along.
Begin(r, kind, name, user) ==
  /\ requests[r] = NoRequest /\ starts < MaxStarts
  /\ kind = "join" => roomPlayer = NoSession
  /\ kind = "open" => account[user] # NoSession
  /\ requests' = [requests EXCEPT ![r] =
       [kind |-> kind, name |-> name, user |-> user, seen |-> sessionRow,
        step |-> "cache", next |-> kind]]
  /\ starts' = starts + 1
  /\ disturbed' = (disturbed \/ (\E q \in Request : requests[q] # NoRequest))
  /\ torn' = (torn \/ (\E q \in Request : requests[q] # NoRequest))
  /\ UNCHANGED <<sessionRow, sessionCache, named, changedHands>> /\ copiesUnchanged

-----------------------------------------------------------------------------
(* The repository *)

AtStep(r, step) == requests[r] # NoRequest /\ requests[r].step = step

\* findByToken.
ReadCache(r) ==
  /\ AtStep(r, "cache")
  /\ requests' = [requests EXCEPT ![r] =
       IF sessionCache = NoSession THEN [@ EXCEPT !.step = "row"]
       ELSE [@ EXCEPT !.seen = sessionCache, !.step = requests[r].next]]
  /\ onlyRequests

ReadRow(r) ==
  /\ AtStep(r, "row")
  /\ requests' = [requests EXCEPT ![r].seen = sessionRow, ![r].step = "fill"]
  /\ onlyRequests

FillCache(r) ==
  /\ AtStep(r, "fill")
  /\ sessionCache' = requests[r].seen
  /\ Goes(r, requests[r].next)
  /\ UNCHANGED <<sessionRow, starts, history>> /\ copiesUnchanged

\* save: the row, then the cache.
SaveRow(r) ==
  /\ AtStep(r, "save")
  /\ sessionRow' = requests[r].seen
  /\ Goes(r, "keep")
  /\ changedHands' = (changedHands \/ sessionRow.user \notin {NoUser, requests[r].seen.user})
  /\ named' = IF requests[r].kind = "profile" THEN requests[r].user ELSE named
  /\ UNCHANGED <<sessionCache, starts, torn, disturbed>> /\ copiesUnchanged

\* Mutant of SavedToCache: only lookups fill the cache.
CacheLeftAlone(r) == sessionCache
SavedToCache(r) == requests[r].seen

AfterSave(r) ==
  CASE requests[r].kind = "profile" -> [requests[r] EXCEPT !.step = "cache", !.next = "tell"]
    [] requests[r].kind = "sign in" -> [requests[r] EXCEPT !.step = "adopt"]
    [] OTHER -> NoRequest

KeepInCache(r) ==
  /\ AtStep(r, "keep")
  /\ sessionCache' = SavedToCache(r)
  /\ requests' = [requests EXCEPT ![r] = AfterSave(r)]
  /\ UNCHANGED <<sessionRow, starts, history>> /\ copiesUnchanged

CacheExpires ==
  /\ sessionCache # NoSession /\ sessionCache' = NoSession
  /\ UNCHANGED <<sessionRow, requests, starts, history>> /\ copiesUnchanged

-----------------------------------------------------------------------------
(* What the requests do with the session *)

\* Mutant of Renamed: the session is written anew from the player.
RenamedPlayer(session, name) == [name |-> name, user |-> NoUser]
Renamed(session, name) == [session EXCEPT !.name = name]

\* updateProfile: the request keeps the user of the session that it saves.
Rename(r) ==
  /\ AtStep(r, "profile")
  /\ requests' = [requests EXCEPT ![r].seen = Renamed(@, requests[r].name),
                                  ![r].user = Renamed(requests[r].seen, requests[r].name).user,
                                  ![r].step = "save"]
  /\ onlyRequests

\* updateSessionPlayer after its lookup: the room takes the name that was
\* saved and is stored.
TellRoom(r) ==
  /\ AtStep(r, "tell")
  /\ IF roomPlayer = NoSession THEN Goes(r, "account") /\ UNCHANGED roomPlayer
     ELSE Goes(r, "enqueue") /\ roomPlayer' = requests[r].name
  /\ UNCHANGED <<sessionRow, sessionCache, starts, history, participant,
                 participantOps, account>>

Told(r) == [kind |-> "profile", name |-> requests[r].name, user |-> requests[r].seen.user]

EnqueueProfile(r) ==
  /\ AtStep(r, "enqueue")
  /\ participantOps' = Append(participantOps, Told(r))
  /\ Goes(r, "account")
  /\ UNCHANGED <<sessionRow, sessionCache, starts, history, roomPlayer,
                 participant, account>>

\* The account follows: that of the user of the session as updateProfile saved it,
\* not as updateSessionPlayer has looked it up since.
UpdateAccount(r) ==
  /\ AtStep(r, "account")
  /\ account' = [u \in TgUser |-> IF u = requests[r].user THEN requests[r].name
                                ELSE account[u]]
  /\ Ends(r)
  /\ UNCHANGED <<sessionRow, sessionCache, starts, history, roomPlayer,
                 participant, participantOps>>

\* signInWithTelegram: a new user is called what the player is called.
UpsertUser(r) ==
  /\ AtStep(r, "sign in")
  /\ account' = [account EXCEPT ![requests[r].user] =
                   IF @ = NoSession THEN requests[r].seen.name ELSE @]
  /\ requests' = [requests EXCEPT ![r].step = "cache", ![r].next = "link"]
  /\ UNCHANGED <<sessionRow, sessionCache, starts, history, roomPlayer,
                 participant, participantOps>>

\* restore has found the session; it is linked to the user who asks for it.
Restored(r) ==
  /\ AtStep(r, "open")
  /\ requests' = [requests EXCEPT ![r].step = "cache", ![r].next = "link"]
  /\ onlyRequests

\* linkToUser, unless the session has this user.
Link(r) ==
  /\ AtStep(r, "link")
  /\ requests' = [requests EXCEPT ![r] =
       IF @.seen.user # @.user THEN [@ EXCEPT !.seen.user = requests[r].user, !.step = "save"]
       ELSE IF @.kind = "sign in" THEN [@ EXCEPT !.step = "adopt"] ELSE NoRequest]
  /\ onlyRequests

\* linkPlayerSessionToUser of the history: the rows of past rooms, not queued.
AdoptParticipant(r) ==
  /\ AtStep(r, "adopt")
  /\ participant' = IF participant = NoSession THEN NoSession
                    ELSE [participant EXCEPT !.user = requests[r].user]
  /\ Ends(r)
  /\ UNCHANGED <<sessionRow, sessionCache, starts, history, roomPlayer,
                 participantOps, account>>

\* joinRoom with the session it looked up.
EnterAsPlayer(r) ==
  /\ AtStep(r, "join")
  /\ roomPlayer' = requests[r].seen.name
  /\ Goes(r, "sync")
  /\ UNCHANGED <<sessionRow, sessionCache, starts, history, participant,
                 participantOps, account>>

EnqueueSync(r) ==
  /\ AtStep(r, "sync")
  /\ participantOps' = Append(participantOps,
       [kind |-> "sync", name |-> requests[r].seen.name, user |-> requests[r].seen.user])
  /\ Ends(r)
  /\ UNCHANGED <<sessionRow, sessionCache, starts, history, roomPlayer,
                 participant, account>>

\* One operation of the player in the room after the other; an update finds
\* the row of a participant who was synchronized.
RunParticipantOp ==
  /\ participantOps # <<>>
  /\ participantOps' = Tail(participantOps)
  /\ LET op == Head(participantOps)
     IN  participant' = IF op.kind = "profile" /\ participant = NoSession THEN NoSession
                        ELSE [name |-> op.name, user |-> op.user]
  /\ UNCHANGED <<sessionRow, sessionCache, requests, starts, roomPlayer, account,
                 history>>

-----------------------------------------------------------------------------
(* Failures *)

\* A call of the request fails, before or after something was written.
Written(r) == requests[r].step \in {"keep", "tell", "enqueue", "account", "adopt", "sync"}
                 \/ requests[r].next = "tell"

RequestFails(r) ==
  /\ requests[r] # NoRequest /\ Ends(r)
  /\ disturbed' = (disturbed \/ Written(r))
  /\ torn' = (torn \/ requests[r].step = "keep")
  /\ UNCHANGED <<sessionRow, sessionCache, starts, named, changedHands>> /\ copiesUnchanged

\* A participant operation fails and is only logged.
ParticipantOpFails ==
  /\ participantOps # <<>> /\ participantOps' = Tail(participantOps)
  /\ disturbed' = TRUE
  /\ UNCHANGED <<sessionRow, sessionCache, requests, starts, roomPlayer, participant,
                 account, named, torn, changedHands>>

-----------------------------------------------------------------------------

IdentityNext ==
  \/ \E r \in Request :
       \/ \E name \in Name : Begin(r, "profile", name, NoUser)
       \/ \E user \in TgUser : \E kind \in {"open", "sign in"} :
            Begin(r, kind, sessionRow.name, user)
       \/ Begin(r, "join", sessionRow.name, NoUser)
       \/ ReadCache(r) \/ ReadRow(r) \/ FillCache(r) \/ SaveRow(r) \/ KeepInCache(r)
       \/ Rename(r) \/ TellRoom(r) \/ EnqueueProfile(r) \/ UpdateAccount(r)
       \/ UpsertUser(r) \/ Restored(r) \/ Link(r) \/ AdoptParticipant(r)
       \/ EnterAsPlayer(r) \/ EnqueueSync(r) \/ RequestFails(r)
  \/ CacheExpires \/ RunParticipantOp \/ ParticipantOpFails

IdentitySpec == IdentityInit /\ [][IdentityNext]_identityVars

-----------------------------------------------------------------------------
(* Properties *)

IdentityTypeOK ==
  /\ sessionRow \in Session /\ sessionCache \in Session \cup {NoSession}
  /\ \A r \in Request : requests[r] = NoRequest \/ requests[r].seen \in Session
  /\ roomPlayer \in Name \cup {NoSession} /\ participant \in Session \cup {NoSession}
  /\ account \in [TgUser -> Name \cup {NoSession}]
  /\ named \in TgUser \cup {NoUser} /\ torn \in BOOLEAN
  /\ disturbed \in BOOLEAN /\ changedHands \in BOOLEAN

\* A lookup never brings back an older session: the cache is empty or has what
\* the table has, except between the two writes of a save.  Overlapping requests
\* can leave it behind until it expires, as a lookup that read the table before a
\* save may fill it after; so can a save that fails before it reaches the cache.
CacheFollowsRow ==
  ~torn /\ (\A r \in Request : ~AtStep(r, "keep"))
    => sessionCache \in {NoSession, sessionRow}

AtRest == participantOps = <<>> /\ \A r \in Request : requests[r] = NoRequest

\* When everything has come to rest the copies of the name agree with the
\* session: the room, the participant of the results, and its user unless it
\* has none yet. A session that another user opens again is linked to that user
\* (linkToUser), and the results keep the first one.
CopiesFollowSession ==
  ~disturbed /\ AtRest /\ roomPlayer # NoSession
  => /\ roomPlayer = sessionRow.name
     /\ participant # NoSession /\ participant.name = sessionRow.name
     /\ changedHands \/ participant.user \in {NoUser, sessionRow.user}

\* At rest the account that the session had when it was renamed last has the name
\* of the session, whatever was linked since.  An account signed in or linked
\* later keeps its own name until the session is renamed.
AccountFollowsSession ==
  ~disturbed /\ AtRest /\ named # NoUser => account[named] = sessionRow.name

\* The copies of a player's session agree with its row, unless requests overlap
\* or fail half done: the cache, the room, the participant and the account.
IdentityInv ==
  /\ IdentityTypeOK
  /\ CacheFollowsRow
  /\ CopiesFollowSession
  /\ AccountFollowsSession

\* A session that belongs to a user is never given up to nobody by requests that
\* follow each other, also when some of them fail half done.  The exception is a
\* save that fails between the row and the cache: the next request finds the
\* session without its user in the cache, and saves it again.
LinksLast ==
  [][~torn' /\ sessionRow.user # NoUser => sessionRow'.user # NoUser]_identityVars

=============================================================================
