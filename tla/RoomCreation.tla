---------------------------- MODULE RoomCreation ----------------------------
(***************************************************************************)
(* The page that creates rooms: the session it finds in the browser's      *)
(* storage and checks, the logins, the list of the user's builds, the      *)
(* preview of the one that is selected, and the request for a room.  The   *)
(* page shares the storage with the other tabs of the browser.  A preview  *)
(* is the build it shows.  The effects of React that a change of state     *)
(* triggers are part of the step that changes the state; what they have    *)
(* disposed of can still be answered.                                      *)
(***************************************************************************)
EXTENDS Naturals, FiniteSets

CONSTANTS
  Token,      \* the tokens that the server can give out
  Build,      \* the user's compositions
  Nothing,    \* no token, and no build
  MaxTurns    \* bound: what users, other tabs and the server's sessions do

ASSUME NothingAssumption == Nothing \notin Token \cup Build
ASSUME MaxTurnsAssumption == MaxTurns \in Nat

VARIABLES
  stored,     \* the token in the browser's storage
  issued, ended,  \* tokens that the server has given out, and that it refuses
  session,    \* authSession
  checking,   \* the token that fetchAuthMe asks about
  confirmed,  \* history: the tokens that the server has confirmed to this page
  login,      \* the login in flight: none, by a button or by the widget
  widget,     \* the login widget: hidden, shown, or lost with its host
  loading,    \* which of the flags auth, list, history and preview are set
  requests,   \* what the effects have asked for
  builds,     \* compositions
  link, selected, preview,
  creating,   \* the token of the request for a room in flight
  turns       \* so far

serverVars == <<issued, ended>>
loginVars == <<checking, confirmed, login, widget>>
buildVars == <<builds, link, selected, preview>>
creationVars == <<stored, serverVars, session, loginVars, loading, requests,
                  buildVars, creating, turns>>

BuildOrNothing == Build \cup {Nothing}
TokenOrNothing == Token \cup {Nothing}

\* Types and what a page without a session cannot have.
CreationTypeOK ==
  /\ {stored, session, checking, creating} \subseteq TokenOrNothing
  /\ ended \subseteq issued /\ issued \subseteq Token
  /\ {stored, session} \ {Nothing} \subseteq issued
  /\ confirmed \subseteq issued
  /\ login \in {"none", "button", "widget"}
  /\ widget \in {"hidden", "shown", "lost"}
  /\ loading \subseteq {"auth", "list", "history", "preview"}
  /\ requests \subseteq [kind: {"list", "history", "preview"},
                         selected: BuildOrNothing, disposed: BOOLEAN]
  /\ \A kind \in {"list", "history", "preview"} :
       Cardinality({r \in requests : r.kind = kind /\ ~r.disposed})
         <= IF session = Nothing THEN 0 ELSE 1
  /\ builds \subseteq Build /\ {link, selected, preview} \subseteq BuildOrNothing
  /\ turns \in 0 .. MaxTurns

-----------------------------------------------------------------------------
(***************************************************************************)
(* The session in the browser's storage.                                   *)
(***************************************************************************)
\* Mutant: the session in the storage is cleared, whichever it is.
ClearedAnyway(token) == Nothing
\* clearLocalAuthSession: what another tab has stored since is left alone.
Cleared(token) == IF stored \notin {Nothing, token} THEN stored ELSE Nothing

\* readLocalAuthSession: an expired session is cleared.
Readings == {stored} \cup (IF stored \in ended THEN {Nothing} ELSE {})

-----------------------------------------------------------------------------
(***************************************************************************)
(* What the page shows, and what its effects ask for.                      *)
(***************************************************************************)
IsLoading == \/ "auth" \in loading
             \/ session # Nothing /\ "list" \in loading

Asked(kinds, token, build) ==
  {[kind |-> kind, selected |-> IF kind = "history" THEN Nothing ELSE build,
    disposed |-> FALSE] :
     kind \in {k \in kinds : /\ token # Nothing
                             /\ k = "preview" => build # Nothing}}
\* The effects of these kinds run again: what they had asked for is disposed of.
AskedAgain(kinds, token, build) ==
  {[r EXCEPT !.disposed = @ \/ (r.kind \in kinds)] : r \in requests}
    \cup Asked(kinds, token, build)

OfSession == {"list", "history", "preview"}
OfSelection == {"list", "preview"}

\* Mutant: answers to requests that were disposed of are taken.
EveryAnswer(request) == TRUE
IsHeard(request) == ~request.disposed

\* The flags that are set when the page opens.
LoadingAtFirst(token, build) ==
  {r.kind : r \in Asked(OfSession, token, build)}
    \cup (IF token # Nothing THEN {"auth"} ELSE {})

\* The page opens with the token that it has read and the build of its link.
CreationInit ==
  /\ stored \in TokenOrNothing /\ issued = {stored} \ {Nothing}
  /\ ended \in SUBSET issued
  /\ link \in BuildOrNothing
  /\ session = stored /\ checking = stored /\ confirmed = {} /\ login = "none"
  /\ widget = "hidden" /\ loading = LoadingAtFirst(stored, link)
  /\ requests = Asked(OfSession, stored, link)
  /\ builds = {} /\ selected = link /\ preview = Nothing
  /\ creating = Nothing /\ turns = 0

-----------------------------------------------------------------------------
(***************************************************************************)
(* The session: its check, and the logins.                                 *)
(***************************************************************************)
\* What requestAuth does once the server has answered with a session.
RequestAuth ==
  \E token \in Token \ issued :
    /\ issued' = issued \cup {token} /\ stored' = token /\ session' = token
    /\ confirmed' = confirmed \cup {token}

\* fetchAuthMe stores the session that the server confirms, even if another tab
\* has stored a newer one; a refusal clears the stored one if it is the same.
FetchAuthMe ==
  \/ /\ checking \notin ended /\ stored' = checking /\ session' = checking
     /\ confirmed' = confirmed \cup {checking}
  \/ /\ stored' \in {stored} \cup (IF checking \in ended THEN {Cleared(checking)} ELSE {})
     /\ session' = Nothing /\ UNCHANGED confirmed

\* setAuthSession: all the effects run again.
EffectsOfSession == requests' = AskedAgain(OfSession, session', selected)

\* What activateAuthSession makes the page wait for.
Awaited == {"list", "history"} \cup (IF selected # Nothing THEN {"preview"} ELSE {})

CheckAnswered ==
  /\ checking # Nothing /\ checking' = Nothing
  /\ FetchAuthMe /\ EffectsOfSession
  /\ loading' = IF session' = Nothing THEN {} ELSE loading \ {"auth"}
  /\ UNCHANGED <<serverVars, login, widget, buildVars, creating>>

\* The page shows a skeleton until the login is answered, and the host that the
\* widget is drawn in goes; the effect that draws it does not run again.
BeginsLogin(kind) ==
  /\ login' = kind /\ loading' = loading \cup {"auth"}
  /\ widget' = IF widget = "shown" THEN "lost" ELSE widget

StartLogin ==
  /\ ~IsLoading /\ login = "none"
  /\ \/ BeginsLogin("button")
     \/ widget = "shown" /\ BeginsLogin("widget")
  /\ UNCHANGED <<stored, serverVars, session, checking, confirmed,
                 requests, buildVars, creating>>

\* loginWithTelegram outside of Telegram.
ShowWidget ==
  /\ ~IsLoading /\ widget = "hidden" /\ widget' = "shown"
  /\ UNCHANGED <<stored, serverVars, session, checking, confirmed, login,
                 loading, requests, buildVars, creating>>

LoginAnswered ==
  /\ login # "none" /\ login' = "none"
  /\ \/ /\ RequestAuth /\ EffectsOfSession
        /\ loading' = (loading \ {"auth"}) \cup Awaited
        /\ widget' = IF login = "widget" THEN "hidden" ELSE widget
     \/ /\ loading' = loading \ {"auth"}
        /\ UNCHANGED <<stored, issued, session, confirmed, requests, widget>>
  /\ UNCHANGED <<ended, checking, buildVars, creating>>

-----------------------------------------------------------------------------
(***************************************************************************)
(* The builds: the list, the history, the preview and the selection.       *)
(***************************************************************************)
\* The list comes; the first build is selected if the effect knew of none.
ListAnswered(request) ==
  /\ IsHeard(request) /\ request.kind = "list"
  /\ \/ \E items \in {{}, Build}, first \in BuildOrNothing :
          /\ builds' = items
          /\ first \in IF items = {} THEN {Nothing} ELSE items
          /\ IF request.selected = Nothing /\ items # {}
             THEN /\ selected' = first
                  /\ requests' = AskedAgain(OfSelection, session, first) \ {request}
                  /\ loading' = (loading \ {"list"}) \cup {"preview"}
             ELSE /\ requests' = requests \ {request}
                  /\ loading' = loading \ {"list"} /\ UNCHANGED selected
     \/ /\ requests' = requests \ {request} /\ loading' = loading \ {"list"}
        /\ UNCHANGED <<builds, selected>>
  /\ UNCHANGED <<link, preview>>

\* The preview comes, or there is none.
PreviewAnswered(request) ==
  /\ IsHeard(request) /\ request.kind = "preview"
  /\ preview' \in {preview, request.selected}
  /\ loading' = loading \ {"preview"} /\ requests' = requests \ {request}
  /\ UNCHANGED <<builds, link, selected>>

HistoryAnswered(request) ==
  /\ IsHeard(request) /\ request.kind = "history"
  /\ loading' = loading \ {"history"} /\ requests' = requests \ {request}
  /\ UNCHANGED buildVars

AnswerIgnored(request) ==
  /\ ~IsHeard(request)
  /\ requests' = requests \ {request} /\ UNCHANGED <<loading, buildVars>>

RequestAnswered ==
  /\ \E request \in requests :
       \/ ListAnswered(request) \/ PreviewAnswered(request)
       \/ HistoryAnswered(request) \/ AnswerIgnored(request)
  /\ UNCHANGED <<stored, serverVars, session, loginVars, creating>>

SelectComposition ==
  /\ ~IsLoading /\ selected # Nothing
  /\ \E build \in builds \ {selected} :
       /\ selected' = build /\ preview' = Nothing
       /\ requests' = AskedAgain(OfSelection, session, build)
  /\ loading' = loading \cup {"preview"}
  /\ UNCHANGED <<stored, serverVars, session, loginVars, builds, link, creating>>

-----------------------------------------------------------------------------
(***************************************************************************)
(* The room.                                                               *)
(***************************************************************************)
\* The button is enabled.
CanCreate ==
  /\ ~IsLoading /\ creating = Nothing
  /\ loading \cap {"auth", "list", "preview"} = {}
  /\ selected # Nothing /\ session # Nothing

CreateRoom ==
  /\ CanCreate
  /\ creating' = session
  /\ UNCHANGED <<stored, serverVars, session, loginVars, loading, requests, buildVars>>

\* The room is shown, and its address takes the place of the page's link.
RoomAnswered ==
  /\ creating # Nothing /\ creating' = Nothing
  /\ \/ creating \notin ended /\ link' = Nothing
     \/ UNCHANGED link
  /\ UNCHANGED <<stored, serverVars, session, loginVars, loading, requests, builds,
                 selected, preview>>

-----------------------------------------------------------------------------
(***************************************************************************)
(* The page opened anew, the other tabs and the server.                    *)
(***************************************************************************)
PageReloaded ==
  /\ stored' \in Readings /\ session' = stored' /\ checking' = stored'
  /\ confirmed' = {} /\ login' = "none" /\ widget' = "hidden"
  /\ loading' = LoadingAtFirst(stored', link)
  /\ requests' = Asked(OfSession, stored', link)
  /\ builds' = {} /\ selected' = link /\ preview' = Nothing
  /\ creating' = Nothing
  /\ UNCHANGED <<link, serverVars>>

\* Another tab logs in, or has its session confirmed or refused.
OtherTab ==
  /\ \/ \E token \in Token \ issued : issued' = issued \cup {token} /\ stored' = token
     \/ \E token \in issued :
          /\ stored' = IF token \in ended THEN Cleared(token) ELSE token
          /\ UNCHANGED issued
  /\ UNCHANGED <<ended, session, loginVars, loading, requests, buildVars, creating>>

SessionEnds ==
  /\ \E token \in issued \ ended : ended' = ended \cup {token}
  /\ UNCHANGED <<stored, issued, session, loginVars, loading, requests, buildVars,
                 creating>>

Turn ==
  \/ StartLogin \/ ShowWidget \/ SelectComposition
  \/ PageReloaded \/ OtherTab \/ SessionEnds

CreationNext ==
  \/ turns < MaxTurns /\ turns' = turns + 1 /\ Turn
  \/ /\ CheckAnswered \/ LoginAnswered \/ RequestAnswered
        \/ CreateRoom \/ RoomAnswered
     /\ UNCHANGED turns

CreationSpec == CreationInit /\ [][CreationNext]_creationVars

-----------------------------------------------------------------------------
(***************************************************************************)
(* Properties.                                                             *)
(***************************************************************************)
\* The preview that is shown is the one of the selected build: the answer to
\* an earlier selection does not replace it (RoomCreatePage.tsx, the disposed
\* flag of the preview's effect).
PreviewIsOfSelection == preview \in {Nothing, selected}

\* A page with a session does not wait for nothing: whatever a flag makes it
\* wait for has been asked and will be heard.
WaitsEnd ==
  /\ "auth" \in loading => checking # Nothing \/ login # "none"
  /\ session # Nothing =>
       \A kind \in loading \ {"auth"} :
         \E request \in requests : request.kind = kind /\ IsHeard(request)

\* A room is requested with a session that the server has confirmed since the
\* page was opened, never with one that was only found in the storage.
RoomsNeedCheckedSession == creating # Nothing => creating \in confirmed

\* The page that creates rooms shows what is selected, waits only for what will
\* be answered, and uses only a session that the server has confirmed.
CreationInv ==
  /\ CreationTypeOK
  /\ PreviewIsOfSelection
  /\ WaitsEnd
  /\ RoomsNeedCheckedSession

\* A session leaves the storage only once the server refuses it: the refusal
\* of an older one, which comes late, does not log the user out (auth.ts,
\* clearLocalAuthSession).
OnlyRefusedIsForgotten ==
  [][stored # Nothing /\ stored' = Nothing => stored \in ended]_stored

\* Not so after a failed check: the builds are still listed, and the preview
\* of the one that is selected then is never asked for.
NoEndlessSkeleton ==
  "preview" \in loading =>
    \E request \in requests : request.kind = "preview" /\ IsHeard(request)

\* Not so once a login has failed: outside of Telegram the page has no way to
\* log in until it is opened anew.
LoginStaysPossible ==
  session = Nothing /\ ~IsLoading => widget # "lost"

=============================================================================
