------------------------- MODULE CompositionSession -------------------------
(***************************************************************************)
(* Which composition the editor has open: the login it needs, the list of  *)
(* the user's compositions, the loads that bring a layout, and the saves   *)
(* and renders that send it, with their answers in any order.  A layout is *)
(* the composition that it was loaded from.  The effects of React that a   *)
(* change of state triggers are part of the step that changes the state.   *)
(***************************************************************************)
EXTENDS Naturals, Bags, BagsExt

CONSTANTS
  Compositions,
  NoComposition,
  MaxRequests    \* bound: loads, and saves, in flight at a time

ASSUME NoCompositionAssumption == NoComposition \notin Compositions
ASSUME MaxRequestsAssumption == MaxRequests \in Nat \ {0}

VARIABLES
  authSession,   \* none, stored (and being checked), restored, or linked
  loginPending,
  remote,        \* remoteComposition
  selected,      \* selectedComposition
  listAsked,     \* a list that the effect has not disposed of is in flight
  listed,        \* compositions is not empty
  settledToken,
  loads, sends,  \* bags of the requests in flight
  isCompositionLoading,
  didLoadRemote,
  opened         \* where the layout of the document was loaded from

compositionVars == <<authSession, loginPending, remote, selected, listAsked, listed,
                     settledToken, loads, sends, isCompositionLoading,
                     didLoadRemote, opened>>
authVars == <<authSession, loginPending>>

Token(session) == IF session \in {"stored", "restored"} THEN "old" ELSE session

CompositionTypeOK ==
  /\ authSession \in {"none", "stored", "restored", "linked"}
  /\ {loginPending, listAsked, listed, isCompositionLoading, didLoadRemote}
       \subseteq BOOLEAN
  /\ {remote, selected, opened} \subseteq Compositions \cup {NoComposition}
  /\ settledToken \in {"none", "old", "linked"}
  /\ BagToSet(loads) \subseteq [composition: Compositions, byEffect: BOOLEAN]
  /\ BagToSet(sends) \subseteq [composition: Compositions, type: {"save", "render"},
                                layout: Compositions \cup {NoComposition}]

-----------------------------------------------------------------------------
(***************************************************************************)
(* What the page shows: the gate, the skeleton or the editor.              *)
(***************************************************************************)
AuthLoading == loginPending \/ authSession = "stored"
IsLoading == \/ isCompositionLoading
             \/ authSession # "none" /\ settledToken # Token(authSession)
GateShown == remote # NoComposition /\ authSession = "none"
EditorShown == ~GateShown /\ ~AuthLoading /\ ~IsLoading

-----------------------------------------------------------------------------
(***************************************************************************)
(* The effects: the list is fetched again, and a composition that nobody   *)
(* has loaded yet is loaded, when what they depend on changes.             *)
(***************************************************************************)
LoadsRemote(session, composition, did) ==
  ~did /\ composition # NoComposition /\ session # "none"

\* Mutant: the list is fetched only once.
AsksListOnce(session) == listAsked
AsksList(session) == session # "none"

\* The session and the open composition become these; ended are the loads left.
Effects(session, composition, did, ended, loading) ==
  LET loadsIt == LoadsRemote(session, composition, did)
      request == [composition |-> composition, byEffect |-> TRUE] IN
  /\ authSession' = session /\ remote' = composition
  /\ listAsked' = AsksList(session)
  /\ didLoadRemote' = (did \/ loadsIt)
  /\ loads' = IF loadsIt THEN BagAdd(ended, request) ELSE ended
  /\ isCompositionLoading' = (loading \/ loadsIt)

CompositionInit ==
  /\ authSession \in {"none", "stored"} /\ loginPending = FALSE
  /\ remote \in Compositions \cup {NoComposition}   \* from the link
  /\ selected = NoComposition /\ listed = FALSE /\ settledToken = "none"
  /\ listAsked = (authSession # "none")
  /\ didLoadRemote = LoadsRemote(authSession, remote, FALSE)
  /\ isCompositionLoading = didLoadRemote
  /\ loads = IF didLoadRemote
             THEN SetToBag({[composition |-> remote, byEffect |-> TRUE]}) ELSE EmptyBag
  /\ sends = EmptyBag /\ opened = NoComposition

\* loadComposition, up to its request.
BeginsLoad(composition) ==
  /\ loads' = BagAdd(loads, [composition |-> composition, byEffect |-> FALSE])
  /\ isCompositionLoading' = TRUE

\* fetchAuthMe has answered for the stored session.
SessionChecked ==
  /\ authSession = "stored"
  /\ \E session \in {"restored", "none"} :
       Effects(session, remote, didLoadRemote, loads, isCompositionLoading)
  /\ UNCHANGED <<loginPending, selected, listed, settledToken, sends, opened>>

StartLogin ==
  /\ GateShown \/ EditorShown
  /\ authSession # "linked" /\ ~loginPending /\ loginPending' = TRUE
  /\ UNCHANGED <<authSession, remote, selected, listAsked, listed, settledToken,
                 loads, sends, isCompositionLoading, didLoadRemote, opened>>
LoginAnswered ==
  /\ loginPending /\ loginPending' = FALSE
  /\ \/ Effects("linked", remote, didLoadRemote, loads, isCompositionLoading)
     \/ UNCHANGED <<authSession, remote, listAsked, loads, isCompositionLoading,
                    didLoadRemote>>
  /\ UNCHANGED <<selected, listed, settledToken, sends, opened>>

\* The list of compositions: the first one is opened if none is.
ListAnswered ==
  /\ listAsked
  /\ settledToken' = Token(authSession)
  /\ \/ \E first \in Compositions :
          /\ listed' = TRUE
          /\ IF remote = NoComposition /\ selected = NoComposition
             THEN /\ selected' = first /\ BeginsLoad(first)
                  /\ UNCHANGED listAsked   \* it is fetched again
             ELSE /\ listAsked' = FALSE
                  /\ UNCHANGED <<selected, loads, isCompositionLoading>>
     \/ \E fails \in BOOLEAN :
          /\ listed' = (fails /\ listed) /\ listAsked' = FALSE
          /\ UNCHANGED <<selected, loads, isCompositionLoading>>
  /\ UNCHANGED <<authVars, remote, sends, didLoadRemote, opened>>

SelectComposition ==
  /\ EditorShown /\ listed /\ authSession # "none"
  /\ BagCardinality(loads) < MaxRequests
  /\ \E composition \in Compositions : selected' = composition /\ BeginsLoad(composition)
  /\ listAsked' = TRUE
  /\ UNCHANGED <<authVars, remote, listed, settledToken, sends, didLoadRemote, opened>>

LoadFromCode ==
  /\ EditorShown /\ authSession # "none" /\ BagCardinality(loads) < MaxRequests
  /\ \E composition \in Compositions : BeginsLoad(composition)
  /\ UNCHANGED <<authVars, remote, selected, listAsked, listed, settledToken, sends,
                 didLoadRemote, opened>>

\* Mutant: a layout that cannot be applied is dropped, and its composition opened.
LoadAnsweredEmpty ==
  \E load \in BagToSet(loads) :
    /\ Effects(authSession, load.composition, didLoadRemote, BagRemove(loads, load), FALSE)
    /\ UNCHANGED <<loginPending, selected, listed, settledToken, sends, opened>>

\* The answer brings the layout and the composition together.
LoadAnswered ==
  \E load \in BagToSet(loads) :
    LET others == BagRemove(loads, load) IN
    /\ \/ /\ opened' = load.composition
          /\ Effects(authSession, load.composition, didLoadRemote, others, FALSE)
       \/ /\ loads' = others /\ isCompositionLoading' = FALSE
          /\ didLoadRemote' = (didLoadRemote /\ ~load.byEffect)
          /\ UNCHANGED <<authSession, remote, listAsked, opened>>
    /\ UNCHANGED <<loginPending, selected, listed, settledToken, sends>>

\* save (also by its shortcut, whatever is shown) and render send the layout of
\* the document to the remote composition.
Sends(type) ==
  /\ remote # NoComposition /\ authSession # "none"
  /\ BagCardinality(sends) < MaxRequests
  /\ sends' = BagAdd(sends, [composition |-> remote, type |-> type, layout |-> opened])
  /\ UNCHANGED <<authVars, remote, selected, listAsked, listed, settledToken, loads,
                 isCompositionLoading, didLoadRemote, opened>>
Save == Sends("save")
Render == EditorShown /\ Sends("render")

\* The answer to a save or a render opens its composition, whatever came between.
SendAnswered ==
  \E send \in BagToSet(sends) :
    /\ sends' = BagRemove(sends, send)
    /\ \/ Effects(authSession, send.composition, didLoadRemote, loads,
                  isCompositionLoading)
       \/ UNCHANGED <<authSession, remote, listAsked, loads, isCompositionLoading,
                      didLoadRemote>>
    /\ UNCHANGED <<loginPending, selected, listed, settledToken, opened>>

CompositionNext ==
  \/ SessionChecked \/ StartLogin \/ LoginAnswered \/ ListAnswered
  \/ SelectComposition \/ LoadFromCode \/ LoadAnswered
  \/ Save \/ Render \/ SendAnswered

CompositionSpec == CompositionInit /\ [][CompositionNext]_compositionVars

-----------------------------------------------------------------------------
(***************************************************************************)
(* The editor is never hidden for good: while the skeleton stands for a    *)
(* load or a list, its answer is still to come (isLoading, the finally of  *)
(* loadComposition and the disposed flag of the list).                     *)
(***************************************************************************)
SkeletonIsTemporary ==
  IsLoading => listAsked \/ BagToSet(loads) # {}

\* The editor's session waits only for requests that are under way, in whatever
\* order they are answered.
CompositionInv ==
  /\ CompositionTypeOK
  /\ SkeletonIsTemporary

(***************************************************************************)
(* What is open and what the document holds part in one way only: by the   *)
(* answer to a save or a render of a composition that has been left.       *)
(* Loads, lists and logins keep them together in every order of answers.   *)
(***************************************************************************)
OnlyLateAnswersSplit ==
  [][remote = opened /\ remote' # opened'
       => \E send \in BagToSet(sends) : /\ sends' = BagRemove(sends, send)
                                        /\ send.composition = remote'
                                        /\ send.composition # opened]_compositionVars

(***************************************************************************)
(* A layout is saved to and rendered for the composition it was loaded     *)
(* from, never an empty one or that of another (save, render).             *)
(***************************************************************************)
LayoutsGoHome == \A send \in BagToSet(sends) : send.layout = send.composition
=============================================================================
