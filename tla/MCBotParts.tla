----------------------------- MODULE MCBotParts -----------------------------
(***************************************************************************)
(* The components around a composition on the server and in the bot, side  *)
(* by side: every behavior runs one of them, and the others stay in their  *)
(* initial state. Two requests at a time for a composition with two        *)
(* layouts; the panel with one refresh besides the updates; four pictures, *)
(* of which an upload may have three; a list with pages of one             *)
(* composition, at most two updates that wait, and a session that          *)
(* remembers one failed deletion.                                          *)
(***************************************************************************)
EXTENDS CompositionStore, UploadPanel, UploadImages, BotNavigation, TLC

CONSTANT Parts

VARIABLE part

BotInit ==
  /\ part \in Parts /\ StoreInit /\ PanelInit /\ ImagesInit /\ NavigationInit
  /\ part # "navigation" => created = 0

Stays(name, partVars) == part # name => UNCHANGED partVars

BotNext ==
  /\ \/ part = "store" /\ StoreNext
     \/ part = "panel" /\ PanelNext
     \/ part = "images" /\ ImagesNext
     \/ part = "navigation" /\ NavigationNext
  /\ Stays("store", storeVars) /\ Stays("panel", panelVars) /\ Stays("images", imagesVars)
  /\ Stays("navigation", navVars)
  /\ UNCHANGED part

botPartsVars == <<part, storeVars, panelVars, imagesVars, navVars>>

BotSpec == BotInit /\ [][BotNext]_botPartsVars

CallSymmetry == Permutations(Call) \cup Permutations(Layout)
=============================================================================
