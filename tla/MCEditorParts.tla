--------------------------- MODULE MCEditorParts ---------------------------
(***************************************************************************)
(* The two halves of the composition editor, side by side: every behavior  *)
(* runs one of them, and the other stays in its initial state. A layout of *)
(* two images on a canvas of two or three units; two compositions.         *)
(***************************************************************************)
EXTENDS EditorDocument, CompositionSession

CONSTANTS Parts

VARIABLE part

Image(id, x, width) == [id |-> id, x |-> x, width |-> width, z |-> 0, scale |-> 0]
TwoImages == {[canvas |-> 2, items |-> <<Image("a", 0, 1), Image("b", 0, 2)>>]}

EditorPartsInit ==
  /\ part \in Parts
  /\ EditorInit /\ CompositionInit
  /\ part # "session" => remote = NoComposition /\ authSession = "none"

EditorPartsNext ==
  /\ \/ part = "document" /\ EditorNext /\ UNCHANGED compositionVars
     \/ part = "session" /\ CompositionNext /\ UNCHANGED editorVars
  /\ UNCHANGED part

EditorPartsSpec ==
  EditorPartsInit /\ [][EditorPartsNext]_<<part, editorVars, compositionVars>>
=============================================================================
