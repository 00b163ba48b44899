---------------------------- MODULE MCFlowEdits ----------------------------
(***************************************************************************)
(* Instances of FlowEdits for TLC: editors that do less than the code lets  *)
(* them.                                                                    *)
(***************************************************************************)
EXTENDS FlowEdits

\* Only the layout of nodes is edited, and nodes are deleted and restored.
LayoutSpec ==
    EditorInit /\ [][EditorNext /\ \A n \in Nodes : shown'[n].config = {}]_editorVars

\* Only configurations are edited.
ConfigSpec ==
    EditorInit /\ [][EditorNext /\ \A n \in Nodes : shown'[n].exists <=> shown[n].exists]_editorVars
=============================================================================
