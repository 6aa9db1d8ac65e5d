----------------------------- MODULE MCWorkbench -----------------------------
(***************************************************************************)
(* A TLC instance of the services of the browser side by side: the         *)
(* terminals, the realtime connection, the saving of an editor, the        *)
(* explorer, the package panel, the search panel, and the share dialogs.   *)
(* They share no state that the models keep, so an execution runs one of   *)
(* them, chosen at the start, and leaves the others alone.                 *)
(***************************************************************************)
EXTENDS TerminalClient, RealtimeClient, EditorSaves, Explorer,
        PackageHub, WorkspaceSearch, ShareDialog

CONSTANTS p1, p2, i1, i2, f1

VARIABLE service  \* the one that runs

MCBefore == {[i \in Items |-> IF i = i1 THEN p1 ELSE q] : q \in {NoProject, p2}}
MCExisting == {Shareable, Shareable \ {f1}}

workbenchVars == <<service, terminalVars, realtimeVars, editorVars, explorerVars,
                   hubPanelVars, searchPanelVars, shareVars>>

Init ==
  /\ service \in {"terminal", "realtime", "editor", "explorer", "packages", "search", "share"}
  /\ TerminalInit /\ RealtimeInit /\ EditorInit /\ ExplorerInit
  /\ HubInit /\ SearchInit /\ ShareInit
  /\ service # "explorer" => \A m \in Members : scoped[m] = NoProject
  /\ service # "explorer" => \A i \in Items \ {i1} : place[i] = NoProject
  /\ service # "share" => \A e \in Shareable : rows[e].exists

RunTerminal(A) ==
  /\ service = "terminal" /\ A
  /\ UNCHANGED <<service, realtimeVars, editorVars, explorerVars, hubPanelVars,
                 searchPanelVars, shareVars>>
RunRealtime(A) ==
  /\ service = "realtime" /\ A
  /\ UNCHANGED <<service, terminalVars, editorVars, explorerVars, hubPanelVars,
                 searchPanelVars, shareVars>>
RunEditor(A) ==
  /\ service = "editor" /\ A
  /\ UNCHANGED <<service, terminalVars, realtimeVars, explorerVars, hubPanelVars,
                 searchPanelVars, shareVars>>
RunExplorer(A) ==
  /\ service = "explorer" /\ A
  /\ UNCHANGED <<service, terminalVars, realtimeVars, editorVars, hubPanelVars,
                 searchPanelVars, shareVars>>
RunPackages(A) ==
  /\ service = "packages" /\ A
  /\ UNCHANGED <<service, terminalVars, realtimeVars, editorVars, explorerVars,
                 searchPanelVars, shareVars>>
RunSearch(A) ==
  /\ service = "search" /\ A
  /\ UNCHANGED <<service, terminalVars, realtimeVars, editorVars, explorerVars,
                 hubPanelVars, shareVars>>
RunShare(A) ==
  /\ service = "share" /\ A
  /\ UNCHANGED <<service, terminalVars, realtimeVars, editorVars, explorerVars,
                 hubPanelVars, searchPanelVars>>

Next ==
  \/ RunTerminal(TerminalNext) \/ RunRealtime(RealtimeNext)
  \/ RunEditor(EditorNext) \/ RunExplorer(ExplorerNext)
  \/ RunPackages(HubNext) \/ RunSearch(SearchNext) \/ RunShare(ShareNext)

(* The fairness of RealtimeSpec and EditorSpec.                            *)
Spec ==
  /\ Init /\ [][Next]_workbenchVars
  /\ WF_realtimeVars(service = "realtime" /\ RealtimeProgress)
  /\ WF_editorVars(service = "editor" /\ EditorProgress)

(* The type invariants of the seven services.                              *)
TypeOK ==
  /\ TerminalTypeOK /\ RealtimeTypeOK /\ EditorTypeOK /\ ExplorerTypeOK
  /\ HubTypeOK /\ SearchTypeOK /\ ShareTypeOK
(* Every editor that stays open ends up a member of its document or        *)
(* refused, and what the user wrote last ends up stored (realtime.service  *)
(* OnConnect, editor ngOnDestroy and its save timer).                      *)
ServicesSettle == EventuallyJoined /\ EventuallyStored
=============================================================================
