----------------------------- MODULE CallGraphPanel -----------------------------
(***************************************************************************)
(* The call-graph pane beside the window: the scene of CallGraphView with  *)
(* its selected node, and the table of isolated subgraphs, which follow    *)
(* the window and each other and which the user can move on their own.     *)
(*                                                                         *)
(* As in MainWindow every handler is an operator from a pane to a pane (a  *)
(* record, "p").  graph_ and activeFunction_ of the view are window.graph  *)
(* and window.active.  A Qt view that is handed the event after one of     *)
(* these handlers is taken to change no selection of its own.              *)
(***************************************************************************)
EXTENDS MainWindow

CONSTANT Subgraphs   \* for a valid session: what CallGraphLayoutEngine::layout finds

ASSUME SubgraphsAssumption ==
  /\ DOMAIN Subgraphs = {s \in Sessions : s.valid}
  /\ \A s \in DOMAIN Subgraphs :
       /\ Subgraphs[s] \in Seq(SUBSET Nat)
       /\ \A i, j \in 1 .. Len(Subgraphs[s]) :
            i # j => Subgraphs[s][i] \cap Subgraphs[s][j] = {}
       /\ ToSet(s.functions) \subseteq UNION ToSet(Subgraphs[s])

VARIABLE panel   \* components, rows, selected and row

EmptyPanel ==
  [components |-> <<>>,          \* components_ of the view
   rows       |-> <<>>,          \* components_ of the table's model
   selected   |-> NoFunction,    \* the selected node
   row        |-> 0]             \* the selected row of the table

NodesOf(components) == UNION ToSet(components)

--------------------------------------------------------------------------------
(***************************************************************************)
(* The handlers.                                                           *)
(***************************************************************************)

ComponentIndex(p, a) == {i \in 1 .. Len(p.components) : a \in p.components[i]}

\* selectComponentForAddress; the table's signals are blocked.
SelectedComponent(p, a) ==
  IF ComponentIndex(p, a) \cap (1 .. Len(p.rows)) = {}
    THEN p
    ELSE [p EXCEPT !.row = CHOOSE i \in ComponentIndex(p, a) : TRUE]

\* Mutation: the table is not told that nothing is selected any more.
SelectionUpdatedIfAny(p) ==
  IF p.selected = NoFunction THEN p ELSE SelectedComponent(p, p.selected)

\* updateSelectionState and the handler that the panel has set
SelectionUpdated(p) ==
  IF p.selected = NoFunction THEN [p EXCEPT !.row = 0] ELSE SelectedComponent(p, p.selected)

\* The address that stands for none in activeFunction_.
NoAddress == 0

\* rebuildScene(true) restores the selection, rebuildScene(false) the active node; a
\* node at the address that stands for none is not restored.
Rebuilt(p, components, active, preserve) ==
  LET restored == IF preserve /\ p.selected # NoFunction THEN p.selected ELSE active
  IN  SelectionUpdated(
        [p EXCEPT !.components = components,
                  !.selected = IF restored \in NodesOf(components) \ {NoAddress}
                                 THEN restored ELSE NoFunction])

\* A new model has no selected row.
ComponentsSet(p) == [p EXCEPT !.rows = p.components, !.row = 0]

\* setGraph
GraphSet(p, s) ==
  LET filled == ComponentsSet(Rebuilt(p, Subgraphs[s], NoFunction, FALSE))
  IN  IF filled.rows = <<>> THEN filled ELSE [filled EXCEPT !.row = 1]

\* clearGraph; the handlers are off while the scene is cleared.
GraphCleared(p) == ComponentsSet([p EXCEPT !.components = <<>>, !.selected = NoFunction])

\* setActiveFunction
ActiveFunctionSet(p, f) ==
  SelectedComponent(
    IF f \in NodesOf(p.components) THEN SelectionUpdated([p EXCEPT !.selected = f]) ELSE p, f)

\* scene()->clearSelection tells only when something was selected.
SelectionCleared(p) ==
  IF p.selected = NoFunction THEN p ELSE SelectionUpdated([p EXCEPT !.selected = NoFunction])

--------------------------------------------------------------------------------
(***************************************************************************)
(* The pane during a step of the window: clearAnalysisViews clears the     *)
(* graph, a load that succeeds sets it, and displayFunction, which is what *)
(* changes window.active, sets the active function.                        *)
(***************************************************************************)

Following ==
  LET loaded    == phase = "loading" /\ phase' = "idle" /\ session'.valid
      populated == IF loaded THEN GraphSet(panel, session') ELSE panel
  IN  panel' =
        IF phase # "loading" /\ phase' = "loading" THEN GraphCleared(panel)
        ELSE IF window'.active # window.active
               THEN ActiveFunctionSet(populated, window'.active)
               ELSE populated

\* A press of the left button, or the context menu, on a node.  The release on a
\* node, or "Open Function" of the menu, is a NavigateTo of the window.
PressNode(a) ==
  /\ phase = "idle"
  /\ a \in NodesOf(panel.components)
  /\ panel' = SelectionUpdated([SelectionCleared(panel) EXCEPT !.selected = a])
  /\ UNCHANGED vars

\* A press of the left button beside the nodes.
PressBackground ==
  /\ phase = "idle"
  /\ panel' = SelectionCleared(panel)
  /\ UNCHANGED vars

\* A click into the table, or the cursor keys: the view shows the subgraph, and
\* selects nothing.
ClickComponent(i) ==
  /\ phase = "idle"
  /\ i \in 1 .. Len(panel.rows)
  /\ panel' = [panel EXCEPT !.row = i]
  /\ UNCHANGED vars

RefreshLayout ==
  /\ phase = "idle"
  /\ panel' =
       IF window.graph = "none"
         THEN GraphCleared(panel)
         ELSE LET p == ComponentsSet(Rebuilt(panel, Subgraphs[session], window.active, TRUE))
              IN  IF p.selected = NoFunction THEN p ELSE SelectedComponent(p, p.selected)
  /\ UNCHANGED vars

PanelStep ==
  \/ \E a \in NodesOf(panel.components) : PressNode(a)
  \/ PressBackground
  \/ \E i \in 1 .. Len(panel.rows) : ClickComponent(i)
  \/ RefreshLayout

PanelInit == Init /\ panel = EmptyPanel

PanelSpec == PanelInit /\ [][(Next /\ Following) \/ PanelStep]_<<vars, panel>>

--------------------------------------------------------------------------------
(***************************************************************************)
(* Properties.                                                             *)
(***************************************************************************)

\* The table marks the subgraph of the selected node, or nothing.
RowFollows(p) ==
  IF p.selected = NoFunction THEN p.row = 0 ELSE ComponentIndex(p, p.selected) = {p.row}

\* The view and the table show the subgraphs of the session there is, and none while
\* the next one is loaded.
ShowsSession ==
  LET shown == IF phase # "loading" /\ session.valid THEN Subgraphs[session] ELSE <<>>
  IN  panel.components = shown /\ panel.rows = shown

(***************************************************************************)
(* The pane keeps up with the window: it shows the session there is; a     *)
(* function that is shown becomes the selected node, also after the user   *)
(* has selected another node or row; a change of the node, from either     *)
(* side, moves the row of the table to its subgraph; and a new layout      *)
(* keeps the selected node and its row, unless the node is at address 0,   *)
(* and then nothing is left selected on either side.                       *)
(***************************************************************************)
PanelFollows ==
  /\ []ShowsSession
  /\ [][/\ window'.current # window.current => panel'.selected = window'.current
        /\ panel'.selected # panel.selected \/ window'.current # window.current
             => RowFollows(panel')
        /\ RefreshLayout =>
             /\ panel.selected = NoAddress => panel'.selected = NoFunction
             /\ panel.selected \notin {NoFunction, NoAddress} => panel'.selected = panel.selected
             /\ RowFollows(panel')]_<<vars, panel>>

================================================================================
