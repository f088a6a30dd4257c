--------------------------- MODULE AssemblyGraphTable ---------------------------
(***************************************************************************)
(* The arrows that AssemblyGraphTable draws beside the rows of a listing.  *)
(* assignFlowLanes gives each of them one of a fixed number of lanes, from *)
(* the top of the listing to its end, one arrow per step.                  *)
(***************************************************************************)
EXTENDS Integers, FiniteSets, Sequences

CONSTANT MaximumFlowLanes   \* 12 in the code

ASSUME LanesAssumption == MaximumFlowLanes \in Nat \ {0}

VARIABLES
  flowEdges,    \* flowEdges_: rows of the jump and of its target
  lane,         \* the lane of every arrow placed so far
  laneEndRows   \* the last row of the arrow that was put last on a lane

Lanes == 0 .. MaximumFlowLanes - 1

FlowEdge == [sourceRow : Nat, targetRow : Nat]

\* Less than every row: numeric_limits<int>::min().
NoRow == -1

Unused == [l \in Lanes |-> NoRow]

tableVars == <<flowEdges, lane, laneEndRows>>

TableInit == flowEdges = <<>> /\ lane = <<>> /\ laneEndRows = Unused

--------------------------------------------------------------------------------
(***************************************************************************)
(* assignFlowLanes.                                                        *)
(***************************************************************************)

IntervalStart(e) ==
  IF flowEdges[e].sourceRow < flowEdges[e].targetRow THEN flowEdges[e].sourceRow
                                                     ELSE flowEdges[e].targetRow

IntervalEnd(e) ==
  IF flowEdges[e].sourceRow < flowEdges[e].targetRow THEN flowEdges[e].targetRow
                                                     ELSE flowEdges[e].sourceRow

Span(e) == IntervalEnd(e) - IntervalStart(e)

Unplaced == DOMAIN flowEdges \ DOMAIN lane

\* Mutation: the arrows are placed in the order of their jumps.
ComesFirstBySource(e) == \A d \in Unplaced : flowEdges[e].sourceRow <= flowEdges[d].sourceRow

\* The order of the sort: from the top, the longer of two first. Arrows that are
\* equal in both may come in either order.
ComesFirst(e) ==
  \A d \in Unplaced :
    \/ IntervalStart(e) < IntervalStart(d)
    \/ IntervalStart(e) = IntervalStart(d) /\ Span(e) >= Span(d)

FreeLanes(e) == {l \in Lanes : laneEndRows[l] < IntervalStart(e)}

\* The first lane that is free, or any when none is.
SelectedLane(e) ==
  IF FreeLanes(e) = {} THEN IntervalStart(e) % MaximumFlowLanes
  ELSE CHOOSE l \in FreeLanes(e) : \A k \in FreeLanes(e) : l <= k

PlaceEdge(e) ==
  /\ ComesFirst(e)
  /\ lane' = [d \in DOMAIN lane \cup {e} |-> IF d = e THEN SelectedLane(e) ELSE lane[d]]
  /\ laneEndRows' = [laneEndRows EXCEPT ![SelectedLane(e)] = IntervalEnd(e)]
  /\ UNCHANGED flowEdges

AssignFlowLane == \E e \in Unplaced : PlaceEdge(e)

SetFlowEdges(edges) ==
  /\ Unplaced = {}
  /\ flowEdges' = edges
  /\ lane' = <<>> /\ laneEndRows' = Unused

ClearFlowEdges ==
  /\ Unplaced = {}
  /\ flowEdges' = <<>>
  /\ lane' = <<>> /\ laneEndRows' = Unused

\* The arrows of any listing.
TableNext ==
  \/ \E edges \in Seq(FlowEdge) : SetFlowEdges(edges)
  \/ AssignFlowLane
  \/ ClearFlowEdges

TableSpec == TableInit /\ [][TableNext]_tableVars

--------------------------------------------------------------------------------
(***************************************************************************)
(* Properties.                                                             *)
(***************************************************************************)

Passes(e, row) == IntervalStart(e) <= row /\ row <= IntervalEnd(e)

\* The arrows that pass a row.
Passing(row) == {e \in DOMAIN flowEdges : Passes(e, row)}

EnoughLanes ==
  \A e \in DOMAIN flowEdges : Cardinality(Passing(IntervalStart(e))) <= MaximumFlowLanes

(***************************************************************************)
(* Where no row is passed by more arrows than there are lanes, no two      *)
(* arrows on one lane share a row: the first lane that is free is taken,   *)
(* in the order of the first rows, and one always is.  (One row with too   *)
(* many is enough to lose this for all rows below it, because the lane     *)
(* that is shared there may be recorded as ending too early.)              *)
(***************************************************************************)
LanesDisjoint ==
  EnoughLanes =>
    \A d, e \in DOMAIN lane :
      d # e /\ lane[d] = lane[e] =>
        IntervalEnd(d) < IntervalStart(e) \/ IntervalEnd(e) < IntervalStart(d)

================================================================================
