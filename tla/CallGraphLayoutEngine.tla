------------------------- MODULE CallGraphLayoutEngine -------------------------
(***************************************************************************)
(* CallGraphLayoutEngine::layout, called by CallGraphView::rebuildScene    *)
(* with a built CallGraph: the components of the graph are searched, then  *)
(* each of them is put into layers and placed beside the one before it, or *)
(* into a new row.  Every search takes one node from its queue per step.   *)
(*                                                                         *)
(* Lengths are counted in half pixels, which makes all of them integers.   *)
(***************************************************************************)
EXTENDS CallGraph

CONSTANT Mains   \* the addresses of functions that are named main

ASSUME MainsAssumption == Mains \subseteq Nat

VARIABLES
  stage,       \* "idle", "components", "sorted", "layers", "distances" or "done"
  remaining,   \* addresses that are not visited
  pending,     \* the queue of the search that runs
  component,   \* what the search has found of a component
  components,  \* the components
  place,       \* index of the component that is placed
  layers,      \* depths of its nodes
  distances,   \* undirectedDistance
  corner,      \* componentX, componentY and rowHeight
  layout       \* what is returned

search     == <<remaining, pending, component>>
placing    == <<place, layers, distances, corner>>
layoutVars == <<stage, search, components, placing, layout>>

NoLayout == [positions |-> <<>>, components |-> <<>>]
FirstCorner == [x |-> 0, y |-> 0, rowHeight |-> 0]

LayoutInit ==
  /\ Init
  /\ stage = "idle"
  /\ remaining = {} /\ pending = <<>> /\ component = <<>> /\ components = <<>>
  /\ place = 1 /\ layers = <<>> /\ distances = <<>> /\ corner = FirstCorner
  /\ layout = NoLayout

\* The place of the element i of s in an order; equal elements stay as they are.
PlaceOf(s, Less(_, _), i) ==
  Cardinality({j \in 1 .. Len(s) : Less(s[j], s[i]) \/ (j <= i /\ ~ Less(s[i], s[j]))})

\* std::sort
SortedBy(s, Less(_, _)) ==
  [k \in 1 .. Len(s) |-> s[CHOOSE i \in 1 .. Len(s) : PlaceOf(s, Less, i) = k]]

Sorted(S) == SortedBy(SetToSeq(S), <)

Least(S) == CHOOSE a \in S : \A b \in S : a <= b

Addresses == {n.address : n \in ToSet(nodes)}

\* nodeAt(a)->isExternal
IsExternal(a) == nodes[indices[a]].isExternal

IsMain(a) == a \in Mains /\ ~ IsExternal(a)

--------------------------------------------------------------------------------
(***************************************************************************)
(* Components and their roots.                                             *)
(***************************************************************************)

Callees(a) == {e.callee : e \in {d \in ToSet(edges) : d.caller = a}} \ {a}

Callers(a) == {e.caller : e \in {d \in ToSet(edges) : d.callee = a}} \ {a}

\* undirectedAdjacency
Adjacent(a) == Callees(a) \cup Callers(a)

\* incomingCounts, in which a function that calls itself counts.
Incoming(a) == Cardinality({e \in ToSet(edges) : e.callee = a})

\* The last comparison of chooseRoot.
BetterRoot(a, b) ==
  \/ Incoming(a) < Incoming(b)
  \/ /\ Incoming(a) = Incoming(b)
     /\ IF IsExternal(a) # IsExternal(b) THEN ~ IsExternal(a) ELSE a <= b

ChooseRoot(c) ==
  LET mains    == {a \in ToSet(c) : IsMain(a)}
      uncalled == {a \in ToSet(c) : ~ IsExternal(a) /\ Incoming(a) = 0}
  IN  IF mains # {} THEN Least(mains)
      ELSE IF uncalled # {} THEN Least(uncalled)
      ELSE CHOOSE a \in ToSet(c) : \A b \in ToSet(c) : BetterRoot(a, b)

\* The component of main comes first.
Precedes(c, d) ==
  IF IsMain(ChooseRoot(c)) # IsMain(ChooseRoot(d))
    THEN IsMain(ChooseRoot(c))
    ELSE ChooseRoot(c) < ChooseRoot(d)

\* rebuildScene calls layout; without nodes there is nothing to do.
BeginLayout ==
  /\ phase = "idle" /\ stage \in {"idle", "done"}
  /\ stage' = IF nodes = <<>> THEN "done" ELSE "components"
  /\ remaining' = Addresses /\ pending' = <<>> /\ component' = <<>> /\ components' = <<>>
  /\ place' = 1 /\ layers' = <<>> /\ distances' = <<>> /\ corner' = FirstCorner
  /\ layout' = NoLayout
  /\ UNCHANGED vars

StartComponent ==
  /\ stage = "components"
  /\ pending = <<>> /\ component = <<>> /\ remaining # {}
  /\ pending' = <<Least(remaining)>>
  /\ remaining' = remaining \ {Least(remaining)}
  /\ UNCHANGED <<vars, stage, component, components, placing, layout>>

\* Mutation: a node is marked when its turn comes, not when it is put into the queue.
VisitNodeMarkedLate ==
  /\ stage = "components"
  /\ pending # <<>>
  /\ pending' = Tail(pending) \o Sorted(Adjacent(Head(pending)) \cap remaining)
  /\ remaining' = remaining \ {Head(pending)}
  /\ component' = Append(component, Head(pending))
  /\ UNCHANGED <<vars, stage, components, placing, layout>>

VisitNode ==
  /\ stage = "components"
  /\ pending # <<>>
  /\ LET found == Adjacent(Head(pending)) \cap remaining
     IN  /\ pending' = Tail(pending) \o Sorted(found)
         /\ remaining' = remaining \ found
  /\ component' = Append(component, Head(pending))
  /\ UNCHANGED <<vars, stage, components, placing, layout>>

FinishComponent ==
  /\ stage = "components"
  /\ pending = <<>> /\ component # <<>>
  /\ components' = Append(components, SortedBy(component, <))
  /\ component' = <<>>
  /\ UNCHANGED <<vars, stage, remaining, pending, placing, layout>>

--------------------------------------------------------------------------------
(***************************************************************************)
(* componentLayers.                                                        *)
(***************************************************************************)

Root(i) == ChooseRoot(components[i])

\* The search starts with those that nobody else calls, and the root.
Tops(i) ==
  LET uncalled == Sorted({a \in ToSet(components[i]) : Callers(a) = {}})
  IN  IF Root(i) \in ToSet(uncalled) THEN uncalled ELSE <<Root(i)>> \o uncalled

\* The loop over the components is at component i.
StartLayers(i) ==
  /\ place' = i
  /\ stage' = IF i > Len(components) THEN "done" ELSE "layers"
  /\ layers' = IF i > Len(components) THEN <<>> ELSE [a \in ToSet(Tops(i)) |-> 0]
  /\ pending' = IF i > Len(components) THEN <<>> ELSE Tops(i)
  /\ distances' = <<>>

SortComponents ==
  /\ stage = "components"
  /\ pending = <<>> /\ component = <<>> /\ remaining = {}
  /\ components' = SortedBy(components, Precedes)
  /\ stage' = "sorted"
  /\ UNCHANGED <<vars, search, placing, layout>>

StartPlacing ==
  /\ stage = "sorted"
  /\ StartLayers(1)
  /\ UNCHANGED <<vars, remaining, component, components, corner, layout>>

Deeper(depths, a, found) ==
  [b \in DOMAIN depths \cup found |-> IF b \in found THEN depths[a] + 1 ELSE depths[b]]

\* Mutation: what was found last is taken from the queue first.
ReachCalleesLastFirst ==
  /\ stage = "layers" /\ pending # <<>>
  /\ LET found == Callees(Head(pending)) \ DOMAIN layers
     IN  /\ layers' = Deeper(layers, Head(pending), found)
         /\ pending' = Sorted(found) \o Tail(pending)
  /\ UNCHANGED <<vars, stage, remaining, component, components, place, distances, corner, layout>>

ReachCallees ==
  /\ stage = "layers" /\ pending # <<>>
  /\ LET found == Callees(Head(pending)) \ DOMAIN layers
     IN  /\ layers' = Deeper(layers, Head(pending), found)
         /\ pending' = Tail(pending) \o Sorted(found)
  /\ UNCHANGED <<vars, stage, remaining, component, components, place, distances, corner, layout>>

StartDistances ==
  /\ stage = "layers" /\ pending = <<>>
  /\ stage' = "distances"
  /\ distances' = [a \in {Root(place)} |-> 0]
  /\ pending' = <<Root(place)>>
  /\ UNCHANGED <<vars, remaining, component, components, place, layers, corner, layout>>

ReachNeighbours ==
  /\ stage = "distances" /\ pending # <<>>
  /\ LET found == Adjacent(Head(pending)) \ DOMAIN distances
     IN  /\ distances' = Deeper(distances, Head(pending), found)
         /\ pending' = Tail(pending) \o Sorted(found)
  /\ UNCHANGED <<vars, stage, remaining, component, components, place, layers, corner, layout>>

\* What the first search has not reached has the distance of the second one.
Depths == [a \in ToSet(components[place]) |-> IF a \in DOMAIN layers THEN layers[a] ELSE distances[a]]

--------------------------------------------------------------------------------
(***************************************************************************)
(* Placing a component.                                                    *)
(***************************************************************************)

NodeWidth         == 2 * 328
HorizontalSpacing == 2 * 66
VerticalSpacing   == 2 * 86
ComponentSpacing  == 2 * 150
MaximumRowWidth   == 2 * 2200
Margin            == 2 * 44

\* graphNodeHeight: all instructions of a function are shown, at least six lines.
NodeHeight(a) ==
  IF IsExternal(a) \/ Len(program.code[a]) <= 6
    THEN 2 * 158
    ELSE 2 * 31 + 31 * Len(program.code[a]) + 9 + 59

Grouped(d) == {a \in ToSet(components[place]) : Depths[a] = d}

LayerWidth(d) ==
  IF Grouped(d) = {} THEN 0
  ELSE Cardinality(Grouped(d)) * (NodeWidth + HorizontalSpacing) - HorizontalSpacing

LayerHeight(d) == Max({0} \cup {NodeHeight(a) : a \in Grouped(d)})

MaximumDepth == Max({Depths[a] : a \in ToSet(components[place])})

Width == Max({LayerWidth(d) : d \in 0 .. MaximumDepth})

\* What is above each depth, if this is the height of the layers.
Above(heights) ==
  LET above[d \in 0 .. MaximumDepth + 1] == IF d = 0 THEN 0 ELSE above[d - 1] + heights[d - 1]
  IN  above

Height ==
  Above([d \in 0 .. MaximumDepth |-> LayerHeight(d)])[MaximumDepth + 1]
    + MaximumDepth * VerticalSpacing

\* Mutation: the last component of a row decides where the next row begins.
RowHeightOfLast(rowHeight) == Height

RowHeight(rowHeight) == Max({rowHeight, Height})

\* Where the component goes: beside the one before it, or below its row.
Corner ==
  IF corner.x > 0 /\ corner.x + Width > MaximumRowWidth
    THEN [x |-> 0, y |-> corner.y + corner.rowHeight + ComponentSpacing, rowHeight |-> 0]
    ELSE corner

\* A layer without nodes takes no room.
LayerY(d) ==
  Corner.y + Above([k \in 0 .. MaximumDepth |->
                      IF Grouped(k) = {} THEN 0 ELSE LayerHeight(k) + VerticalSpacing])[d]

\* The nodes of a layer are centred, in the order of their addresses.
Position(a) ==
  LET d     == Depths[a]
      before == {b \in Grouped(d) : b < a}
  IN  [x |-> Corner.x + (Width - LayerWidth(d)) \div 2
               + Cardinality(before) * (NodeWidth + HorizontalSpacing),
       y |-> LayerY(d)]

Box(position, a) ==
  [left |-> position.x, top |-> position.y,
   right |-> position.x + NodeWidth, bottom |-> position.y + NodeHeight(a)]

\* The smallest rectangle around the nodes, and a margin.
Around(boxes) ==
  [left   |-> Min({b.left : b \in boxes}) - Margin,
   top    |-> Min({b.top : b \in boxes}) - Margin,
   right  |-> Max({b.right : b \in boxes}) + Margin,
   bottom |-> Max({b.bottom : b \in boxes}) + Margin]

PlaceComponent ==
  /\ stage = "distances" /\ pending = <<>>
  /\ LET c      == components[place]
         placed == [a \in ToSet(c) \cup DOMAIN layout.positions |->
                      IF a \in ToSet(c) THEN Position(a) ELSE layout.positions[a]]
     IN  layout' =
           [positions  |-> placed,
            components |-> Append(layout.components,
              [nodeAddresses  |-> c,
               representative |-> Root(place),
               secondary      |-> IF Len(c) > 1 THEN Last(c) ELSE Root(place),
               sceneBounds    |-> Around({Box(placed[a], a) : a \in ToSet(c)})])]
  /\ corner' = [x         |-> Corner.x + Width + ComponentSpacing,
                y         |-> Corner.y,
                rowHeight |-> RowHeight(Corner.rowHeight)]
  /\ StartLayers(place + 1)
  /\ UNCHANGED <<vars, remaining, component, components>>

LayoutStep ==
  \/ BeginLayout
  \/ StartComponent \/ VisitNode \/ FinishComponent \/ SortComponents
  \/ StartPlacing \/ ReachCallees \/ StartDistances \/ ReachNeighbours \/ PlaceComponent

\* The graph is built, or cleared, while no layout runs; the layout of it is then
\* another one.
GraphStep ==
  /\ stage \in {"idle", "done"}
  /\ Next
  /\ stage' = "idle"
  /\ layout' = NoLayout
  /\ remaining' = {} /\ pending' = <<>> /\ component' = <<>> /\ components' = <<>>
  /\ place' = 1 /\ layers' = <<>> /\ distances' = <<>> /\ corner' = FirstCorner

LayoutSpec == LayoutInit /\ [][GraphStep \/ LayoutStep]_<<vars, layoutVars>>

--------------------------------------------------------------------------------
(***************************************************************************)
(* Properties.                                                             *)
(***************************************************************************)

\* The nodes that each node calls, and those that it calls or is called by.
Called == [a \in Addresses |-> {e.callee : e \in {d \in ToSet(edges) : d.caller = a}}]

Linked ==
  [a \in Addresses |-> {b \in Addresses : \E e \in ToSet(edges) : {e.caller, e.callee} = {a, b}}]

\* The nodes within n steps of the nodes S, n the number of nodes at most.
Within(S, near) ==
  LET within[n \in 0 .. Len(nodes)] ==
        IF n = 0 THEN S ELSE within[n - 1] \cup UNION {near[a] : a \in within[n - 1]}
  IN  within

Connected(a) == Within({a}, Linked)[Len(nodes)]

(***************************************************************************)
(* The subgraphs that the panel lists as isolated are exactly the sets of  *)
(* nodes that calls connect, in whatever direction: each node is in one of *)
(* them, and main in the first.                                            *)
(***************************************************************************)
ComponentsExact ==
  stage = "done" =>
    /\ {c.nodeAddresses : c \in ToSet(layout.components)} = {Sorted(Connected(a)) : a \in Addresses}
    /\ \A i, j \in 1 .. Len(layout.components) :
         layout.components[i].nodeAddresses = layout.components[j].nodeAddresses => i = j
    /\ \A a \in Addresses \cap Mains :
         ~ IsExternal(a) => \E b \in Mains : b \in ToSet(layout.components[1].nodeAddresses)

Distance(S, near, a) == Min({n \in 0 .. Len(nodes) : a \in Within(S, near)[n]})

(***************************************************************************)
(* Every node of a component gets one layer, also in recursion that        *)
(* nothing else calls: the length of the shortest chain of calls from the  *)
(* root or an uncalled function, or, for a node that no such chain         *)
(* reaches, its distance from the root over calls in either direction.     *)
(***************************************************************************)
LayersExact ==
  stage = "distances" /\ pending = <<>> =>
    \A a \in ToSet(components[place]) :
      LET tops == {b \in ToSet(components[place]) :
                     \A e \in ToSet(edges) : e.callee = b => e.caller = b} \cup {Root(place)}
      IN  Depths[a] = IF a \in Within(tops, Called)[Len(nodes)]
                        THEN Distance(tops, Called, a)
                        ELSE Distance({Root(place)}, Linked, a)

Apart(r, s) ==
  r.right <= s.left \/ s.right <= r.left \/ r.bottom <= s.top \/ s.bottom <= r.top

Boxes == [a \in DOMAIN layout.positions |-> Box(layout.positions[a], a)]

(***************************************************************************)
(* Every node has a place, no two nodes cover each other, whatever their   *)
(* heights and layers are, and neither do the areas of two components,     *)
(* beside each other or in different rows.                                 *)
(***************************************************************************)
NothingOverlaps ==
  stage = "done" =>
    /\ DOMAIN layout.positions = Addresses
    /\ \A a, b \in Addresses : a # b => Apart(Boxes[a], Boxes[b])
    /\ \A i, j \in 1 .. Len(layout.components) :
         i # j => Apart(layout.components[i].sceneBounds, layout.components[j].sceneBounds)

================================================================================
