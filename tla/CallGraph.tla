------------------------------- MODULE CallGraph -------------------------------
(***************************************************************************)
(* CallGraph::build: one node per discovered function, then one external   *)
(* node per other call target and one edge per pair of caller and callee.  *)
(* A graph can be built again, from other functions.                       *)
(***************************************************************************)
EXTENDS Naturals, FiniteSets, SequencesExt

CONSTANTS
  Programs,    \* what build is called with
  NoTarget     \* an instruction without a direct target

Instructions == [address : Nat, isCall : BOOLEAN, directTarget : Nat \cup {NoTarget}]

(***************************************************************************)
(* A program: the addresses of its functions, in the order of discovery,   *)
(* and the instructions that are cached for them.                          *)
(***************************************************************************)
ASSUME ProgramsAssumption ==
  \A p \in Programs :
    /\ p.functions \in Seq(Nat)
    /\ \A f \in DOMAIN p.code : p.code[f] \in Seq(Instructions)

ASSUME NoTargetAssumption == NoTarget \notin Nat

Nobody == [functions |-> <<>>, code |-> <<>>]

VARIABLES
  program,     \* the arguments of the last build
  phase,       \* "idle", "functions", "calls" or "sorting"
  current,     \* index of the next function
  next,        \* index of the next instruction of that function
  nodes,       \* nodes_
  indices,     \* nodeIndices_
  edges,       \* edges_
  error        \* errorMessage_

vars == <<program, phase, current, next, nodes, indices, edges, error>>

Init ==
  /\ program = Nobody
  /\ phase = "idle"
  /\ current = 1 /\ next = 1
  /\ nodes = <<>> /\ indices = <<>> /\ edges = <<>>
  /\ error = "none"

--------------------------------------------------------------------------------
(***************************************************************************)
(* The steps of build.                                                     *)
(***************************************************************************)

Node(a, external) == [address |-> a, isExternal |-> external]

\* clear, but for the message
Emptied == nodes' = <<>> /\ edges' = <<>> /\ indices' = <<>>

Build(p) ==
  /\ phase = "idle"
  /\ program' = p
  /\ phase' = "functions"
  /\ current' = 1 /\ next' = 1
  /\ error' = "none"
  /\ Emptied

\* clear, when no build runs: the graph is as it was made.
Clear ==
  /\ phase = "idle"
  /\ program' = Nobody
  /\ current' = 1 /\ next' = 1
  /\ error' = "none"
  /\ Emptied
  /\ UNCHANGED phase

Fail(message) ==
  /\ phase' = "idle"
  /\ error' = message
  /\ Emptied
  /\ UNCHANGED <<program, current, next>>

\* nodeIndices_.contains
Known(a) == a \in DOMAIN indices

\* Mutation: the index is that of the last node, not of the new one.
AddNodeOneLow(a, external) ==
  /\ nodes' = Append(nodes, Node(a, external))
  /\ indices' = [b \in DOMAIN indices \cup {a} |-> IF b = a THEN Len(nodes) ELSE indices[b]]

\* An index of nodes_, counted from 1, is recorded and the node pushed behind it.
AddNode(a, external) ==
  /\ nodes' = Append(nodes, Node(a, external))
  /\ indices' = [b \in DOMAIN indices \cup {a} |->
                   IF b = a THEN Len(nodes) + 1 ELSE indices[b]]

AddFunction ==
  /\ phase = "functions"
  /\ current <= Len(program.functions)
  /\ ~ Known(program.functions[current])
  /\ AddNode(program.functions[current], FALSE)
  /\ current' = current + 1
  /\ UNCHANGED <<program, phase, next, edges, error>>

DuplicateFunction ==
  /\ phase = "functions"
  /\ current <= Len(program.functions)
  /\ Known(program.functions[current])
  /\ Fail("duplicate")

FunctionsAdded ==
  /\ phase = "functions"
  /\ current > Len(program.functions)
  /\ phase' = "calls"
  /\ current' = 1
  /\ UNCHANGED <<program, next, nodes, indices, edges, error>>

Caller == program.functions[current]

IsCached(f) == f \in DOMAIN program.code

MissingInstructions ==
  /\ phase = "calls"
  /\ current <= Len(program.functions)
  /\ ~ IsCached(Caller)
  /\ Fail("missing")

Instruction == program.code[Caller][next]

IsDirectCall(i) == i.isCall /\ i.directTarget # NoTarget

\* Mutation: the set of pairs is looked up for the current call site only.
RelatedAtSite(f, a) ==
  \E e \in ToSet(edges) : e.caller = f /\ e.callee = a /\ e.callSite = Instruction.address

\* relationships, the pairs that have an edge
Related(f, a) == \E e \in ToSet(edges) : e.caller = f /\ e.callee = a

\* Mutation: a target without an edge is external, whatever it is.
AddTargetBlind(a) == AddNode(a, TRUE)

\* The node of a call target that is no function.
AddTarget(a) == IF Known(a) THEN UNCHANGED <<nodes, indices>> ELSE AddNode(a, TRUE)

\* Mutation: the call site of an edge is the last one.
AddEdgeLastSite(f, i) ==
  edges' = Append(SelectSeq(edges, LAMBDA e : e.caller # f \/ e.callee # i.directTarget),
                  [caller |-> f, callee |-> i.directTarget, callSite |-> i.address])

AddEdge(f, i) ==
  IF Related(f, i.directTarget)
    THEN UNCHANGED edges
    ELSE edges' = Append(edges, [caller |-> f, callee |-> i.directTarget,
                                 callSite |-> i.address])

\* One instruction of the current function.
ScanInstruction ==
  /\ phase = "calls"
  /\ current <= Len(program.functions)
  /\ IsCached(Caller)
  /\ next <= Len(program.code[Caller])
  /\ IF IsDirectCall(Instruction)
       THEN AddTarget(Instruction.directTarget) /\ AddEdge(Caller, Instruction)
       ELSE UNCHANGED <<nodes, indices, edges>>
  /\ next' = next + 1
  /\ UNCHANGED <<program, phase, current, error>>

FunctionScanned ==
  /\ phase = "calls"
  /\ current <= Len(program.functions)
  /\ IsCached(Caller)
  /\ next > Len(program.code[Caller])
  /\ current' = current + 1
  /\ next' = 1
  /\ UNCHANGED <<program, phase, nodes, indices, edges, error>>

CallsScanned ==
  /\ phase = "calls"
  /\ current > Len(program.functions)
  /\ phase' = "sorting"
  /\ UNCHANGED <<program, current, next, nodes, indices, edges, error>>

\* The order of std::sort.
Before(e, d) == e.caller < d.caller \/ (e.caller = d.caller /\ e.callee < d.callee)

\* std::sort leaves any arrangement in which no edge is before its predecessor.
SortEdges ==
  /\ phase = "sorting"
  /\ edges' \in {s \in SetToSeqs(ToSet(edges)) : \A i \in 2 .. Len(s) : ~ Before(s[i], s[i - 1])}
  /\ phase' = "idle"
  /\ UNCHANGED <<program, current, next, nodes, indices, error>>

Step ==
  \/ AddFunction \/ DuplicateFunction \/ FunctionsAdded
  \/ MissingInstructions \/ ScanInstruction \/ FunctionScanned \/ CallsScanned
  \/ SortEdges

Next == (\E p \in Programs : Build(p)) \/ Clear \/ Step

Spec == Init /\ [][Next]_vars

--------------------------------------------------------------------------------
(***************************************************************************)
(* Properties.                                                             *)
(***************************************************************************)

\* The calls of a program by its own functions, whatever order they are met in.
CallsOf(p, f) ==
  {<<f, i.directTarget>> :
     i \in {j \in ToSet(p.code[f]) : j.isCall /\ j.directTarget # NoTarget}}

DirectCalls(p) == UNION {CallsOf(p, f) : f \in ToSet(p.functions)}

Pairs == {<<e.caller, e.callee>> : e \in ToSet(edges)}

Built == phase = "idle" /\ error = "none"

(***************************************************************************)
(* nodeAt answers with the node of the address that was asked for: the     *)
(* index and the nodes are inverse to each other at every moment of build, *)
(* so no address has two nodes.                                            *)
(***************************************************************************)
IndicesPointAtNodes ==
  /\ \A a \in DOMAIN indices : indices[a] \in 1 .. Len(nodes) /\ nodes[indices[a]].address = a
  /\ \A i \in 1 .. Len(nodes) : Known(nodes[i].address) /\ indices[nodes[i].address] = i

(***************************************************************************)
(* A node is external exactly when its address is no function, also when   *)
(* the function comes after its first caller in the list.                  *)
(***************************************************************************)
ExternalMeansNoFunction ==
  phase # "functions" /\ error = "none" =>
    \A n \in ToSet(nodes) : n.isExternal <=> n.address \notin ToSet(program.functions)

(***************************************************************************)
(* The edges of a built graph are the pairs of a function and an address   *)
(* it calls directly, each once and in order, and both ends have a node;   *)
(* nothing of an earlier build is left.                                    *)
(***************************************************************************)
EdgesAreTheCalls ==
  Built =>
    /\ Pairs = DirectCalls(program)
    /\ \A i \in 2 .. Len(edges) : Before(edges[i - 1], edges[i])
    /\ {n.address : n \in ToSet(nodes)} =
         ToSet(program.functions) \cup {c[2] : c \in DirectCalls(program)}

(***************************************************************************)
(* A build that fails leaves an empty graph, not the part it had built.    *)
(***************************************************************************)
FailureLeavesNothing ==
  error # "none" => nodes = <<>> /\ edges = <<>> /\ indices = <<>>

(***************************************************************************)
(* The call site of an edge is the first of the calls that it stands for.  *)
(***************************************************************************)
CallSiteIsFirst ==
  \A e \in ToSet(edges) :
    LET sites == {i \in 1 .. Len(program.code[e.caller]) :
                    /\ IsDirectCall(program.code[e.caller][i])
                    /\ program.code[e.caller][i].directTarget = e.callee}
    IN  \E i \in sites :
          /\ program.code[e.caller][i].address = e.callSite
          /\ \A j \in sites : i <= j

(***************************************************************************)
(* A graph is that of the calls of its program, or empty after a failure,  *)
(* and at every moment of a build its index finds every node, no node of a *)
(* function is external, and its edges have the first of their call sites. *)
(***************************************************************************)
GraphExact ==
  /\ EdgesAreTheCalls
  /\ FailureLeavesNothing
  /\ IndicesPointAtNodes
  /\ ExternalMeansNoFunction
  /\ CallSiteIsFirst

================================================================================
