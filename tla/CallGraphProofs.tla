---------------------------- MODULE CallGraphProofs ----------------------------
(***************************************************************************)
(* For every program: the index of a call graph finds its nodes, external  *)
(* nodes are those of no function, and the edges of a built graph are the  *)
(* direct calls, each with its first call site.                            *)
(*                                                                         *)
(* For every graph that is laid out: its components are those of the       *)
(* relation "calls or is called by", its layers are the distances from     *)
(* the roots, and no two nodes, and no two components, overlap.            *)
(***************************************************************************)
EXTENDS CallGraphLayoutEngine, FunctionTheorems, FiniteSetTheorems,
        NaturalsInduction, WellFoundedInduction, TLAPS

--------------------------------------------------------------------------------
(***************************************************************************)
(* The elements of a sequence.                                             *)
(***************************************************************************)

\* The elements by index.
LEMMA ToSetIndexed ==
  ASSUME NEW S, NEW s \in Seq(S)
  PROVE  ToSet(s) = {s[i] : i \in 1 .. Len(s)}
BY DEF ToSet

LEMMA ToSetEmpty == ToSet(<<>>) = {}
BY DEF ToSet

LEMMA ToSetSubset ==
  ASSUME NEW S, NEW s \in Seq(S)
  PROVE  ToSet(s) \subseteq S
BY ToSetIndexed

LEMMA ToSetAppend ==
  ASSUME NEW S, NEW s \in Seq(S), NEW x \in S
  PROVE  /\ Append(s, x) \in Seq(S)
         /\ ToSet(Append(s, x)) = ToSet(s) \cup {x}
<1>1. Append(s, x) \in Seq(S)
  OBVIOUS
<1> DEFINE A == {Append(s, x)[i] : i \in 1 .. Len(Append(s, x))}
           B == {s[i] : i \in 1 .. Len(s)}
<1>2. A = B \cup {x}
  OBVIOUS
<1>3. ToSet(Append(s, x)) = A /\ ToSet(s) = B
  BY <1>1, ToSetIndexed
<1> QED BY <1>1, <1>2, <1>3

\* The empty sequence is the function with the empty domain.
LEMMA EmptyFunction ==
  ASSUME NEW T
  PROVE  DOMAIN <<>> = {} /\ <<>> \in [{} -> T] /\ <<>> \in Seq(T)
<1>1. <<>> \in Seq(T) /\ Len(<<>>) = 0
  OBVIOUS
<1>2. <<>> \in [1 .. Len(<<>>) -> T]
  BY <1>1
<1>3. 1 .. Len(<<>>) = {}
  BY <1>1
<1> QED BY <1>1, <1>2, <1>3

--------------------------------------------------------------------------------

Functions == ToSet(program.functions)

\* The first n functions.
FirstFunctions(n) == {program.functions[i] : i \in 1 .. n}

NodesType ==
  /\ nodes \in Seq([address : Nat, isExternal : BOOLEAN])
  /\ indices \in [DOMAIN indices -> Nat]

ProgramInv ==
  /\ program.functions \in Seq(Nat)
  /\ \A f \in DOMAIN program.code : program.code[f] \in Seq(Instructions)

Scanning == phase \in {"calls", "sorting"}

NodesInv ==
  /\ NodesType
  /\ IndicesPointAtNodes
  /\ phase = "functions" =>
       /\ \A i \in 1 .. Len(nodes) : ~ nodes[i].isExternal
       /\ FirstFunctions(current - 1) = DOMAIN indices
  /\ Scanning \/ (phase = "idle" /\ error = "none") =>
       /\ \A i \in 1 .. Len(nodes) : nodes[i].isExternal <=> nodes[i].address \notin Functions
       /\ Functions \subseteq DOMAIN indices

PhaseInv ==
  /\ phase \in {"idle", "functions", "calls", "sorting"}
  /\ phase \in {"functions", "calls"} => current \in 1 .. Len(program.functions) + 1
  /\ next \in Nat \ {0}
  /\ phase # "idle" => error = "none"
  /\ error # "none" => nodes = <<>> /\ edges = <<>> /\ indices = <<>>

--------------------------------------------------------------------------------

\* A node pushed behind the others, with its index.
LEMMA NodeAdded ==
  ASSUME NodesType, IndicesPointAtNodes, NEW a \in Nat, ~ Known(a), NEW x \in BOOLEAN,
         AddNode(a, x)
  PROVE  /\ NodesType' /\ IndicesPointAtNodes'
         /\ DOMAIN indices' = DOMAIN indices \cup {a}
         /\ Len(nodes') = Len(nodes) + 1
         /\ nodes'[Len(nodes) + 1] = Node(a, x)
         /\ \A i \in 1 .. Len(nodes) : nodes'[i] = nodes[i]
<1>1. Node(a, x) \in [address : Nat, isExternal : BOOLEAN] /\ Node(a, x).address = a
  BY DEF Node
<1> HIDE DEF Node
<1>2. /\ nodes' \in Seq([address : Nat, isExternal : BOOLEAN])
      /\ Len(nodes') = Len(nodes) + 1 /\ nodes'[Len(nodes) + 1] = Node(a, x)
      /\ \A i \in 1 .. Len(nodes) : nodes'[i] = nodes[i]
      /\ Len(nodes) \in Nat
  BY <1>1 DEF AddNode, NodesType
<1>3. /\ DOMAIN indices' = DOMAIN indices \cup {a}
      /\ indices' \in [DOMAIN indices \cup {a} -> Nat]
      /\ indices'[a] = Len(nodes) + 1
      /\ \A b \in DOMAIN indices : b # a /\ indices'[b] = indices[b]
  BY <1>2 DEF AddNode, NodesType, Known
<1>4. \A b \in DOMAIN indices' :
        indices'[b] \in 1 .. Len(nodes') /\ nodes'[indices'[b]].address = b
  <2> TAKE b \in DOMAIN indices'
  <2>1. CASE b = a
    BY <1>1, <1>2, <1>3, <2>1
  <2>2. CASE b # a
    <3>1. b \in DOMAIN indices /\ indices'[b] = indices[b]
      BY <1>3, <2>2
    <3>2. indices[b] \in 1 .. Len(nodes) /\ nodes[indices[b]].address = b
      BY <3>1 DEF IndicesPointAtNodes
    <3> QED BY <1>2, <3>1, <3>2
  <2> QED BY <2>1, <2>2
<1>5. \A i \in 1 .. Len(nodes') :
        nodes'[i].address \in DOMAIN indices' /\ indices'[nodes'[i].address] = i
  <2> TAKE i \in 1 .. Len(nodes')
  <2>1. CASE i = Len(nodes) + 1
    BY <1>1, <1>2, <1>3, <2>1
  <2>2. CASE i # Len(nodes) + 1
    <3>1. i \in 1 .. Len(nodes) /\ nodes'[i] = nodes[i]
      BY <1>2, <2>2
    <3>2. nodes[i].address \in DOMAIN indices /\ indices[nodes[i].address] = i
      BY <3>1 DEF IndicesPointAtNodes, Known
    <3> QED BY <1>3, <3>1, <3>2
  <2> QED BY <2>1, <2>2
<1> QED BY <1>2, <1>3, <1>4, <1>5 DEF NodesType, IndicesPointAtNodes, Known

LEMMA NothingThere ==
  ASSUME nodes = <<>>, indices = <<>>
  PROVE  NodesType /\ IndicesPointAtNodes /\ DOMAIN indices = {} /\ Len(nodes) = 0
<1>1. DOMAIN indices = {} /\ indices \in [{} -> Nat]
  BY EmptyFunction
<1>2. nodes \in Seq([address : Nat, isExternal : BOOLEAN]) /\ Len(nodes) = 0
  OBVIOUS
<1> QED BY <1>1, <1>2 DEF NodesType, IndicesPointAtNodes

LEMMA ProgramHolds ==
  ASSUME ProgramInv, [Next]_vars, ~ Clear
  PROVE  ProgramInv'
<1>1. CASE \E p \in Programs : Build(p)
  BY <1>1, ProgramsAssumption DEF Build, ProgramInv
<1>2. CASE UNCHANGED program
  BY <1>2 DEF ProgramInv
<1> QED BY <1>1, <1>2
        DEF Next, Step, vars, AddFunction, DuplicateFunction, FunctionsAdded, Fail,
            MissingInstructions, ScanInstruction, FunctionScanned, CallsScanned, SortEdges

LEMMA FunctionsIndexed ==
  ASSUME ProgramInv
  PROVE  /\ Len(program.functions) \in Nat
         /\ Functions \subseteq Nat
         /\ FirstFunctions(Len(program.functions)) = Functions
         /\ FirstFunctions(0) = {}
         /\ \A n \in 1 .. Len(program.functions) :
              /\ program.functions[n] \in Functions
              /\ FirstFunctions(n) = FirstFunctions(n - 1) \cup {program.functions[n]}
<1>1. program.functions \in Seq(Nat) /\ Len(program.functions) \in Nat
  BY DEF ProgramInv
<1>2. Functions = {program.functions[i] : i \in 1 .. Len(program.functions)}
  BY <1>1, ToSetIndexed DEF Functions
<1>3. \A n \in 1 .. Len(program.functions) :
        FirstFunctions(n) = FirstFunctions(n - 1) \cup {program.functions[n]}
  BY <1>1 DEF FirstFunctions
<1>4. FirstFunctions(Len(program.functions)) = Functions /\ FirstFunctions(0) = {}
  BY <1>2 DEF FirstFunctions
<1>5. Functions \subseteq Nat
  BY <1>1, <1>2
<1> HIDE DEF FirstFunctions, Functions
<1> QED BY <1>1, <1>2, <1>3, <1>4, <1>5

--------------------------------------------------------------------------------
(***************************************************************************)
(* The nodes.                                                              *)
(***************************************************************************)

LEMMA EmptiedNodes ==
  ASSUME Emptied, phase' = "functions" => current' = 1,
         phase' \in {"idle", "functions"}, phase' = "idle" => error' # "none"
  PROVE  NodesInv'
<1>1. nodes' = <<>> /\ indices' = <<>>
  BY DEF Emptied
<1>2. NodesType' /\ IndicesPointAtNodes' /\ DOMAIN indices' = {} /\ Len(nodes') = 0
  <2>1. DOMAIN indices' = {} /\ indices' \in [{} -> Nat]
    BY <1>1, EmptyFunction
  <2>2. nodes' \in Seq([address : Nat, isExternal : BOOLEAN]) /\ Len(nodes') = 0
    BY <1>1
  <2> QED BY <2>1, <2>2 DEF NodesType, IndicesPointAtNodes
<1> QED BY <1>2 DEF NodesInv, FirstFunctions, Scanning

LEMMA AddFunctionNodes ==
  ASSUME ProgramInv, NodesInv, PhaseInv, AddFunction
  PROVE  NodesInv'
<1> DEFINE f == program.functions[current]
<1>1. /\ f \in Nat /\ current \in 1 .. Len(program.functions)
      /\ FirstFunctions(current) = FirstFunctions(current - 1) \cup {f}
  BY FunctionsIndexed DEF AddFunction, PhaseInv
<1>2. /\ NodesType' /\ IndicesPointAtNodes'
      /\ DOMAIN indices' = DOMAIN indices \cup {f}
      /\ Len(nodes') = Len(nodes) + 1 /\ nodes'[Len(nodes) + 1] = Node(f, FALSE)
      /\ \A i \in 1 .. Len(nodes) : nodes'[i] = nodes[i]
  <2>1. NodesType /\ IndicesPointAtNodes /\ ~ Known(f) /\ AddNode(f, FALSE)
    BY DEF AddFunction, NodesInv
  <2> HIDE DEF f
  <2> QED BY <1>1, <2>1, NodeAdded
<1>3. \A i \in 1 .. Len(nodes') : ~ nodes'[i].isExternal
  <2> TAKE i \in 1 .. Len(nodes')
  <2>1. CASE i = Len(nodes) + 1
    BY <1>2, <2>1 DEF Node
  <2>2. CASE i # Len(nodes) + 1
    <3>1. i \in 1 .. Len(nodes)
      BY <1>2, <2>2 DEF NodesInv, NodesType
    <3> QED BY <1>2, <3>1 DEF AddFunction, NodesInv
  <2> QED BY <2>1, <2>2
<1>4. FirstFunctions(current - 1)' = DOMAIN indices'
  BY <1>1, <1>2 DEF AddFunction, NodesInv, FirstFunctions
<1> QED BY <1>2, <1>3, <1>4 DEF NodesInv, AddFunction, Scanning

LEMMA FunctionsAddedNodes ==
  ASSUME ProgramInv, NodesInv, PhaseInv, FunctionsAdded
  PROVE  NodesInv'
<1>1. current - 1 = Len(program.functions)
  BY FunctionsIndexed DEF FunctionsAdded, PhaseInv
<1>2. Functions = DOMAIN indices
  BY <1>1, FunctionsIndexed DEF FunctionsAdded, NodesInv
<1>3. \A i \in 1 .. Len(nodes) : nodes[i].address \in Functions /\ ~ nodes[i].isExternal
  BY <1>2 DEF FunctionsAdded, NodesInv, IndicesPointAtNodes, Known
<1> QED BY <1>2, <1>3
        DEF FunctionsAdded, NodesInv, NodesType, IndicesPointAtNodes, Known, Functions, Scanning

\* A target that is no function gets an external node.
LEMMA ScanInstructionNodes ==
  ASSUME ProgramInv, NodesInv, PhaseInv, ScanInstruction
  PROVE  NodesInv'
<1>1. CASE UNCHANGED <<nodes, indices>>
  BY <1>1 DEF ScanInstruction, NodesInv, NodesType, IndicesPointAtNodes, Known, Functions,
              Scanning
<1>2. CASE ~ UNCHANGED <<nodes, indices>>
  <2> DEFINE a == Instruction.directTarget
  <2>1. ~ Known(a) /\ AddNode(a, TRUE) /\ a \in Nat
    <3>1. IsDirectCall(Instruction) /\ ~ Known(a) /\ AddNode(a, TRUE)
      BY <1>2 DEF ScanInstruction, AddTarget
    <3>2. Instruction \in Instructions
      BY DEF ScanInstruction, ProgramInv, PhaseInv, Instruction, Caller, IsCached
    <3> QED BY <3>1, <3>2 DEF IsDirectCall, Instructions
  <2>2. a \notin Functions
    BY <2>1 DEF ScanInstruction, NodesInv, Scanning, Known
  <2> HIDE DEF a
  <2>3. /\ NodesType' /\ IndicesPointAtNodes'
        /\ DOMAIN indices' = DOMAIN indices \cup {a}
        /\ Len(nodes') = Len(nodes) + 1 /\ nodes'[Len(nodes) + 1] = Node(a, TRUE)
        /\ \A i \in 1 .. Len(nodes) : nodes'[i] = nodes[i]
    BY <2>1, NodeAdded DEF NodesInv
  <2>4. \A i \in 1 .. Len(nodes') :
          nodes'[i].isExternal <=> nodes'[i].address \notin Functions
    <3> TAKE i \in 1 .. Len(nodes')
    <3>1. CASE i = Len(nodes) + 1
      BY <2>2, <2>3, <3>1 DEF Node
    <3>2. CASE i # Len(nodes) + 1
      <4>1. i \in 1 .. Len(nodes)
        BY <2>3, <3>2 DEF NodesInv, NodesType
      <4> QED BY <2>3, <4>1 DEF ScanInstruction, NodesInv, Scanning
    <3> QED BY <3>1, <3>2
  <2> QED BY <2>3, <2>4 DEF ScanInstruction, NodesInv, Scanning, Functions
<1> QED BY <1>1, <1>2

LEMMA NodesHold ==
  ASSUME ProgramInv, NodesInv, PhaseInv, [Next]_vars, ~ Clear
  PROVE  NodesInv'
<1>1. CASE \E p \in Programs : Build(p)
  BY <1>1, EmptiedNodes DEF Build
<1>2. CASE DuplicateFunction \/ MissingInstructions
  BY <1>2, EmptiedNodes DEF DuplicateFunction, MissingInstructions, Fail
<1>3. CASE FunctionScanned \/ CallsScanned \/ SortEdges \/ UNCHANGED vars
  <2>1. /\ UNCHANGED <<program, nodes, indices, error>>
        /\ phase' = "functions" => phase = "functions" /\ current' = current
        /\ Scanning' \/ (phase' = "idle" /\ error' = "none")
             => Scanning \/ (phase = "idle" /\ error = "none")
    BY <1>3 DEF FunctionScanned, CallsScanned, SortEdges, vars, Scanning
  <2>2. NodesType' /\ IndicesPointAtNodes'
    BY <2>1 DEF NodesInv, NodesType, IndicesPointAtNodes, Known
  <2>3. Functions' = Functions /\ (phase' = "functions" =>
          FirstFunctions(current - 1)' = FirstFunctions(current - 1))
    BY <2>1 DEF Functions, FirstFunctions
  <2> HIDE DEF Functions, FirstFunctions
  <2> QED BY <2>1, <2>2, <2>3 DEF NodesInv
<1> QED BY <1>1, <1>2, <1>3, AddFunctionNodes, FunctionsAddedNodes, ScanInstructionNodes
        DEF Next, Step

LEMMA PhaseHolds ==
  ASSUME ProgramInv, PhaseInv, [Next]_vars, ~ Clear
  PROVE  PhaseInv'
<1>1. Len(program.functions) \in Nat
  BY FunctionsIndexed
<1>2. CASE \E p \in Programs : Build(p)
  <2>1. Len(program'.functions) \in Nat
    BY <1>2, ProgramsAssumption DEF Build
  <2> QED BY <1>2, <2>1 DEF Build, PhaseInv
<1>3. CASE DuplicateFunction \/ MissingInstructions
  <2>1. /\ phase' = "idle" /\ nodes' = <<>> /\ edges' = <<>> /\ indices' = <<>>
        /\ next' = next
    BY <1>3 DEF DuplicateFunction, MissingInstructions, Fail, Emptied
  <2> QED BY <2>1 DEF PhaseInv
<1>5. CASE AddFunction \/ FunctionScanned
  <2>1. /\ current <= Len(program.functions) /\ current' = current + 1
        /\ phase' = phase /\ phase \in {"functions", "calls"}
        /\ error' = error /\ next' \in {1, next} /\ UNCHANGED program
    BY <1>5 DEF AddFunction, FunctionScanned
  <2>2. current \in 1 .. Len(program.functions) + 1 /\ next \in Nat \ {0} /\ error = "none"
    BY <2>1 DEF PhaseInv
  <2> QED BY <1>1, <2>1, <2>2 DEF PhaseInv
<1>6. CASE FunctionsAdded \/ CallsScanned
  BY <1>1, <1>6 DEF PhaseInv, FunctionsAdded, CallsScanned
<1>7. CASE ScanInstruction \/ SortEdges
  <2>1. /\ error' = "none" /\ phase' \in {"idle", "calls"} /\ next' \in Nat \ {0}
        /\ phase' = "calls" => current' = current /\ phase = "calls"
        /\ UNCHANGED program
    BY <1>7 DEF PhaseInv, ScanInstruction, SortEdges
  <2> QED BY <2>1 DEF PhaseInv
<1>4. CASE UNCHANGED vars
  BY <1>4 DEF vars, PhaseInv
<1> QED BY <1>2, <1>3, <1>4, <1>5, <1>6, <1>7 DEF Next, Step

--------------------------------------------------------------------------------
(***************************************************************************)
(* The edges.                                                              *)
(***************************************************************************)

Edge == [caller : Nat, callee : Nat, callSite : Nat]

\* The calls of a by f, by their index.
Sites(f, a) ==
  {i \in 1 .. Len(program.code[f]) :
     IsDirectCall(program.code[f][i]) /\ program.code[f][i].directTarget = a}

AtFirstSite(e) ==
  \E i \in Sites(e.caller, e.callee) :
    /\ program.code[e.caller][i].address = e.callSite
    /\ \A j \in Sites(e.caller, e.callee) : i <= j

Sound(e) == e.caller \in Functions /\ IsCached(e.caller) /\ AtFirstSite(e)

\* The calls of f before its n-th instruction have an edge.
Covered(f, n) ==
  /\ IsCached(f)
  /\ \A j \in 1 .. Len(program.code[f]) :
       j < n /\ IsDirectCall(program.code[f][j]) =>
         Related(f, program.code[f][j].directTarget)

AllCovered(f) == Covered(f, Len(program.code[f]) + 1)

Targets == {e.callee : e \in ToSet(edges)}

Whole == phase = "sorting" \/ Built

EdgesInv ==
  /\ edges \in Seq(Edge)
  /\ \A e \in ToSet(edges) : Sound(e)
  /\ \A d, e \in ToSet(edges) : d.caller = e.caller /\ d.callee = e.callee => d = e
  /\ phase = "functions" => edges = <<>> /\ next = 1
  /\ phase = "calls" =>
       /\ \A i \in 1 .. current - 1 : AllCovered(program.functions[i])
       /\ current <= Len(program.functions) /\ next > 1 => Covered(Caller, next)
  /\ Scanning \/ Built => DOMAIN indices = Functions \cup Targets
  /\ Whole => \A f \in Functions : AllCovered(f)
  /\ Built => \A i \in 2 .. Len(edges) : Before(edges[i - 1], edges[i])

LEMMA NoEdgesInv ==
  ASSUME edges' = <<>>, phase' = "functions" => next' = 1,
         phase' = "functions" \/ (phase' = "idle" /\ error' # "none")
  PROVE  EdgesInv'
<1>1. ToSet(edges)' = {} /\ edges' \in Seq(Edge)
  BY ToSetEmpty
<1> HIDE DEF ToSet
<1> QED BY <1>1 DEF EdgesInv, Scanning, Built, Whole

IInv == ProgramInv /\ NodesInv /\ PhaseInv /\ EdgesInv

LEMMA InitHolds == Init => IInv
<1> SUFFICES ASSUME Init PROVE IInv
  OBVIOUS
<1>1. ProgramInv
  BY DEF Init, Nobody, ProgramInv
<1>2. /\ program.functions = <<>> /\ nodes = <<>> /\ indices = <<>> /\ edges = <<>>
      /\ phase = "idle" /\ next = 1 /\ error = "none"
  BY DEF Init, Nobody
<1>3. Functions = {} /\ ToSet(edges) = {} /\ edges \in Seq(Edge)
  BY <1>2, ToSetEmpty DEF Functions
<1>4. Targets = {}
  BY <1>3 DEF Targets
<1>5. NodesType /\ IndicesPointAtNodes /\ DOMAIN indices = {} /\ Len(nodes) = 0
  BY <1>2, NothingThere
<1>6. NodesInv
  BY <1>2, <1>3, <1>5 DEF NodesInv, Scanning
<1>7. PhaseInv
  BY <1>2 DEF PhaseInv
<1> HIDE DEF ToSet, Targets, Functions
<1>8. EdgesInv
  BY <1>2, <1>3, <1>4, <1>5 DEF EdgesInv, Scanning, Built, Whole
<1> QED BY <1>1, <1>6, <1>7, <1>8 DEF IInv

\* A graph that is cleared is as it was made.
LEMMA ClearHolds == Clear => IInv'
<1>1. Clear => Init'
  BY DEF Clear, Emptied, Init
<1>2. Init' => IInv'
  BY InitHolds, PTL
<1> QED BY <1>1, <1>2

\* A set of edges by which the calls scanned so far are covered stays so.
LEMMA AddedEdge ==
  ASSUME ProgramInv, PhaseInv, EdgesInv, ScanInstruction
  PROVE  /\ edges' \in Seq(Edge)
         /\ \A e \in ToSet(edges)' : Sound(e)
         /\ \A d, e \in ToSet(edges)' : d.caller = e.caller /\ d.callee = e.callee => d = e
         /\ ToSet(edges) \subseteq ToSet(edges)'
         /\ IsDirectCall(Instruction) =>
              /\ \E e \in ToSet(edges)' :
                   e.caller = Caller /\ e.callee = Instruction.directTarget
              /\ \A e \in ToSet(edges)' \ ToSet(edges) : e.callee = Instruction.directTarget
         /\ ~ IsDirectCall(Instruction) => edges' = edges
<1> DEFINE f == Caller
           a == Instruction.directTarget
           d == [caller |-> f, callee |-> a, callSite |-> Instruction.address]
<1>1. /\ f \in Functions /\ f \in Nat /\ IsCached(f) /\ Instruction \in Instructions
      /\ next \in 1 .. Len(program.code[f]) /\ Instruction = program.code[f][next]
      /\ program.code[f] \in Seq(Instructions)
  <2>1. current \in 1 .. Len(program.functions)
    BY FunctionsIndexed DEF ScanInstruction, PhaseInv
  <2>2. Caller \in Functions /\ Caller \in Nat
    BY <2>1, FunctionsIndexed DEF Caller
  <2>3. program.code[Caller] \in Seq(Instructions)
    BY DEF ScanInstruction, ProgramInv, IsCached
  <2>4. next \in 1 .. Len(program.code[Caller])
    BY <2>3 DEF ScanInstruction, PhaseInv
  <2> QED BY <2>2, <2>3, <2>4 DEF ScanInstruction, Instruction
<1>2. CASE edges' = edges /\ ~ IsDirectCall(Instruction)
  BY <1>2 DEF EdgesInv
<1>3. CASE edges' = edges /\ IsDirectCall(Instruction) /\ Related(f, a)
  BY <1>3 DEF EdgesInv, Related
<1>4. CASE edges' = Append(edges, d) /\ IsDirectCall(Instruction) /\ ~ Related(f, a)
  <2>1. d \in Edge /\ d.caller = f /\ d.callee = a /\ d.callSite = Instruction.address
    BY <1>1, <1>4 DEF Edge, IsDirectCall, Instructions
  <2> HIDE DEF d, f, a
  <2>2. edges' \in Seq(Edge) /\ ToSet(edges)' = ToSet(edges) \cup {d}
    BY <1>4, <2>1, ToSetAppend DEF EdgesInv
  <2>3. next \in Sites(f, a)
    BY <1>1, <1>4 DEF Sites, a
  <2>4. \A j \in Sites(f, a) : next <= j
    <3> SUFFICES ASSUME NEW j \in Sites(f, a), j < next PROVE FALSE
      BY <1>1 DEF Sites
    <3>1. next > 1 /\ current <= Len(program.functions) /\ phase = "calls"
      BY <1>1 DEF ScanInstruction, Sites
    <3>2. Covered(f, next)
      BY <3>1 DEF EdgesInv, f
    <3>3. Related(f, a)
      BY <3>2 DEF Covered, Sites
    <3> QED BY <1>4, <3>3
  <2>5. Sound(d)
    BY <1>1, <2>1, <2>3, <2>4 DEF Sound, AtFirstSite
  <2>6. \A e \in ToSet(edges) : ~ (e.caller = f /\ e.callee = a)
    BY <1>4 DEF Related
  <2> HIDE DEF Sound
  <2> QED BY <1>4, <2>1, <2>2, <2>5, <2>6 DEF EdgesInv, f, a
<1> QED BY <1>2, <1>3, <1>4 DEF ScanInstruction, AddEdge

\* Whatever depends on the program only, and on edges that are kept.
LEMMA ProgramKept ==
  ASSUME UNCHANGED program, ToSet(edges) \subseteq ToSet(edges)'
  PROVE  /\ Functions' = Functions /\ Caller' = program.functions[current']
         /\ \A e : Sound(e)' <=> Sound(e)
         /\ \A f, n : Covered(f, n) => Covered(f, n)'
         /\ \A f : AllCovered(f) => AllCovered(f)'
<1>1. \A f, a : Sites(f, a)' = Sites(f, a)
  BY DEF Sites, IsDirectCall
<1>2. \A f, a : Related(f, a) => Related(f, a)'
  BY DEF Related
<1>3. \A f, n : Covered(f, n) => Covered(f, n)'
  BY <1>2 DEF Covered, IsCached, IsDirectCall
<1>4. \A e : Sound(e)' <=> Sound(e)
  BY <1>1 DEF Sound, AtFirstSite, Functions, IsCached
<1>5. Functions' = Functions /\ Caller' = program.functions[current']
  BY DEF Functions, Caller
<1>6. \A f : AllCovered(f) => AllCovered(f)'
  BY <1>3 DEF AllCovered
<1> QED BY <1>3, <1>4, <1>5, <1>6

LEMMA ScanInstructionEdges ==
  ASSUME ProgramInv, NodesInv, PhaseInv, EdgesInv, ScanInstruction
  PROVE  EdgesInv'
<1> DEFINE a == Instruction.directTarget
<1>1. /\ edges' \in Seq(Edge)
      /\ \A e \in ToSet(edges)' : Sound(e)
      /\ \A d, e \in ToSet(edges)' : d.caller = e.caller /\ d.callee = e.callee => d = e
      /\ ToSet(edges) \subseteq ToSet(edges)'
      /\ IsDirectCall(Instruction) =>
           /\ \E e \in ToSet(edges)' : e.caller = Caller /\ e.callee = a
           /\ \A e \in ToSet(edges)' \ ToSet(edges) : e.callee = a
      /\ ~ IsDirectCall(Instruction) => edges' = edges
  BY AddedEdge
<1>2. /\ UNCHANGED <<program, phase, current, error>> /\ next' = next + 1
      /\ phase = "calls" /\ next \in Nat /\ next >= 1 /\ IsCached(Caller)
      /\ current \in Nat
  BY FunctionsIndexed DEF ScanInstruction, PhaseInv
<1>3. /\ Functions' = Functions /\ Caller' = Caller
      /\ \A e : Sound(e)' <=> Sound(e)
      /\ \A f, n : Covered(f, n) => Covered(f, n)'
      /\ \A f : AllCovered(f) => AllCovered(f)'
  BY <1>1, <1>2, ProgramKept DEF Caller
<1>4. Covered(Caller, next)'
  <2> DEFINE C == program.code[Caller]
  <2>1. \A j \in 1 .. Len(C) :
          j < next /\ IsDirectCall(C[j]) => Related(Caller, C[j].directTarget)
    <3> SUFFICES ASSUME NEW j \in 1 .. Len(C), j < next, IsDirectCall(C[j])
                 PROVE  Related(Caller, C[j].directTarget)
      OBVIOUS
    <3>1. next > 1 /\ current <= Len(program.functions)
      BY <1>2 DEF ScanInstruction
    <3> QED BY <1>2, <3>1 DEF EdgesInv, Covered
  <2>2. \A j \in 1 .. Len(C) :
          j < next + 1 /\ IsDirectCall(C[j]) => Related(Caller, C[j].directTarget)'
    <3> SUFFICES ASSUME NEW j \in 1 .. Len(C), j < next + 1, IsDirectCall(C[j])
                 PROVE  Related(Caller, C[j].directTarget)'
      OBVIOUS
    <3>1. CASE j = next
      BY <1>1, <1>2, <1>3, <3>1 DEF Related, Instruction
    <3>2. CASE j < next
      <4>1. Related(Caller, C[j].directTarget)
        BY <2>1, <3>2
      <4> QED BY <1>1, <1>2, <1>3, <4>1 DEF Related
    <3> QED BY <1>2, <3>1, <3>2
  <2>3. \A b : Related(Caller, b)' <=> \E e \in ToSet(edges)' : e.caller = Caller /\ e.callee = b
    BY <1>3 DEF Related
  <2> QED BY <1>2, <1>3, <2>2, <2>3 DEF Covered, IsCached, IsDirectCall
<1>5. (DOMAIN indices)' = Functions \cup Targets'
  <2>1. CASE IsDirectCall(Instruction)
    <3>1. Targets' = Targets \cup {a}
      BY <1>1, <2>1 DEF Targets
    <3>2. CASE Known(a)
      BY <1>2, <2>1, <3>1, <3>2
         DEF ScanInstruction, AddTarget, EdgesInv, Scanning, Known
    <3>3. CASE ~ Known(a)
      <4>1. (DOMAIN indices)' = DOMAIN indices \cup {a}
        BY <2>1, <3>3 DEF ScanInstruction, AddTarget, AddNode
      <4> QED BY <1>2, <3>1, <4>1 DEF EdgesInv, Scanning
    <3> QED BY <3>2, <3>3
  <2>2. CASE ~ IsDirectCall(Instruction)
    BY <1>1, <1>2, <2>2 DEF ScanInstruction, EdgesInv, Scanning, Targets
  <2> QED BY <2>1, <2>2
<1>6. \A i \in 1 .. current - 1 : AllCovered(program.functions[i])'
  <2>1. \A i \in 1 .. current - 1 : AllCovered(program.functions[i])
    BY <1>2 DEF EdgesInv
  <2> QED BY <1>2, <1>3, <2>1
<1> HIDE DEF AllCovered, Covered, Sound, Functions, Targets
<1> QED BY <1>1, <1>2, <1>3, <1>4, <1>5, <1>6 DEF EdgesInv, Scanning, Whole, Built

LEMMA FunctionScannedEdges ==
  ASSUME ProgramInv, PhaseInv, EdgesInv, FunctionScanned
  PROVE  EdgesInv'
<1>1. /\ UNCHANGED <<program, phase, edges, indices, error>>
      /\ phase = "calls" /\ current' = current + 1 /\ next' = 1
      /\ IsCached(Caller) /\ next > Len(program.code[Caller])
      /\ current \in 1 .. Len(program.functions)
  BY FunctionsIndexed DEF FunctionScanned, PhaseInv
<1>2. AllCovered(Caller)
  <2>1. program.code[Caller] \in Seq(Instructions) /\ next \in Nat \ {0}
    BY <1>1 DEF ProgramInv, PhaseInv, IsCached
  <2>2. CASE next > 1
    <3>1. Covered(Caller, next)
      BY <1>1, <2>2 DEF EdgesInv
    <3> QED BY <1>1, <2>1, <3>1 DEF Covered, AllCovered
  <2>3. CASE next = 1
    <3>1. 1 .. Len(program.code[Caller]) = {}
      BY <1>1, <2>1, <2>3
    <3> QED BY <1>1, <3>1 DEF Covered, AllCovered
  <2> QED BY <2>1, <2>2, <2>3
<1>3. \A i \in 1 .. current : AllCovered(program.functions[i])
  BY <1>1, <1>2 DEF EdgesInv, Caller
<1>4. /\ Functions' = Functions /\ \A e : Sound(e)' <=> Sound(e)
      /\ \A f : AllCovered(f) => AllCovered(f)'
  BY <1>1, ProgramKept
<1>5. \A i \in 1 .. current' - 1 : i \in 1 .. current
  BY <1>1
<1>6. Targets' = Targets
  BY <1>1 DEF Targets
<1> HIDE DEF AllCovered, Sound, Functions, Targets
<1> QED BY <1>1, <1>3, <1>4, <1>5, <1>6 DEF EdgesInv, Scanning, Whole, Built

LEMMA CallsScannedEdges ==
  ASSUME ProgramInv, PhaseInv, EdgesInv, CallsScanned
  PROVE  EdgesInv'
<1>1. /\ UNCHANGED <<program, edges, indices, error>> /\ phase = "calls"
      /\ phase' = "sorting" /\ current - 1 = Len(program.functions)
  BY FunctionsIndexed DEF CallsScanned, PhaseInv
<1>2. \A f \in Functions : AllCovered(f)
  <2> TAKE f \in Functions
  <2>1. PICK i \in 1 .. Len(program.functions) : f = program.functions[i]
    BY FunctionsIndexed DEF FirstFunctions
  <2> QED BY <1>1, <2>1 DEF EdgesInv
<1>3. /\ Functions' = Functions /\ \A e : Sound(e)' <=> Sound(e)
      /\ \A f : AllCovered(f) => AllCovered(f)'
  BY <1>1, ProgramKept
<1>4. Targets' = Targets
  BY <1>1 DEF Targets
<1> HIDE DEF AllCovered, Sound, Functions, Targets
<1> QED BY <1>1, <1>2, <1>3, <1>4 DEF EdgesInv, Scanning, Whole, Built

\* An arrangement of the elements of a sequence.
LEMMA Arranged ==
  ASSUME NEW S, NEW s \in Seq(S), NEW t \in SetToSeqs(ToSet(s))
  PROVE  /\ t \in Seq(S) /\ ToSet(t) = ToSet(s)
         /\ \A i, j \in 1 .. Len(t) : i # j => t[i] # t[j]
<1> DEFINE T == ToSet(s)
           n == Cardinality(T)
<1>1. T = {s[i] : i \in 1 .. Len(s)} /\ T \subseteq S
  BY ToSetIndexed, ToSetSubset
<1>2. IsFiniteSet(T)
  <2>1. s \in Surjection(1 .. Len(s), T)
    BY <1>1 DEF Surjection
  <2>2. IsFiniteSet(1 .. Len(s))
    BY FS_Interval
  <2> QED BY <2>1, <2>2, FS_Surjection
<1>3. n \in Nat /\ IsFiniteSet(1 .. n) /\ Cardinality(1 .. n) = n
  BY <1>2, FS_CardinalityType, FS_Interval
<1> HIDE DEF T
<1>4. /\ t \in [1 .. n -> T] /\ \A i, j \in 1 .. n : i # j => t[i] # t[j]
  BY DEF SetToSeqs, T
<1>5. t \in Injection(1 .. n, T)
  BY <1>4 DEF Injection, IsInjective
<1>6. t \in Surjection(1 .. n, T)
  BY <1>2, <1>3, <1>5, FS_Injection
<1>7. t \in Seq(T) /\ Len(t) = n
  BY <1>3, <1>4
<1>8. {t[i] : i \in 1 .. Len(t)} = T
  BY <1>6, <1>7 DEF Surjection
<1>9. ToSet(t) = T
  BY <1>7, <1>8, ToSetIndexed
<1>10. t \in Seq(S)
  BY <1>1, <1>7, <1>4
<1> QED BY <1>4, <1>7, <1>9, <1>10 DEF T

LEMMA SortEdgesEdges ==
  ASSUME ProgramInv, PhaseInv, EdgesInv, SortEdges
  PROVE  EdgesInv'
<1>1. /\ UNCHANGED <<program, indices, error>> /\ phase = "sorting" /\ phase' = "idle"
      /\ error' = "none"
      /\ edges' \in SetToSeqs(ToSet(edges))
      /\ \A i \in 2 .. Len(edges') : ~ Before(edges'[i], edges'[i - 1])
  BY DEF SortEdges, PhaseInv
<1>2. /\ edges' \in Seq(Edge) /\ ToSet(edges)' = ToSet(edges)
      /\ \A i, j \in 1 .. Len(edges') : i # j => edges'[i] # edges'[j]
  BY <1>1, Arranged DEF EdgesInv
<1>3. \A i \in 2 .. Len(edges') : Before(edges'[i - 1], edges'[i])
  <2> TAKE i \in 2 .. Len(edges')
  <2> DEFINE d == edges'[i - 1]
             e == edges'[i]
  <2>1. i \in 1 .. Len(edges') /\ i - 1 \in 1 .. Len(edges') /\ i # i - 1
    BY <1>2
  <2>2. d \in Edge /\ e \in Edge /\ d # e /\ ~ Before(e, d)
    BY <1>1, <1>2, <2>1
  <2>3. d \in ToSet(edges) /\ e \in ToSet(edges)
    <3>1. ToSet(edges)' = {edges'[k] : k \in 1 .. Len(edges')}
      BY <1>2, ToSetIndexed
    <3> QED BY <1>2, <2>1, <3>1
  <2>4. ~ (d.caller = e.caller /\ d.callee = e.callee)
    BY <2>2, <2>3 DEF EdgesInv
  <2> HIDE DEF d, e
  <2>5. Before(d, e)
    BY <2>2, <2>4 DEF Before, Edge
  <2> QED BY <2>5 DEF d, e
<1>4. /\ Functions' = Functions /\ \A e : Sound(e)' <=> Sound(e)
      /\ \A f : AllCovered(f) => AllCovered(f)'
  BY <1>1, <1>2, ProgramKept
<1>5. Targets' = Targets
  BY <1>2 DEF Targets
<1>6. \A i \in 2 .. Len(edges)' : Before(edges[i - 1], edges[i])'
  BY <1>3 DEF Before
<1> HIDE DEF AllCovered, Sound, Functions, Targets, Before
<1> QED BY <1>1, <1>2, <1>4, <1>5, <1>6 DEF EdgesInv, Scanning, Whole, Built

LEMMA EdgesHold ==
  ASSUME ProgramInv, NodesInv, PhaseInv, EdgesInv, [Next]_vars, ~ Clear
  PROVE  EdgesInv'
<1>1. CASE \E p \in Programs : Build(p)
  BY <1>1, NoEdgesInv DEF Build, Emptied
<1>2. CASE DuplicateFunction \/ MissingInstructions
  BY <1>2, NoEdgesInv DEF DuplicateFunction, MissingInstructions, Fail, Emptied
<1>3. CASE AddFunction
  BY <1>3, NoEdgesInv DEF AddFunction, EdgesInv
<1>4. CASE FunctionsAdded
  <2>1. /\ edges' = <<>> /\ next' = 1 /\ current' = 1 /\ phase' = "calls"
        /\ DOMAIN indices' = Functions'
    <3>1. edges = <<>> /\ next = 1 /\ current - 1 = Len(program.functions)
      BY <1>4, FunctionsIndexed DEF FunctionsAdded, PhaseInv, EdgesInv
    <3>2. DOMAIN indices = Functions
      BY <1>4, <3>1, FunctionsIndexed DEF FunctionsAdded, NodesInv
    <3> QED BY <1>4, <3>1, <3>2 DEF FunctionsAdded, Functions
  <2>2. ToSet(edges)' = {} /\ edges' \in Seq(Edge)
    BY <2>1, ToSetEmpty
  <2>3. Targets' = {}
    BY <2>2 DEF Targets
  <2> HIDE DEF ToSet, Targets, Functions
  <2> QED BY <2>1, <2>2, <2>3 DEF EdgesInv, Scanning, Built, Whole
<1>5. CASE UNCHANGED vars
  <2>1. UNCHANGED <<program, phase, current, next, edges, indices, error>>
    BY <1>5 DEF vars
  <2>2. /\ Functions' = Functions /\ Caller' = Caller
        /\ \A e : Sound(e)' <=> Sound(e)
        /\ \A f, n : Covered(f, n) => Covered(f, n)'
        /\ \A f : AllCovered(f) => AllCovered(f)'
    BY <2>1, ProgramKept DEF Caller
  <2>3. Targets' = Targets
    BY <2>1 DEF Targets
  <2> HIDE DEF AllCovered, Covered, Sound, Functions, Targets, Caller
  <2> QED BY <2>1, <2>2, <2>3 DEF EdgesInv, Scanning, Whole, Built
<1> QED BY <1>1, <1>2, <1>3, <1>4, <1>5, ScanInstructionEdges, FunctionScannedEdges,
        CallsScannedEdges, SortEdgesEdges DEF Next, Step

--------------------------------------------------------------------------------
(***************************************************************************)
(* The theorems.                                                           *)
(***************************************************************************)

LEMMA StepHolds == IInv /\ [Next]_vars => IInv'
<1>1. CASE Clear
  BY <1>1, ClearHolds
<1>2. CASE ~ Clear
  BY <1>2, ProgramHolds, NodesHold, PhaseHolds, EdgesHold DEF IInv
<1> QED BY <1>1, <1>2

LEMMA InvariantHolds == Spec => []IInv
BY InitHolds, StepHolds, PTL DEF Spec

(***************************************************************************)
(* The address asked for is the address of the node that is found.         *)
(***************************************************************************)
THEOREM NodesIndexed == Spec => []IndicesPointAtNodes
<1>1. IInv => IndicesPointAtNodes
  BY DEF IInv, NodesInv
<1> QED BY InvariantHolds, <1>1, PTL

(***************************************************************************)
(* External nodes are those of the addresses that no function has.         *)
(***************************************************************************)
THEOREM ExternalCorrect == Spec => []ExternalMeansNoFunction
<1>1. IInv => ExternalMeansNoFunction
  <2> SUFFICES ASSUME IInv, phase # "functions", error = "none", NEW n \in ToSet(nodes)
               PROVE  n.isExternal <=> n.address \notin ToSet(program.functions)
    BY DEF ExternalMeansNoFunction
  <2>1. PICK i \in 1 .. Len(nodes) : n = nodes[i]
    BY ToSetIndexed DEF IInv, NodesInv, NodesType
  <2>2. Scanning \/ (phase = "idle" /\ error = "none")
    BY DEF IInv, PhaseInv, Scanning
  <2> QED BY <2>1, <2>2 DEF IInv, NodesInv, Functions
<1> QED BY InvariantHolds, <1>1, PTL

(***************************************************************************)
(* The call site of an edge is that of the first call of its callee.       *)
(***************************************************************************)
THEOREM CallSiteCorrect == Spec => []CallSiteIsFirst
<1>1. IInv => CallSiteIsFirst
  BY DEF IInv, EdgesInv, CallSiteIsFirst, Sound, AtFirstSite, Sites
<1> QED BY InvariantHolds, <1>1, PTL

(***************************************************************************)
(* No part of a graph is left by a build that fails.                       *)
(***************************************************************************)
THEOREM FailureEmpty == Spec => []FailureLeavesNothing
<1>1. IInv => FailureLeavesNothing
  BY DEF IInv, PhaseInv, FailureLeavesNothing
<1> QED BY InvariantHolds, <1>1, PTL

\* A call of a function is a call at one of its instructions.
LEMMA CallsIndexed ==
  ASSUME ProgramInv, NEW f, IsCached(f)
  PROVE  \A c : c \in CallsOf(program, f) <=>
           \E j \in 1 .. Len(program.code[f]) :
             /\ IsDirectCall(program.code[f][j])
             /\ c = <<f, program.code[f][j].directTarget>>
<1>1. ToSet(program.code[f]) = {program.code[f][j] : j \in 1 .. Len(program.code[f])}
  BY ToSetIndexed DEF ProgramInv, IsCached
<1> HIDE DEF ToSet
<1> QED BY <1>1 DEF CallsOf, IsDirectCall

LEMMA PairsAreCalls ==
  ASSUME ProgramInv, EdgesInv, Built
  PROVE  Pairs = DirectCalls(program)
<1>1. \A c \in Pairs : c \in DirectCalls(program)
  <2> TAKE c \in Pairs
  <2>1. PICK e \in ToSet(edges) : c = <<e.caller, e.callee>>
    BY DEF Pairs
  <2>2. e.caller \in Functions /\ IsCached(e.caller) /\ AtFirstSite(e)
    BY <2>1 DEF EdgesInv, Sound
  <2>3. c \in CallsOf(program, e.caller)
    BY <2>1, <2>2, CallsIndexed DEF AtFirstSite, Sites
  <2> QED BY <2>2, <2>3 DEF DirectCalls, Functions
<1>2. \A c \in DirectCalls(program) : c \in Pairs
  <2> TAKE c \in DirectCalls(program)
  <2>1. PICK f \in Functions : c \in CallsOf(program, f)
    BY DEF DirectCalls, Functions
  <2>2. IsCached(f) /\ AllCovered(f)
    BY <2>1 DEF EdgesInv, Whole, AllCovered, Covered
  <2>3. PICK j \in 1 .. Len(program.code[f]) :
          IsDirectCall(program.code[f][j]) /\ c = <<f, program.code[f][j].directTarget>>
    BY <2>1, <2>2, CallsIndexed
  <2>4. program.code[f] \in Seq(Instructions)
    BY <2>2 DEF ProgramInv, IsCached
  <2>5. Related(f, program.code[f][j].directTarget)
    BY <2>2, <2>3, <2>4 DEF AllCovered, Covered
  <2> QED BY <2>3, <2>5 DEF Related, Pairs
<1> QED BY <1>1, <1>2

(***************************************************************************)
(* The edges of a built graph are the direct calls of its functions, once  *)
(* each and in order, and its nodes those of the functions and of the      *)
(* addresses they call.                                                    *)
(***************************************************************************)
THEOREM EdgesCorrect == Spec => []EdgesAreTheCalls
<1>1. IInv => EdgesAreTheCalls
  <2> SUFFICES ASSUME IInv, Built PROVE EdgesAreTheCalls
    BY DEF EdgesAreTheCalls
  <2>1. Pairs = DirectCalls(program)
    BY PairsAreCalls DEF IInv
  <2>2. Targets = {c[2] : c \in DirectCalls(program)}
    <3> DEFINE E == ToSet(edges)
    <3>1. Pairs = {<<e.caller, e.callee>> : e \in E} /\ Targets = {e.callee : e \in E}
      BY DEF Pairs, Targets
    <3> HIDE DEF E
    <3>2. \A e \in E : <<e.caller, e.callee>> \in Pairs /\ <<e.caller, e.callee>>[2] = e.callee
      BY <3>1
    <3>3. \A c \in Pairs : \E e \in E : c[2] = e.callee
      BY <3>1
    <3>4. Targets = {c[2] : c \in Pairs}
      <4>1. \A b : b \in Targets <=> \E e \in E : b = e.callee
        BY <3>1
      <4>2. \A b \in Targets : \E c \in Pairs : b = c[2]
        <5> TAKE b \in Targets
        <5>1. PICK e \in E : b = e.callee
          BY <4>1
        <5> DEFINE c == <<e.caller, e.callee>>
        <5>2. c \in Pairs /\ c[2] = b
          BY <3>2, <5>1
        <5> HIDE DEF c
        <5> QED BY <5>2
      <4>3. \A c \in Pairs : c[2] \in Targets
        BY <3>3, <4>1
      <4> HIDE DEF Pairs, Targets
      <4> QED BY <4>2, <4>3
    <3> QED BY <2>1, <3>4
  <2>3. DOMAIN indices = Functions \cup Targets
    BY DEF IInv, EdgesInv
  <2>4. {n.address : n \in ToSet(nodes)} = DOMAIN indices
    <3>1. ToSet(nodes) = {nodes[i] : i \in 1 .. Len(nodes)}
      BY ToSetIndexed DEF IInv, NodesInv, NodesType
    <3>2. IndicesPointAtNodes
      BY DEF IInv, NodesInv
    <3> DEFINE I == 1 .. Len(nodes)
    <3> HIDE DEF I
    <3>3. {n.address : n \in {nodes[i] : i \in I}} = {nodes[i].address : i \in I}
      OBVIOUS
    <3>4. \A a \in DOMAIN indices : \E i \in I : nodes[i].address = a
      BY <3>2 DEF IndicesPointAtNodes, I
    <3>5. \A i \in I : nodes[i].address \in DOMAIN indices
      BY <3>2 DEF IndicesPointAtNodes, Known, I
    <3>6. {nodes[i].address : i \in I} = DOMAIN indices
      BY <3>4, <3>5
    <3> QED BY <3>1, <3>3, <3>6 DEF I
  <2>5. \A i \in 2 .. Len(edges) : Before(edges[i - 1], edges[i])
    BY DEF IInv, EdgesInv
  <2> QED BY <2>1, <2>2, <2>3, <2>4, <2>5 DEF EdgesAreTheCalls, Functions
<1> QED BY InvariantHolds, <1>1, PTL

(***************************************************************************)
(* A graph is that of the calls of its program, or empty after a failure,  *)
(* and its index and external nodes are right at every moment of a build.  *)
(***************************************************************************)
THEOREM GraphCorrect == Spec => []GraphExact
<1>1. /\ EdgesAreTheCalls /\ FailureLeavesNothing /\ IndicesPointAtNodes
      /\ ExternalMeansNoFunction /\ CallSiteIsFirst
      => GraphExact
  BY DEF GraphExact
<1> QED
  BY <1>1, EdgesCorrect, FailureEmpty, NodesIndexed, ExternalCorrect, CallSiteCorrect, PTL

\* The least of a set of numbers, which induction is made of here.
LEMMA LeastElement ==
  ASSUME NEW S \in SUBSET Nat, S # {}
  PROVE  \E m \in S : \A n \in S : m <= n
<1> DEFINE Less == {ss \in Nat \X Nat : ss[1] < ss[2]}
<1>1. IsWellFoundedOn(Less, Nat)
  BY NatLessThanWellFounded, Zenon DEF OpToRel
<1>2. \E m \in S : \A n \in S : ~ (<<n, m>> \in Less)
  <2> HIDE DEF Less
  <2> QED BY <1>1, WFMin
<1>3. \A n, m \in Nat : ~ (<<n, m>> \in Less) => m <= n
  OBVIOUS
<1> QED BY <1>2, <1>3

--------------------------------------------------------------------------------
(***************************************************************************)
(* Sorting.  Each index has a rank in a total order of the indices, and    *)
(* the ranks are the indices again.                                        *)
(***************************************************************************)

TotalOrder(n, L) ==
  /\ L \subseteq (1 .. n) \X (1 .. n)
  /\ \A i \in 1 .. n : <<i, i>> \in L
  /\ \A i, j \in 1 .. n : <<i, j>> \in L \/ <<j, i>> \in L
  /\ \A i, j \in 1 .. n : <<i, j>> \in L /\ <<j, i>> \in L => i = j
  /\ \A i, j, k \in 1 .. n : <<i, j>> \in L /\ <<j, k>> \in L => <<i, k>> \in L

UpTo(n, L, i) == {j \in 1 .. n : <<j, i>> \in L}

Rank(n, L, i) == Cardinality(UpTo(n, L, i))

LEMMA RanksFit ==
  ASSUME NEW n \in Nat, NEW L, TotalOrder(n, L)
  PROVE  /\ \A i \in 1 .. n : Rank(n, L, i) \in 1 .. n
         /\ \A i, j \in 1 .. n : <<i, j>> \in L /\ i # j => Rank(n, L, i) < Rank(n, L, j)
<1>1. IsFiniteSet(1 .. n) /\ Cardinality(1 .. n) = n
  BY FS_Interval
<1>2. ASSUME NEW i \in 1 .. n
      PROVE  /\ IsFiniteSet(UpTo(n, L, i)) /\ i \in UpTo(n, L, i)
             /\ Rank(n, L, i) \in 1 .. n
  <2>1. UpTo(n, L, i) \in SUBSET (1 .. n) /\ i \in UpTo(n, L, i)
    BY DEF UpTo, TotalOrder
  <2>2. IsFiniteSet(UpTo(n, L, i)) /\ Cardinality(UpTo(n, L, i)) <= n
    BY <1>1, <2>1, FS_Subset
  <2>3. Cardinality(UpTo(n, L, i)) \in Nat /\ Cardinality(UpTo(n, L, i)) # 0
    BY <2>1, <2>2, FS_CardinalityType, FS_EmptySet
  <2> QED BY <2>1, <2>2, <2>3 DEF Rank
<1>3. ASSUME NEW i \in 1 .. n, NEW j \in 1 .. n, <<i, j>> \in L, i # j
      PROVE  Rank(n, L, i) < Rank(n, L, j)
  <2>1. UpTo(n, L, i) \in SUBSET UpTo(n, L, j)
    BY <1>3 DEF UpTo, TotalOrder
  <2>2. j \in UpTo(n, L, j) /\ j \notin UpTo(n, L, i)
    BY <1>3 DEF UpTo, TotalOrder
  <2>3. Cardinality(UpTo(n, L, i)) <= Cardinality(UpTo(n, L, j))
        /\ Cardinality(UpTo(n, L, i)) # Cardinality(UpTo(n, L, j))
    BY <1>2, <2>1, <2>2, FS_Subset
  <2>4. Rank(n, L, i) \in 1 .. n /\ Rank(n, L, j) \in 1 .. n
    BY <1>2
  <2> QED BY <2>3, <2>4 DEF Rank
<1> QED BY <1>2, <1>3

LEMMA RanksAll ==
  ASSUME NEW n \in Nat, NEW L, TotalOrder(n, L)
  PROVE  \A k \in 1 .. n : \E i \in 1 .. n : Rank(n, L, i) = k
<1> DEFINE r == [i \in 1 .. n |-> Rank(n, L, i)]
<1>1. r \in [1 .. n -> 1 .. n]
  BY RanksFit
<1>2. \A i, j \in 1 .. n : r[i] = r[j] => i = j
  <2> SUFFICES ASSUME NEW i \in 1 .. n, NEW j \in 1 .. n, r[i] = r[j], i # j PROVE FALSE
    OBVIOUS
  <2>1. Rank(n, L, i) < Rank(n, L, j) \/ Rank(n, L, j) < Rank(n, L, i)
    BY RanksFit DEF TotalOrder
  <2>2. Rank(n, L, i) = Rank(n, L, j) /\ Rank(n, L, i) \in 1 .. n
    BY RanksFit
  <2> QED BY <2>1, <2>2
<1> HIDE DEF r
<1>3. r \in Injection(1 .. n, 1 .. n)
  BY <1>1, <1>2, Fun_IsInj
<1>4. IsFiniteSet(1 .. n)
  BY FS_Interval
<1>5. r \in Surjection(1 .. n, 1 .. n)
  BY <1>3, <1>4, FS_Injection
<1>6. \A k \in 1 .. n : \E i \in 1 .. n : r[i] = k
  BY <1>5, Fun_SurjectionProperties
<1> QED BY <1>6 DEF r

ByRank(n, L, s) == [k \in 1 .. n |-> s[CHOOSE i \in 1 .. n : Rank(n, L, i) = k]]

\* t has the elements of s, in the order L of their indices.
Arranges(n, L, s, t) ==
  /\ \A x : (\E k \in 1 .. n : t[k] = x) <=> (\E i \in 1 .. n : s[i] = x)
  /\ \A k, m \in 1 .. n : k < m =>
       \E i, j \in 1 .. n :
         <<i, j>> \in L /\ i # j /\ t[k] = s[i] /\ t[m] = s[j]

\* What SortedBy returns, when the places are the ranks of a total order.
LEMMA SortedByRank ==
  ASSUME NEW n \in Nat, NEW L, TotalOrder(n, L),
         NEW S, NEW s \in [1 .. n -> S], NEW t,
         t = ByRank(n, L, s)
  PROVE  t \in [1 .. n -> S] /\ Arranges(n, L, s, t)
<1> DEFINE p(k) == CHOOSE i \in 1 .. n : Rank(n, L, i) = k
<1>1. \A k \in 1 .. n : p(k) \in 1 .. n /\ Rank(n, L, p(k)) = k /\ t[k] = s[p(k)]
  <2> TAKE k \in 1 .. n
  <2>1. \E i \in 1 .. n : Rank(n, L, i) = k
    BY RanksAll
  <2>2. p(k) \in 1 .. n /\ Rank(n, L, p(k)) = k
    BY <2>1
  <2> QED BY <2>2 DEF ByRank
<1> HIDE DEF p
<1>2. t \in [1 .. n -> S]
  <2>1. \A k \in 1 .. n : t[k] \in S
    BY <1>1
  <2>2. t = [k \in 1 .. n |-> t[k]]
    BY DEF ByRank
  <2> QED BY <2>1, <2>2
<1>3. ASSUME NEW k \in 1 .. n, NEW m \in 1 .. n, k < m
      PROVE  <<p(k), p(m)>> \in L /\ p(k) # p(m)
  <2>1. p(k) \in 1 .. n /\ p(m) \in 1 .. n /\ Rank(n, L, p(k)) < Rank(n, L, p(m))
    BY <1>1, <1>3
  <2>2. Rank(n, L, p(k)) \in 1 .. n /\ Rank(n, L, p(m)) \in 1 .. n
    BY <2>1, RanksFit
  <2>3. ~ (Rank(n, L, p(m)) < Rank(n, L, p(k))) /\ p(k) # p(m)
    BY <2>1, <2>2
  <2>4. ~ (<<p(m), p(k)>> \in L)
    BY <2>1, <2>3, RanksFit
  <2> QED BY <2>1, <2>3, <2>4 DEF TotalOrder
<1>4. ASSUME NEW i \in 1 .. n PROVE \E k \in 1 .. n : t[k] = s[i]
  <2>1. Rank(n, L, i) \in 1 .. n
    BY RanksFit
  <2>2. PICK k \in 1 .. n : k = Rank(n, L, i)
    BY <2>1
  <2>3. p(k) = i
    <3> SUFFICES ASSUME p(k) # i PROVE FALSE
      OBVIOUS
    <3>1. p(k) \in 1 .. n /\ Rank(n, L, p(k)) = Rank(n, L, i)
      BY <1>1, <2>2
    <3>2. Rank(n, L, p(k)) < Rank(n, L, i) \/ Rank(n, L, i) < Rank(n, L, p(k))
      BY <3>1, RanksFit DEF TotalOrder
    <3> QED BY <3>1, <3>2, <2>1
  <2> QED BY <1>1, <2>3
<1>5. ASSUME NEW x PROVE (\E k \in 1 .. n : t[k] = x) <=> (\E i \in 1 .. n : s[i] = x)
  <2>1. ASSUME NEW k \in 1 .. n, t[k] = x PROVE \E i \in 1 .. n : s[i] = x
    BY <1>1, <2>1
  <2>2. ASSUME NEW i \in 1 .. n, s[i] = x PROVE \E k \in 1 .. n : t[k] = x
    BY <1>4, <2>2
  <2> QED BY <2>1, <2>2
<1>6. ASSUME NEW k \in 1 .. n, NEW m \in 1 .. n, k < m
      PROVE  \E i, j \in 1 .. n : <<i, j>> \in L /\ i # j /\ t[k] = s[i] /\ t[m] = s[j]
  BY <1>1, <1>3, <1>6
<1> QED BY <1>2, <1>5, <1>6 DEF Arranges

Ascending(s) == \A i, j \in 1 .. Len(s) : i < j => s[i] < s[j]

\* Numbers are sorted without a change of what they are.
LEMMA NumbersSorted ==
  ASSUME NEW s \in Seq(Nat), \A i, j \in 1 .. Len(s) : s[i] = s[j] => i = j
  PROVE  /\ SortedBy(s, <) \in Seq(Nat)
         /\ Len(SortedBy(s, <)) = Len(s)
         /\ Ascending(SortedBy(s, <))
         /\ ToSet(SortedBy(s, <)) = ToSet(s)
<1> DEFINE n == Len(s)
           L == {q \in (1 .. n) \X (1 .. n) :
                   s[q[1]] < s[q[2]] \/ (q[1] <= q[2] /\ ~ (s[q[2]] < s[q[1]]))}
           t == SortedBy(s, <)
<1>1. n \in Nat /\ s \in [1 .. n -> Nat]
  OBVIOUS
<1>2. \A i, j \in 1 .. n : <<i, j>> \in L <=> s[i] <= s[j]
  BY <1>1
<1>3. TotalOrder(n, L)
  <2>1. L \subseteq (1 .. n) \X (1 .. n)
    OBVIOUS
  <2> HIDE DEF L
  <2> QED BY <1>1, <1>2, <2>1 DEF TotalOrder
<1>4. \A i \in 1 .. n : PlaceOf(s, <, i) = Rank(n, L, i)
  <2> TAKE i \in 1 .. n
  <2>1. {j \in 1 .. Len(s) : s[j] < s[i] \/ (j <= i /\ ~ (s[i] < s[j]))} = UpTo(n, L, i)
    BY DEF UpTo
  <2> QED BY <2>1, Zenon DEF PlaceOf, Rank
<1>5. t = [k \in 1 .. n |-> s[CHOOSE i \in 1 .. n : PlaceOf(s, <, i) = k]]
  BY Zenon DEF SortedBy
<1>6. \A k \in 1 .. n : (CHOOSE i \in 1 .. n : PlaceOf(s, <, i) = k)
                          = (CHOOSE i \in 1 .. n : Rank(n, L, i) = k)
  BY <1>4, Zenon
<1>7. t = ByRank(n, L, s)
  BY <1>5, <1>6, Zenon DEF ByRank
<1> HIDE DEF L, t, n
<1>8. t \in [1 .. n -> Nat] /\ Arranges(n, L, s, t)
  BY <1>1, <1>3, <1>7, SortedByRank
<1>9. t \in Seq(Nat) /\ Len(t) = n
  BY <1>1, <1>8
<1>10. Ascending(t)
  <2> SUFFICES ASSUME NEW k \in 1 .. n, NEW m \in 1 .. n, k < m PROVE t[k] < t[m]
    BY <1>9 DEF Ascending
  <2>1. PICK i \in 1 .. n, j \in 1 .. n : <<i, j>> \in L /\ i # j /\ t[k] = s[i] /\ t[m] = s[j]
    BY <1>8 DEF Arranges
  <2>2. s[i] <= s[j] /\ s[i] # s[j]
    BY <2>1, <1>2 DEF n
  <2>3. s[i] \in Nat /\ s[j] \in Nat
    BY <1>1
  <2> QED BY <2>1, <2>2, <2>3
<1>11. ToSet(t) = ToSet(s)
  <2>1. ToSet(t) = {t[k] : k \in 1 .. Len(t)} /\ ToSet(s) = {s[i] : i \in 1 .. Len(s)}
    BY <1>9, ToSetIndexed
  <2>2. Len(s) = n
    BY DEF n
  <2>3. \A x : x \in ToSet(t) <=> \E k \in 1 .. n : t[k] = x
    BY <2>1, <1>9
  <2>4. \A x : x \in ToSet(s) <=> \E i \in 1 .. n : s[i] = x
    BY <2>1, <2>2
  <2> HIDE DEF ToSet
  <2> QED BY <2>3, <2>4, <1>8 DEF Arranges
<1> QED BY <1>9, <1>10, <1>11 DEF t, n

\* A finite set as a sequence.
LEMMA SetAsSequence ==
  ASSUME NEW S, IsFiniteSet(S)
  PROVE  /\ SetToSeq(S) \in Seq(S) /\ ToSet(SetToSeq(S)) = S
         /\ Len(SetToSeq(S)) = Cardinality(S)
         /\ \A i, j \in 1 .. Len(SetToSeq(S)) : SetToSeq(S)[i] = SetToSeq(S)[j] => i = j
<1> DEFINE n == Cardinality(S)
<1>1. n \in Nat /\ ExistsBijection(1 .. n, S)
  BY FS_CardinalityType
<1>2. PICK f : f \in Bijection(1 .. n, S)
  BY <1>1 DEF ExistsBijection
<1>3. f \in [1 .. n -> S] /\ \A i, j \in 1 .. n : f[i] = f[j] => i = j
  BY <1>2 DEF Bijection, Injection, Surjection, IsInjective
<1>4. \E g \in [1 .. Cardinality(S) -> S] : IsInjective(g)
  BY <1>3 DEF IsInjective
<1>5. SetToSeq(S) \in [1 .. n -> S] /\ IsInjective(SetToSeq(S))
  BY <1>4, Zenon DEF SetToSeq
<1> DEFINE s == SetToSeq(S)
<1> HIDE DEF s, n
<1>6. s \in [1 .. n -> S] /\ \A i, j \in 1 .. n : s[i] = s[j] => i = j
  BY <1>5 DEF IsInjective, s
<1>7. s \in Seq(S) /\ Len(s) = n
  BY <1>1, <1>6
<1>8. s \in Surjection(1 .. n, S)
  <2>1. s \in Injection(1 .. n, S)
    BY <1>6, Fun_IsInj
  <2>2. IsFiniteSet(1 .. n) /\ Cardinality(1 .. n) = n
    BY <1>1, FS_Interval
  <2> QED BY <2>1, <2>2, FS_Injection DEF n
<1>9. \A x \in S : \E i \in 1 .. n : s[i] = x
  BY <1>8 DEF Surjection
<1>10. ToSet(s) = {s[i] : i \in 1 .. Len(s)}
  BY <1>7, ToSetIndexed
<1>11. ToSet(s) = S
  BY <1>6, <1>7, <1>9, <1>10
<1> QED BY <1>6, <1>7, <1>11 DEF s, n

LEMMA SetSorted ==
  ASSUME NEW S \in SUBSET Nat, IsFiniteSet(S)
  PROVE  /\ Sorted(S) \in Seq(Nat) /\ ToSet(Sorted(S)) = S
         /\ Ascending(Sorted(S))
<1>1. /\ SetToSeq(S) \in Seq(Nat) /\ ToSet(SetToSeq(S)) = S
      /\ \A i, j \in 1 .. Len(SetToSeq(S)) : SetToSeq(S)[i] = SetToSeq(S)[j] => i = j
  <2>1. /\ SetToSeq(S) \in Seq(S) /\ ToSet(SetToSeq(S)) = S
        /\ \A i, j \in 1 .. Len(SetToSeq(S)) : SetToSeq(S)[i] = SetToSeq(S)[j] => i = j
    BY SetAsSequence, Zenon
  <2>2. ASSUME NEW q \in Seq(S) PROVE q \in Seq(Nat)
    <3>1. Len(q) \in Nat /\ q \in [1 .. Len(q) -> S]
      OBVIOUS
    <3>2. q \in [1 .. Len(q) -> Nat]
      BY <3>1
    <3> QED BY <3>1, <3>2
  <2> QED BY <2>1, <2>2, Zenon
<1>2. PICK s \in Seq(Nat) : s = SetToSeq(S)
  BY <1>1
<1>3. Sorted(S) = SortedBy(s, <)
  BY <1>2, Zenon DEF Sorted
<1> QED BY <1>1, <1>2, <1>3, NumbersSorted

\* The numbers below an element of an ascending sequence come before it.
LEMMA AscendingRank ==
  ASSUME NEW s \in Seq(Nat), Ascending(s), NEW i \in 1 .. Len(s)
  PROVE  Cardinality({x \in ToSet(s) : x <= s[i]}) = i
<1>1. Len(s) \in Nat /\ ToSet(s) = {s[k] : k \in 1 .. Len(s)}
      /\ \A k \in 1 .. Len(s) : s[k] \in Nat
  BY ToSetIndexed
<1> DEFINE T == {x \in ToSet(s) : x <= s[i]}
           f == [k \in 1 .. i |-> s[k]]
<1>2. \A k \in 1 .. Len(s) : s[k] <= s[i] <=> k <= i
  <2> TAKE k \in 1 .. Len(s)
  <2>1. (k < i => s[k] < s[i]) /\ (i < k => s[i] < s[k])
    BY <1>1 DEF Ascending
  <2> QED BY <1>1, <2>1
<1>3. f \in [1 .. i -> T]
  BY <1>1, <1>2
<1>4. \A x \in T : \E k \in 1 .. i : f[k] = x
  BY <1>1, <1>2
<1>5. \A j, k \in 1 .. i : f[j] = f[k] => j = k
  <2> SUFFICES ASSUME NEW j \in 1 .. i, NEW k \in 1 .. i, j # k PROVE s[j] # s[k]
    OBVIOUS
  <2>0. j \in 1 .. Len(s) /\ k \in 1 .. Len(s)
    BY <1>1
  <2>1. (j < k => s[j] < s[k]) /\ (k < j => s[k] < s[j])
    BY <2>0 DEF Ascending
  <2>2. s[j] \in Nat /\ s[k] \in Nat /\ (j < k \/ k < j)
    BY <1>1
  <2> QED BY <2>1, <2>2
<1> HIDE DEF f, T
<1>6. f \in Surjection(1 .. i, T) /\ f \in Injection(1 .. i, T)
  BY <1>3, <1>4, <1>5, Fun_IsInj, Fun_IsSurj
<1>7. IsFiniteSet(1 .. i) /\ Cardinality(1 .. i) = i
  BY FS_Interval
<1>8. Cardinality(T) = Cardinality(1 .. i)
  BY <1>6, <1>7, FS_Surjection
<1> QED BY <1>7, <1>8 DEF T

\* A set has one ascending sequence.
LEMMA AscendingUnique ==
  ASSUME NEW s \in Seq(Nat), NEW t \in Seq(Nat), Ascending(s), Ascending(t),
         ToSet(s) = ToSet(t)
  PROVE  s = t
<1>1. /\ Len(s) \in Nat /\ Len(t) \in Nat
      /\ ToSet(s) = {s[k] : k \in 1 .. Len(s)} /\ ToSet(t) = {t[k] : k \in 1 .. Len(t)}
  BY ToSetIndexed
<1>2. ASSUME NEW i \in 1 .. Len(s) PROVE i \in 1 .. Len(t) /\ s[i] = t[i]
  <2>1. PICK k \in 1 .. Len(t) : s[i] = t[k]
    BY <1>1
  <2>2. Cardinality({x \in ToSet(s) : x <= s[i]}) = i
    BY AscendingRank
  <2>3. Cardinality({x \in ToSet(t) : x <= t[k]}) = k
    BY AscendingRank
  <2> QED BY <2>1, <2>2, <2>3
<1>3. ASSUME NEW i \in 1 .. Len(t) PROVE i \in 1 .. Len(s)
  <2>1. PICK k \in 1 .. Len(s) : t[i] = s[k]
    BY <1>1
  <2>2. Cardinality({x \in ToSet(t) : x <= t[i]}) = i
    BY AscendingRank
  <2>3. Cardinality({x \in ToSet(s) : x <= s[k]}) = k
    BY AscendingRank
  <2> QED BY <2>1, <2>2, <2>3
<1>4. Len(s) = Len(t)
  <2>1. Len(s) # 0 => Len(s) \in 1 .. Len(t)
    BY <1>1, <1>2
  <2>2. Len(t) # 0 => Len(t) \in 1 .. Len(s)
    BY <1>1, <1>3
  <2> QED BY <1>1, <2>1, <2>2
<1> QED BY <1>2, <1>4

--------------------------------------------------------------------------------
(***************************************************************************)
(* What is within n steps.                                                 *)
(***************************************************************************)

\* The nodes next to nodes of W, and W.
Wider(W, near) == W \cup UNION {near[a] : a \in W}

\* One unfolding of Within, for n steps at most and any function w in its place.
Widened(w, S, near, n) == [k \in 0 .. n |-> IF k = 0 THEN S ELSE Wider(w[k - 1], near)]

LEMMA WidenedExists ==
  ASSUME NEW S, NEW near, NEW N \in Nat
  PROVE  \E w : w = Widened(w, S, near, N)
<1> DEFINE Good(n) == \E w : w = Widened(w, S, near, n)
           Bad == {n \in Nat : ~ Good(n)}
<1>1. SUFFICES ASSUME Bad # {} PROVE FALSE
  OBVIOUS
<1>2. PICK m \in Bad : \A n \in Bad : m <= n
  BY <1>1, LeastElement
<1>3. CASE m = 0
  <2> DEFINE w == [k \in 0 .. 0 |-> S]
  <2>1. w = Widened(w, S, near, 0)
    BY DEF Widened
  <2>2. Good(0)
    BY <2>1
  <2> QED BY <2>2, <1>2, <1>3
<1>4. CASE m # 0
  <2>1. m - 1 \in Nat /\ ~ (m <= m - 1)
    BY <1>2, <1>4
  <2>2. Good(m - 1)
    BY <2>1, <1>2
  <2>3. PICK u : u = Widened(u, S, near, m - 1)
    BY <2>2
  <2> DEFINE w == [k \in 0 .. m |-> IF k = m THEN Wider(u[m - 1], near) ELSE u[k]]
  <2>4. \A k \in 0 .. m - 1 : u[k] = IF k = 0 THEN S ELSE Wider(u[k - 1], near)
    BY <2>3 DEF Widened
  <2>5. \A k \in 0 .. m : w[k] = IF k = 0 THEN S ELSE Wider(w[k - 1], near)
    <3> TAKE k \in 0 .. m
    <3>1. CASE k = m
      BY <3>1, <2>1, <1>4
    <3>2. CASE k # m
      <4>1. k \in 0 .. m - 1 /\ w[k] = u[k] /\ (k # 0 => w[k - 1] = u[k - 1])
        BY <3>2, <2>1
      <4> HIDE DEF w
      <4> QED BY <4>1, <2>4
    <3> QED BY <3>1, <3>2
  <2>6. w = [k \in 0 .. m |-> w[k]]
    OBVIOUS
  <2> HIDE DEF w
  <2>7. w = Widened(w, S, near, m)
    BY <2>5, <2>6 DEF Widened
  <2>8. Good(m)
    BY <2>7
  <2> QED BY <2>8, <1>2
<1> QED BY <1>3, <1>4

LEMMA WithinWidens ==
  ASSUME Len(nodes) \in Nat, NEW S, NEW near
  PROVE  /\ Within(S, near)[0] = S
         /\ \A n \in 1 .. Len(nodes) :
              Within(S, near)[n] = Wider(Within(S, near)[n - 1], near)
<1> DEFINE w == CHOOSE f : f = Widened(f, S, near, Len(nodes))
<1>1. w = Widened(w, S, near, Len(nodes))
  BY WidenedExists, Zenon
<1>2. Within(S, near) = w
  BY Zenon DEF Within, Widened, Wider
<1> HIDE DEF w
<1>3. \A n \in 0 .. Len(nodes) : w[n] = IF n = 0 THEN S ELSE Wider(w[n - 1], near)
  BY <1>1 DEF Widened
<1> QED BY <1>2, <1>3

\* The number of nodes is the number of their addresses.
AddressesInv ==
  /\ Len(nodes) \in Nat
  /\ IsFiniteSet(Addresses) /\ Cardinality(Addresses) <= Len(nodes)
  /\ Addresses \subseteq Nat

Closed(W, near) == \A a \in W : near[a] \subseteq W

LEMMA WithinBounds ==
  ASSUME AddressesInv, NEW S \in SUBSET Addresses, NEW near \in [Addresses -> SUBSET Addresses]
  PROVE  /\ \A n \in 0 .. Len(nodes) :
              /\ Within(S, near)[n] \in SUBSET Addresses
              /\ S \subseteq Within(S, near)[n]
         /\ \A T : S \subseteq T /\ T \subseteq Addresses /\ Closed(T, near) =>
              \A n \in 0 .. Len(nodes) : Within(S, near)[n] \subseteq T
<1>1. PICK w : w = Within(S, near)
  OBVIOUS
<1>2. Len(nodes) \in Nat /\ w[0] = S
      /\ \A n \in 1 .. Len(nodes) : w[n] = Wider(w[n - 1], near)
  BY <1>1, WithinWidens DEF AddressesInv
<1>3. ASSUME NEW T, S \subseteq T, T \subseteq Addresses, Closed(T, near)
      PROVE  \A n \in 0 .. Len(nodes) : w[n] \subseteq T
  <2> DEFINE Bad == {n \in 0 .. Len(nodes) : ~ (w[n] \subseteq T)}
  <2>1. SUFFICES ASSUME Bad # {} PROVE FALSE
    OBVIOUS
  <2>2. PICK m \in Bad : \A n \in Bad : m <= n
    <3>1. Bad \in SUBSET Nat
      OBVIOUS
    <3> QED BY <2>1, <3>1, LeastElement
  <2>3. m # 0
    BY <2>2, <1>2, <1>3
  <2>4. m \in 1 .. Len(nodes) /\ m - 1 \in 0 .. Len(nodes) /\ ~ (m <= m - 1)
    BY <2>2, <2>3, <1>2
  <2>5. w[m - 1] \subseteq T
    BY <2>2, <2>4
  <2>6. w[m] = Wider(w[m - 1], near)
    BY <1>2, <2>4
  <2>7. w[m] \subseteq T
    BY <2>5, <2>6, <1>3 DEF Wider, Closed
  <2> QED BY <2>2, <2>7
<1>4. Closed(Addresses, near)
  BY DEF Closed
<1>5. \A n \in 0 .. Len(nodes) : w[n] \in SUBSET Addresses
  BY <1>3, <1>4
<1>6. \A n \in 0 .. Len(nodes) : S \subseteq w[n]
  <2> DEFINE Bad == {n \in 0 .. Len(nodes) : ~ (S \subseteq w[n])}
  <2>1. SUFFICES ASSUME Bad # {} PROVE FALSE
    OBVIOUS
  <2>2. PICK m \in Bad : \A n \in Bad : m <= n
    <3>1. Bad \in SUBSET Nat
      OBVIOUS
    <3> QED BY <2>1, <3>1, LeastElement
  <2>3. m # 0
    BY <2>2, <1>2
  <2>4. m \in 1 .. Len(nodes) /\ m - 1 \in 0 .. Len(nodes) /\ ~ (m <= m - 1)
    BY <2>2, <2>3, <1>2
  <2>5. S \subseteq w[m - 1] /\ w[m] = Wider(w[m - 1], near)
    BY <2>2, <2>4, <1>2
  <2>6. S \subseteq w[m]
    BY <2>5 DEF Wider
  <2> QED BY <2>2, <2>6
<1> QED BY <1>1, <1>3, <1>5, <1>6

\* After as many steps as there are nodes, there is no other node to be reached.
LEMMA WithinCloses ==
  ASSUME AddressesInv, NEW S \in SUBSET Addresses, NEW near \in [Addresses -> SUBSET Addresses]
  PROVE  Closed(Within(S, near)[Len(nodes)], near)
<1>1. PICK w : w = Within(S, near)
  OBVIOUS
<1>2. Len(nodes) \in Nat /\ w[0] = S
      /\ \A n \in 1 .. Len(nodes) : w[n] = Wider(w[n - 1], near)
  BY <1>1, WithinWidens DEF AddressesInv
<1>3. \A n \in 0 .. Len(nodes) : w[n] \in SUBSET Addresses
  BY <1>1, WithinBounds
<1>4. \A n \in 0 .. Len(nodes) : IsFiniteSet(w[n]) /\ Cardinality(w[n]) \in Nat
                                 /\ Cardinality(w[n]) <= Len(nodes)
  <2> TAKE n \in 0 .. Len(nodes)
  <2>1. IsFiniteSet(w[n]) /\ Cardinality(w[n]) <= Cardinality(Addresses)
    BY <1>3, FS_Subset DEF AddressesInv
  <2>2. Cardinality(w[n]) \in Nat /\ Cardinality(Addresses) \in Nat
    BY <2>1, FS_CardinalityType DEF AddressesInv
  <2> QED BY <2>1, <2>2, <1>2 DEF AddressesInv
<1> DEFINE Done(n) == Closed(w[n], near)
           Bad == {n \in 0 .. Len(nodes) : ~ (Done(n) \/ Cardinality(w[n]) > n)}
<1>5. Bad = {}
  <2>1. SUFFICES ASSUME Bad # {} PROVE FALSE
    OBVIOUS
  <2>2. PICK m \in Bad : \A n \in Bad : m <= n
    <3>1. Bad \in SUBSET Nat
      OBVIOUS
    <3> QED BY <2>1, <3>1, LeastElement
  <2>3. m # 0
    <3>1. ASSUME m = 0 PROVE FALSE
      <4>1. ~ Done(0) /\ ~ (Cardinality(w[0]) > 0) /\ 0 \in 0 .. Len(nodes)
        BY <2>2, <3>1, <1>2
      <4>2. Cardinality(w[0]) = 0 /\ IsFiniteSet(w[0])
        BY <4>1, <1>4
      <4>3. w[0] = {}
        BY <4>2, FS_EmptySet
      <4> QED BY <4>1, <4>3 DEF Closed
    <3> QED BY <3>1
  <2>4. m \in 1 .. Len(nodes) /\ m - 1 \in 0 .. Len(nodes) /\ m \in 0 .. Len(nodes)
        /\ ~ (m <= m - 1)
    BY <2>2, <2>3, <1>2
  <2>5. (Done(m - 1) \/ Cardinality(w[m - 1]) > m - 1)
        /\ ~ Done(m) /\ ~ (Cardinality(w[m]) > m)
    BY <2>2, <2>4
  <2>6. w[m] = Wider(w[m - 1], near)
    BY <1>2, <2>4
  <2>7. ~ Done(m - 1) /\ w[m] # w[m - 1]
    <3>1. Done(m - 1) => w[m] = w[m - 1]
      BY <2>6 DEF Wider, Closed
    <3>2. w[m] = w[m - 1] => Done(m - 1)
      BY <2>6 DEF Wider, Closed
    <3>3. w[m] = w[m - 1] => (Done(m - 1) <=> Done(m))
      OBVIOUS
    <3> QED BY <3>1, <3>2, <3>3, <2>5
  <2>8. w[m - 1] \in SUBSET w[m]
    BY <2>6 DEF Wider
  <2>9. /\ IsFiniteSet(w[m]) /\ Cardinality(w[m]) \in Nat /\ Cardinality(w[m - 1]) \in Nat
    BY <1>4, <2>4
  <2>10. Cardinality(w[m - 1]) <= Cardinality(w[m]) /\ Cardinality(w[m - 1]) # Cardinality(w[m])
    BY <2>7, <2>8, <2>9, FS_Subset
  <2> QED BY <2>5, <2>7, <2>9, <2>10, <2>4, <1>2
<1>6. Len(nodes) \in 0 .. Len(nodes)
  BY <1>2
<1>7. Done(Len(nodes)) \/ Cardinality(w[Len(nodes)]) > Len(nodes)
  BY <1>5, <1>6
<1>8. Done(Len(nodes))
  BY <1>4, <1>6, <1>7, <1>2
<1> QED BY <1>1, <1>8

Symmetric(near) == \A a, b \in Addresses : b \in near[a] => a \in near[b]

\* A closed set within which all is reached from one node is what each of its nodes
\* is connected with.
LEMMA ConnectedSet ==
  ASSUME AddressesInv, NEW near \in [Addresses -> SUBSET Addresses], Symmetric(near),
         NEW C \in SUBSET Addresses, Closed(C, near), NEW r \in C,
         C \subseteq Within({r}, near)[Len(nodes)],
         NEW a \in C
  PROVE  Within({a}, near)[Len(nodes)] = C
<1>1. PICK W : W = Within({a}, near)[Len(nodes)]
  OBVIOUS
<1>2. Len(nodes) \in 0 .. Len(nodes)
  BY DEF AddressesInv
<1>3. {a} \in SUBSET Addresses /\ {r} \in SUBSET Addresses
  OBVIOUS
<1>4. W \in SUBSET Addresses /\ a \in W /\ Closed(W, near)
  BY <1>1, <1>2, <1>3, WithinBounds, WithinCloses
<1>5. W \subseteq C
  <2>1. {a} \subseteq C /\ C \subseteq Addresses
    OBVIOUS
  <2> QED BY <1>1, <1>2, <1>3, <2>1, WithinBounds
<1>6. r \in W
  <2> SUFFICES ASSUME r \notin W PROVE FALSE
    OBVIOUS
  <2> DEFINE T == Addresses \ W
  <2>1. {r} \subseteq T /\ T \subseteq Addresses
    OBVIOUS
  <2>2. Closed(T, near)
    <3> SUFFICES ASSUME NEW b \in T, NEW c \in near[b], c \in W PROVE FALSE
      BY DEF Closed
    <3>1. b \in near[c]
      BY DEF Symmetric
    <3> QED BY <3>1, <1>4 DEF Closed
  <2> HIDE DEF T
  <2>3. Within({r}, near)[Len(nodes)] \subseteq T
    BY <1>2, <1>3, <2>1, <2>2, WithinBounds
  <2>4. a \in T
    BY <2>3
  <2> QED BY <2>4, <1>4 DEF T
<1>7. C \subseteq W
  <2>1. {r} \subseteq W /\ W \subseteq Addresses
    BY <1>4, <1>6
  <2>2. Within({r}, near)[Len(nodes)] \subseteq W
    BY <1>2, <1>3, <1>4, <2>1, WithinBounds
  <2> QED BY <2>2
<1> QED BY <1>1, <1>5, <1>7

\* What a search from T leaves, if it takes nodes from its queue in the order in which
\* they are found: a depth for each node, that is zero in T and otherwise one more than
\* that of a node before it, and that no call could make smaller.
BreadthFirst(T, near, l) ==
  /\ T \subseteq DOMAIN l /\ \A t \in T : l[t] = 0
  /\ \A x \in DOMAIN l \ T : \E y \in DOMAIN l : x \in near[y] /\ l[x] = l[y] + 1
  /\ \A x \in DOMAIN l : \A b \in near[x] : b \in DOMAIN l /\ l[b] <= l[x] + 1

\* No depth is left out, so no depth is as large as the number of nodes.
LEMMA DepthBound ==
  ASSUME AddressesInv, NEW near, NEW T, NEW D \in SUBSET Addresses, NEW l \in [D -> Nat],
         BreadthFirst(T, near, l), NEW x \in D
  PROVE  l[x] + 1 <= Len(nodes)
<1>1. DOMAIN l = D
  OBVIOUS
<1>2. \A k \in 0 .. l[x] : \E y \in D : l[y] = l[x] - k
  <2> DEFINE Bad == {k \in 0 .. l[x] : ~ \E y \in D : l[y] = l[x] - k}
  <2>1. SUFFICES ASSUME Bad # {} PROVE FALSE
    OBVIOUS
  <2>2. PICK m \in Bad : \A n \in Bad : m <= n
    <3>1. Bad \in SUBSET Nat
      OBVIOUS
    <3> QED BY <2>1, <3>1, LeastElement
  <2>3. m # 0
    <3>1. l[x] = l[x] - 0
      OBVIOUS
    <3> QED BY <3>1, <2>2
  <2>4. m \in 1 .. l[x] /\ m - 1 \in 0 .. l[x] /\ ~ (m <= m - 1)
    BY <2>2, <2>3
  <2>5. PICK y \in D : l[y] = l[x] - (m - 1)
    BY <2>2, <2>4
  <2>6. l[y] # 0 /\ y \notin T
    BY <2>4, <2>5, <1>1 DEF BreadthFirst
  <2>7. PICK z \in D : l[y] = l[z] + 1
    BY <2>6, <1>1 DEF BreadthFirst
  <2>8. l[z] = l[x] - m
    BY <2>4, <2>5, <2>7
  <2> QED BY <2>2, <2>8
<1>3. \A k \in 0 .. l[x] : \E y \in D : l[y] = k
  <2> TAKE k \in 0 .. l[x]
  <2>1. l[x] - k \in 0 .. l[x] /\ l[x] - (l[x] - k) = k
    OBVIOUS
  <2> QED BY <2>1, <1>2
<1> DEFINE f == [k \in 0 .. l[x] |-> CHOOSE y \in D : l[y] = k]
<1>4. \A k \in 0 .. l[x] : f[k] \in D /\ l[f[k]] = k
  <2> TAKE k \in 0 .. l[x]
  <2>1. \E y \in D : l[y] = k
    BY <1>3
  <2>2. f[k] = CHOOSE y \in D : l[y] = k
    BY Zenon
  <2> HIDE DEF f
  <2> QED BY <2>1, <2>2, Zenon
<1>5. f = [k \in 0 .. l[x] |-> f[k]]
  OBVIOUS
<1> HIDE DEF f
<1>6. f \in [0 .. l[x] -> D] /\ \A j, k \in 0 .. l[x] : f[j] = f[k] => j = k
  BY <1>4, <1>5
<1>7. f \in Injection(0 .. l[x], D)
  BY <1>6, Fun_IsInj
<1>8. IsFiniteSet(D) /\ Cardinality(D) <= Cardinality(Addresses)
  BY FS_Subset DEF AddressesInv
<1>9. Cardinality(0 .. l[x]) <= Cardinality(D)
  BY <1>7, <1>8, FS_Injection
<1>10. Cardinality(0 .. l[x]) = l[x] + 1
  <2>1. 0 \in Int /\ l[x] \in Int /\ ~ (0 > l[x]) /\ l[x] - 0 + 1 = l[x] + 1
    OBVIOUS
  <2> QED BY <2>1, FS_Interval
<1>11. Cardinality(D) \in Nat /\ Cardinality(Addresses) \in Nat
  BY <1>8, FS_CardinalityType DEF AddressesInv
<1> QED BY <1>8, <1>9, <1>10, <1>11 DEF AddressesInv

LEMMA DepthsAreDistances ==
  ASSUME AddressesInv, NEW near \in [Addresses -> SUBSET Addresses],
         NEW T \in SUBSET Addresses, NEW D \in SUBSET Addresses, NEW l \in [D -> Nat],
         BreadthFirst(T, near, l)
  PROVE  /\ D = Within(T, near)[Len(nodes)]
         /\ \A a \in D : l[a] = Distance(T, near, a)
<1>1. PICK w : w = Within(T, near)
  OBVIOUS
<1>2. Len(nodes) \in Nat /\ w[0] = T
      /\ \A n \in 1 .. Len(nodes) : w[n] = Wider(w[n - 1], near)
  BY <1>1, WithinWidens DEF AddressesInv
<1>3. DOMAIN l = D /\ \A x \in D : l[x] \in 0 .. Len(nodes)
  <2>1. DOMAIN l = D /\ \A x \in D : l[x] \in Nat
    OBVIOUS
  <2> QED BY <2>1, DepthBound, <1>2
<1>4. \A n \in 0 .. Len(nodes) : \A x \in D : l[x] = n => x \in w[n]
  <2> DEFINE Bad == {n \in 0 .. Len(nodes) : ~ \A x \in D : l[x] = n => x \in w[n]}
  <2>1. SUFFICES ASSUME Bad # {} PROVE FALSE
    OBVIOUS
  <2>2. PICK m \in Bad : \A n \in Bad : m <= n
    <3>1. Bad \in SUBSET Nat
      OBVIOUS
    <3> QED BY <2>1, <3>1, LeastElement
  <2>3. PICK x \in D : l[x] = m /\ x \notin w[m]
    BY <2>2
  <2>4. CASE x \in T
    BY <2>3, <2>4, <1>2, <1>3 DEF BreadthFirst
  <2>5. CASE x \notin T
    <3>1. PICK y \in D : x \in near[y] /\ l[x] = l[y] + 1
      BY <2>5, <1>3 DEF BreadthFirst
    <3>2. m \in 1 .. Len(nodes) /\ m - 1 \in 0 .. Len(nodes) /\ ~ (m <= m - 1) /\ l[y] = m - 1
      <4>1. m \in 0 .. Len(nodes) /\ l[y] \in Nat /\ m = l[y] + 1
        BY <2>2, <2>3, <3>1
      <4> QED BY <4>1, <1>2
    <3>3. y \in w[m - 1]
      BY <2>2, <3>2
    <3>4. x \in w[m]
      BY <1>2, <3>1, <3>2, <3>3 DEF Wider
    <3> QED BY <2>3, <3>4
  <2> QED BY <2>4, <2>5
<1>5. \A n \in 0 .. Len(nodes) : \A x \in w[n] : x \in D /\ l[x] <= n
  <2> DEFINE Bad == {n \in 0 .. Len(nodes) : ~ \A x \in w[n] : x \in D /\ l[x] <= n}
  <2>1. SUFFICES ASSUME Bad # {} PROVE FALSE
    OBVIOUS
  <2>2. PICK m \in Bad : \A n \in Bad : m <= n
    <3>1. Bad \in SUBSET Nat
      OBVIOUS
    <3> QED BY <2>1, <3>1, LeastElement
  <2>3. PICK x \in w[m] : ~ (x \in D /\ l[x] <= m)
    BY <2>2
  <2>4. CASE m = 0
    BY <2>3, <2>4, <1>2, <1>3 DEF BreadthFirst
  <2>5. CASE m # 0
    <3>1. m \in 1 .. Len(nodes) /\ m - 1 \in 0 .. Len(nodes) /\ ~ (m <= m - 1)
      BY <2>2, <2>5, <1>2
    <3>2. \A z \in w[m - 1] : z \in D /\ l[z] <= m - 1
      BY <2>2, <3>1
    <3>3. w[m] = Wider(w[m - 1], near)
      BY <1>2, <3>1
    <3>4. CASE x \in w[m - 1]
      <4>1. x \in D /\ l[x] <= m - 1 /\ l[x] \in Nat
        BY <3>2, <3>4
      <4> QED BY <4>1, <3>1, <2>3
    <3>5. CASE \E a \in w[m - 1] : x \in near[a]
      <4>1. PICK a \in w[m - 1] : x \in near[a]
        BY <3>5
      <4>2. a \in D /\ l[a] <= m - 1 /\ x \in D /\ l[x] <= l[a] + 1
        BY <3>2, <4>1, <1>3 DEF BreadthFirst
      <4>3. l[a] \in Nat /\ l[x] \in Nat
        BY <4>2
      <4> QED BY <4>2, <4>3, <3>1, <2>3
    <3> QED BY <3>3, <3>4, <3>5 DEF Wider
  <2> QED BY <2>4, <2>5
<1>6. Len(nodes) \in 0 .. Len(nodes)
  BY <1>2
<1>7. \A n \in 0 .. Len(nodes) : w[n] \subseteq w[Len(nodes)]
  <2>1. /\ T \subseteq w[Len(nodes)] /\ w[Len(nodes)] \subseteq Addresses
        /\ Closed(w[Len(nodes)], near)
    BY <1>1, <1>6, WithinBounds, WithinCloses
  <2> QED BY <1>1, <2>1, WithinBounds
<1>8. D = w[Len(nodes)]
  <2>1. \A x \in D : x \in w[Len(nodes)]
    BY <1>3, <1>4, <1>7
  <2>2. \A x \in w[Len(nodes)] : x \in D
    BY <1>5, <1>6
  <2> QED BY <2>1, <2>2
<1>9. ASSUME NEW a \in D PROVE l[a] = Distance(T, near, a)
  <2> DEFINE N == {n \in 0 .. Len(nodes) : a \in w[n]}
  <2>1. l[a] \in N
    BY <1>3, <1>4
  <2>2. \A n \in N : l[a] <= n
    BY <1>5
  <2>3. \A n \in N : n \in Nat
    BY <1>2
  <2>4. Distance(T, near, a) = CHOOSE n \in N : \A k \in N : n <= k
    BY <1>1 DEF Distance, Min
  <2> HIDE DEF N
  <2>5. \A n \in N : (\A k \in N : n <= k) => n = l[a]
    BY <2>1, <2>2, <2>3
  <2>6. \E n \in N : \A k \in N : n <= k
    BY <2>1, <2>2
  <2> QED BY <2>4, <2>5, <2>6
<1> QED BY <1>1, <1>8, <1>9

--------------------------------------------------------------------------------
(***************************************************************************)
(* The graph that is laid out.                                             *)
(***************************************************************************)

LEMMA NodeFields ==
  ASSUME NodesType, NEW i \in 1 .. Len(nodes)
  PROVE  nodes[i].address \in Nat /\ nodes[i].isExternal \in BOOLEAN
<1> DEFINE T == [address : Nat, isExternal : BOOLEAN]
<1>1. nodes \in Seq(T)
  BY DEF NodesType
<1> HIDE DEF T
<1>2. nodes[i] \in T
  BY <1>1
<1> QED BY <1>2 DEF T

LEMMA AddressesIndexed ==
  ASSUME NodesType, IndicesPointAtNodes
  PROVE  Addresses = DOMAIN indices /\ AddressesInv
<1>1. ToSet(nodes) = {nodes[i] : i \in 1 .. Len(nodes)} /\ Len(nodes) \in Nat
  BY ToSetIndexed DEF NodesType
<1>2. Addresses = {nodes[i].address : i \in 1 .. Len(nodes)}
  BY <1>1 DEF Addresses
<1>3. Addresses = DOMAIN indices
  BY <1>2 DEF IndicesPointAtNodes, Known
<1>4. \A i \in 1 .. Len(nodes) : nodes[i].address \in Nat
  BY NodeFields
<1>5. indices \in [Addresses -> 1 .. Len(nodes)]
  BY <1>3 DEF NodesType, IndicesPointAtNodes
<1>6. \A a, b \in Addresses : indices[a] = indices[b] => a = b
  BY <1>3 DEF IndicesPointAtNodes
<1>7. indices \in Injection(Addresses, 1 .. Len(nodes))
  BY <1>5, <1>6, Fun_IsInj
<1>8. IsFiniteSet(1 .. Len(nodes)) /\ Cardinality(1 .. Len(nodes)) = Len(nodes)
  BY <1>1, FS_Interval
<1>9. IsFiniteSet(Addresses) /\ Cardinality(Addresses) <= Len(nodes)
  BY <1>7, <1>8, FS_Injection
<1> QED BY <1>1, <1>2, <1>3, <1>4, <1>9 DEF AddressesInv

\* The elements of a sequence are finitely many.
LEMMA ToSetFinite ==
  ASSUME NEW S, NEW s \in Seq(S)
  PROVE  IsFiniteSet(ToSet(s))
<1>1. ToSet(s) = {s[i] : i \in 1 .. Len(s)} /\ Len(s) \in Nat
  BY ToSetIndexed
<1>2. IsFiniteSet(1 .. Len(s))
  BY <1>1, FS_Interval
<1> DEFINE f == [i \in 1 .. Len(s) |-> s[i]]
<1>3. f \in [1 .. Len(s) -> ToSet(s)] /\ \A x \in ToSet(s) : \E i \in 1 .. Len(s) : f[i] = x
  BY <1>1
<1> HIDE DEF f
<1>4. f \in Surjection(1 .. Len(s), ToSet(s))
  BY <1>3, Fun_IsSurj
<1> QED BY <1>2, <1>4, FS_Surjection

Neighbours == [a \in Addresses |-> Adjacent(a)]

\* What the layout needs of a graph that was built or cleared.
GraphInv ==
  /\ AddressesInv
  /\ \A e \in ToSet(edges) : e.caller \in Addresses /\ e.callee \in Addresses
  /\ IsFiniteSet(ToSet(edges))
  /\ \A a \in Addresses : IsExternal(a) \in BOOLEAN
  /\ \A a \in Addresses : ~ IsExternal(a) => Len(program.code[a]) \in Nat

LEMMA GraphHolds == IInv /\ phase = "idle" => GraphInv
<1> SUFFICES ASSUME IInv, phase = "idle" PROVE GraphInv
  OBVIOUS
<1>1. Addresses = DOMAIN indices /\ AddressesInv
  BY AddressesIndexed DEF IInv, NodesInv
<1>2. IsFiniteSet(ToSet(edges))
  BY ToSetFinite DEF IInv, EdgesInv
<1>3. ASSUME NEW a \in Addresses
      PROVE  /\ indices[a] \in 1 .. Len(nodes) /\ nodes[indices[a]].address = a
             /\ nodes[indices[a]].isExternal \in BOOLEAN
  <2>1. indices[a] \in 1 .. Len(nodes) /\ nodes[indices[a]].address = a
    BY <1>1 DEF IInv, NodesInv, IndicesPointAtNodes
  <2> QED BY <2>1, NodeFields DEF IInv, NodesInv
<1>4. CASE error = "none"
  <2>1. Built
    BY <1>4 DEF Built
  <2>2. \A e \in ToSet(edges) : e.caller \in Addresses /\ e.callee \in Addresses
    <3> TAKE e \in ToSet(edges)
    <3>1. e.caller \in Functions /\ e.callee \in Targets
      BY DEF IInv, EdgesInv, Sound, Targets
    <3>2. DOMAIN indices = Functions \cup Targets
      BY <2>1 DEF IInv, EdgesInv
    <3> QED BY <1>1, <3>1, <3>2
  <2>3. ASSUME NEW a \in Addresses, ~ IsExternal(a) PROVE Len(program.code[a]) \in Nat
    <3>1. nodes[indices[a]].isExternal <=> nodes[indices[a]].address \notin Functions
      BY <1>3, <1>4 DEF IInv, NodesInv
    <3>2. a \in Functions
      BY <1>3, <2>3, <3>1 DEF IsExternal
    <3>3. IsCached(a)
      BY <2>1, <3>2 DEF IInv, EdgesInv, Whole, AllCovered, Covered
    <3>4. program.code[a] \in Seq(Instructions)
      BY <3>3 DEF IInv, ProgramInv, IsCached
    <3> QED BY <3>4
  <2> QED BY <1>1, <1>2, <1>3, <2>2, <2>3 DEF GraphInv, IsExternal
<1>5. CASE error # "none"
  <2>1. edges = <<>> /\ indices = <<>>
    BY <1>5 DEF IInv, PhaseInv
  <2>2. ToSet(edges) = {} /\ Addresses = {}
    BY <1>1, <2>1, ToSetEmpty, EmptyFunction
  <2> QED BY <1>1, <1>2, <2>2 DEF GraphInv
<1> QED BY <1>4, <1>5

\* The neighbours of a node are nodes, and it is a neighbour of theirs.
LEMMA NeighboursFit ==
  ASSUME GraphInv
  PROVE  /\ Neighbours \in [Addresses -> SUBSET Addresses]
         /\ Linked \in [Addresses -> SUBSET Addresses]
         /\ Called \in [Addresses -> SUBSET Addresses]
         /\ Symmetric(Neighbours) /\ Symmetric(Linked)
         /\ \A a \in Addresses : Neighbours[a] = Linked[a] \ {a}
         /\ \A a \in Addresses : Callees(a) = Called[a] \ {a}
<1>1. \A a \in Addresses : \A b : b \in Adjacent(a) <=>
        a # b /\ \E e \in ToSet(edges) : (e.caller = a /\ e.callee = b)
                                         \/ (e.caller = b /\ e.callee = a)
  BY DEF Adjacent, Callees, Callers
<1>2. \A a, b : (\E e \in ToSet(edges) : (e.caller = a /\ e.callee = b)
                                         \/ (e.caller = b /\ e.callee = a))
                <=> \E e \in ToSet(edges) : {e.caller, e.callee} = {a, b}
  OBVIOUS
<1>3. \A a \in Addresses : Adjacent(a) \subseteq Addresses
  BY <1>1 DEF GraphInv
<1>4. Neighbours \in [Addresses -> SUBSET Addresses]
  BY <1>3 DEF Neighbours
<1>5. Linked \in [Addresses -> SUBSET Addresses]
  BY DEF Linked
<1>6. Called \in [Addresses -> SUBSET Addresses]
  BY DEF Called, GraphInv
<1>7. \A a, b \in Addresses : b \in Linked[a] <=>
        \E e \in ToSet(edges) : {e.caller, e.callee} = {a, b}
  BY DEF Linked
<1>8. \A a \in Addresses : Neighbours[a] = Linked[a] \ {a}
  <2> TAKE a \in Addresses
  <2>1. Neighbours[a] = Adjacent(a) /\ Neighbours[a] \subseteq Addresses
        /\ Linked[a] \subseteq Addresses
    BY <1>4, <1>5 DEF Neighbours
  <2>2. \A b \in Addresses : b \in Neighbours[a] <=> b \in Linked[a] /\ b # a
    BY <1>1, <1>2, <1>7, <2>1
  <2> QED BY <2>1, <2>2
<1>9. Symmetric(Linked)
  <2>1. \A a, b : {a, b} = {b, a}
    OBVIOUS
  <2> QED BY <1>7, <2>1 DEF Symmetric
<1>10. Symmetric(Neighbours)
  BY <1>8, <1>9 DEF Symmetric
<1>11. \A a \in Addresses : Callees(a) = Called[a] \ {a}
  BY DEF Callees, Called
<1> QED BY <1>4, <1>5, <1>6, <1>8, <1>9, <1>10, <1>11

--------------------------------------------------------------------------------
(***************************************************************************)
(* The queue of a search.                                                  *)
(***************************************************************************)

Distinct(s) == \A i, j \in 1 .. Len(s) : s[i] = s[j] => i = j

LEMMA AscendingDistinct ==
  ASSUME NEW s \in Seq(Nat), Ascending(s)
  PROVE  Distinct(s)
<1> SUFFICES ASSUME NEW i \in 1 .. Len(s), NEW j \in 1 .. Len(s), i # j, s[i] = s[j]
             PROVE  FALSE
  BY DEF Distinct
<1>1. s[i] \in Nat /\ s[j] \in Nat /\ (i < j \/ j < i)
  OBVIOUS
<1>2. s[i] < s[j] \/ s[j] < s[i]
  BY <1>1 DEF Ascending
<1> QED BY <1>1, <1>2

\* A search takes the first of its queue and puts what it finds behind the others.
Requeued(p, found) == Tail(p) \o Sorted(found)

Requeues(p, F, q) ==
  /\ Head(p) = p[1] /\ p[1] \in ToSet(p) /\ Len(p) \in Nat /\ 1 \in 1 .. Len(p)
  /\ q \in Seq(Nat) /\ Distinct(q)
  /\ ToSet(q) = (ToSet(p) \ {Head(p)}) \cup F
  /\ \A i \in 1 .. Len(q) : IF i < Len(p) THEN q[i] = p[i + 1] ELSE q[i] \in F

LEMMA RequeuedFits ==
  ASSUME NEW p \in Seq(Nat), p # <<>>, Distinct(p),
         NEW F \in SUBSET Nat, IsFiniteSet(F), F \cap ToSet(p) = {}
  PROVE  Requeues(p, F, Requeued(p, F))
<1>1. PICK s \in Seq(Nat) : s = Sorted(F)
  BY SetSorted
<1>2. ToSet(s) = F /\ Distinct(s)
  BY <1>1, SetSorted, AscendingDistinct
<1>3. PICK n \in Nat, m \in Nat : n = Len(p) /\ m = Len(s)
  OBVIOUS
<1>4. n # 0 /\ Head(p) = p[1] /\ 1 \in 1 .. Len(p)
  BY <1>3
<1>5. PICK q : q = Tail(p) \o s
  OBVIOUS
<1>6. q \in Seq(Nat) /\ Len(q) = n - 1 + m
  BY <1>3, <1>4, <1>5
<1>7. ToSet(p) = {p[i] : i \in 1 .. n} /\ ToSet(s) = {s[i] : i \in 1 .. m}
      /\ ToSet(q) = {q[i] : i \in 1 .. Len(q)}
  BY <1>3, <1>6, ToSetIndexed
<1>8. \A i \in 1 .. Len(q) : IF i < n THEN q[i] = p[i + 1] ELSE q[i] = s[i - n + 1]
  BY <1>3, <1>4, <1>5
<1>9. \A i \in 1 .. Len(q) :
        /\ i < n => i + 1 \in 1 .. n
        /\ ~ (i < n) => i - n + 1 \in 1 .. m
  BY <1>3, <1>6
<1>10. \A i \in 1 .. Len(q) : IF i < n THEN q[i] = p[i + 1] ELSE q[i] \in F
  BY <1>2, <1>7, <1>8, <1>9
<1>11. Distinct(q)
  <2> SUFFICES ASSUME NEW i \in 1 .. Len(q), NEW j \in 1 .. Len(q), q[i] = q[j] PROVE i = j
    BY DEF Distinct
  <2>1. CASE i < n /\ j < n
    <3>1. p[i + 1] = p[j + 1] /\ i + 1 \in 1 .. n /\ j + 1 \in 1 .. n
      BY <2>1, <1>8, <1>9
    <3>2. i + 1 = j + 1
      BY <3>1, <1>3 DEF Distinct
    <3> QED BY <3>2, <1>6
  <2>2. CASE ~ (i < n) /\ ~ (j < n)
    <3>1. s[i - n + 1] = s[j - n + 1] /\ i - n + 1 \in 1 .. m /\ j - n + 1 \in 1 .. m
      BY <2>2, <1>8, <1>9
    <3>2. i - n + 1 = j - n + 1
      BY <3>1, <1>2, <1>3 DEF Distinct
    <3> QED BY <3>2, <1>6
  <2>3. CASE i < n /\ ~ (j < n)
    <3>1. q[i] \in ToSet(p) /\ q[j] \in F
      BY <2>3, <1>7, <1>9, <1>10
    <3> QED BY <3>1
  <2>4. CASE ~ (i < n) /\ j < n
    <3>1. q[j] \in ToSet(p) /\ q[i] \in F
      BY <2>4, <1>7, <1>9, <1>10
    <3> QED BY <3>1
  <2> QED BY <2>1, <2>2, <2>3, <2>4
<1>12. \A x \in ToSet(q) : x \in (ToSet(p) \ {p[1]}) \cup F
  <2> SUFFICES ASSUME NEW i \in 1 .. Len(q) PROVE q[i] \in (ToSet(p) \ {p[1]}) \cup F
    BY <1>7
  <2>1. CASE i < n
    <3>1. q[i] = p[i + 1] /\ i + 1 \in 1 .. n /\ i + 1 # 1 /\ 1 \in 1 .. n
      BY <2>1, <1>9, <1>10, <1>3
    <3>2. p[i + 1] # p[1]
      BY <3>1, <1>3 DEF Distinct
    <3> QED BY <3>1, <3>2, <1>7
  <2>2. CASE ~ (i < n)
    BY <2>2, <1>10
  <2> QED BY <2>1, <2>2
<1>13. ASSUME NEW x \in ToSet(p) \ {p[1]} PROVE x \in ToSet(q)
  <2>1. PICK k \in 1 .. n : x = p[k]
    BY <1>7
  <2>2. k - 1 \in 1 .. Len(q) /\ k - 1 < n /\ k - 1 + 1 = k
    BY <2>1, <1>6, <1>13, <1>3
  <2>3. q[k - 1] = x
    BY <2>1, <2>2, <1>10
  <2> QED BY <2>2, <2>3, <1>7
<1>14. ASSUME NEW x \in F PROVE x \in ToSet(q)
  <2>1. PICK k \in 1 .. m : x = s[k]
    BY <1>2, <1>7
  <2>2. n - 1 + k \in 1 .. Len(q) /\ ~ (n - 1 + k < n) /\ n - 1 + k - n + 1 = k
    BY <1>4, <1>6, <1>3
  <2>3. q[n - 1 + k] = x
    BY <2>1, <2>2, <1>8
  <2> QED BY <2>2, <2>3, <1>7
<1>15. ToSet(q) = (ToSet(p) \ {p[1]}) \cup F
  BY <1>12, <1>13, <1>14
<1>16. p[1] \in ToSet(p)
  BY <1>3, <1>4, <1>7
<1>17. q = Requeued(p, F)
  BY <1>1, <1>5 DEF Requeued
<1>18. Requeues(p, F, q)
  BY <1>3, <1>4, <1>6, <1>10, <1>11, <1>15, <1>16 DEF Requeues
<1> QED BY <1>17, <1>18

\* A search from T that has found the domain of l, and has p in its queue.
Searching(near, T, l, p) ==
  /\ l \in [DOMAIN l -> Nat] /\ DOMAIN l \subseteq DOMAIN near
  /\ p \in Seq(Nat) /\ Distinct(p) /\ ToSet(p) \subseteq DOMAIN l
  /\ T \subseteq DOMAIN l /\ \A t \in T : l[t] = 0
  /\ \A x \in DOMAIN l \ T : \E y \in DOMAIN l : x \in near[y] /\ l[x] = l[y] + 1
  /\ \A x \in DOMAIN l \ ToSet(p) : \A b \in near[x] : b \in DOMAIN l /\ l[b] <= l[x] + 1
  /\ p # <<>> => \A x \in DOMAIN l : l[x] <= l[p[1]] + 1
  /\ \A i, j \in 1 .. Len(p) : i < j => l[p[i]] <= l[p[j]]

LEMMA SearchStarts ==
  ASSUME NEW near, NEW T \in SUBSET DOMAIN near, NEW p \in Seq(Nat), Distinct(p), ToSet(p) = T
  PROVE  Searching(near, T, [a \in T |-> 0], p)
<1> DEFINE l == [a \in T |-> 0]
<1>1. l \in [T -> Nat] /\ DOMAIN l = T /\ \A t \in T : l[t] = 0
  OBVIOUS
<1>2. ToSet(p) = {p[i] : i \in 1 .. Len(p)}
  BY ToSetIndexed
<1>3. \A i \in 1 .. Len(p) : p[i] \in T
  BY <1>2
<1>4. p # <<>> => 1 \in 1 .. Len(p)
  OBVIOUS
<1> HIDE DEF l
<1>5. p # <<>> => \A x \in DOMAIN l : l[x] <= l[p[1]] + 1
  BY <1>1, <1>3, <1>4
<1>6. \A i, j \in 1 .. Len(p) : i < j => l[p[i]] <= l[p[j]]
  BY <1>1, <1>3
<1>7. Searching(near, T, l, p)
  BY <1>1, <1>5, <1>6 DEF Searching
<1> QED BY <1>7 DEF l

LEMMA SearchGoesOn ==
  ASSUME AddressesInv, NEW near \in [Addresses -> SUBSET Addresses], NEW T, NEW l, NEW p,
         Searching(near, T, l, p), p # <<>>, NEW F, F = near[Head(p)] \ DOMAIN l
  PROVE  Searching(near, T, Deeper(l, Head(p), F), Requeued(p, F))
<1> DEFINE D == DOMAIN l
           h == Head(p)
<1>1. /\ l \in [D -> Nat] /\ D \subseteq Addresses
      /\ p \in Seq(Nat) /\ Distinct(p) /\ ToSet(p) \subseteq D
      /\ T \subseteq D /\ \A t \in T : l[t] = 0
      /\ \A x \in D \ T : \E y \in D : x \in near[y] /\ l[x] = l[y] + 1
      /\ \A x \in D \ ToSet(p) : \A b \in near[x] : b \in D /\ l[b] <= l[x] + 1
      /\ \A x \in D : l[x] <= l[p[1]] + 1
      /\ \A i, j \in 1 .. Len(p) : i < j => l[p[i]] <= l[p[j]]
  BY DEF Searching
<1>2. h = p[1] /\ h \in D /\ h \in ToSet(p)
  <2>1. Len(p) \in Nat /\ 1 \in 1 .. Len(p) /\ Head(p) = p[1]
    BY <1>1
  <2>2. ToSet(p) = {p[i] : i \in 1 .. Len(p)}
    BY <1>1, ToSetIndexed
  <2> QED BY <2>1, <2>2, <1>1
<1>3. F \in SUBSET Addresses /\ F \cap D = {} /\ F = near[h] \ D
  BY <1>1, <1>2
<1>4. F \in SUBSET Nat /\ IsFiniteSet(F) /\ F \cap ToSet(p) = {}
  BY <1>1, <1>3, FS_Subset DEF AddressesInv
<1>5. PICK q : q = Requeued(p, F)
  OBVIOUS
<1>6. /\ Len(p) \in Nat
      /\ q \in Seq(Nat) /\ Distinct(q)
      /\ ToSet(q) = (ToSet(p) \ {h}) \cup F
      /\ \A i \in 1 .. Len(q) : IF i < Len(p) THEN q[i] = p[i + 1] ELSE q[i] \in F
  <2>1. Requeues(p, F, Requeued(p, F))
    BY <1>1, <1>4, RequeuedFits
  <2> QED BY <2>1, <1>5 DEF Requeues
<1>7. PICK k : k = Deeper(l, h, F)
  OBVIOUS
<1>8. l[h] \in Nat /\ \A x \in D : l[x] \in Nat
  BY <1>1, <1>2
<1>9. /\ k = [b \in D \cup F |-> IF b \in F THEN l[h] + 1 ELSE l[b]]
      /\ DOMAIN k = D \cup F
      /\ \A b \in F : k[b] = l[h] + 1
      /\ \A b \in D : k[b] = l[b]
  BY <1>3, <1>7 DEF Deeper
<1>10. k \in [DOMAIN k -> Nat]
  BY <1>8, <1>9
<1> HIDE DEF D, h
<1>11. \A x \in DOMAIN k \ T : \E y \in DOMAIN k : x \in near[y] /\ k[x] = k[y] + 1
  <2> TAKE x \in DOMAIN k \ T
  <2>1. CASE x \in F
    <3>1. x \in near[h] /\ k[x] = k[h] + 1 /\ h \in DOMAIN k
      BY <2>1, <1>2, <1>3, <1>9
    <3> QED BY <3>1
  <2>2. CASE x \in D
    <3>1. PICK y \in D : x \in near[y] /\ l[x] = l[y] + 1
      BY <2>2, <1>1
    <3>2. k[x] = l[x] /\ k[y] = l[y] /\ y \in DOMAIN k
      BY <2>2, <3>1, <1>9
    <3> QED BY <3>1, <3>2
  <2> QED BY <2>1, <2>2, <1>9
<1>12. \A x \in DOMAIN k \ ToSet(q) : \A b \in near[x] : b \in DOMAIN k /\ k[b] <= k[x] + 1
  <2> TAKE x \in DOMAIN k \ ToSet(q)
  <2>1. x \in D /\ (x = h \/ x \notin ToSet(p))
    BY <1>6, <1>9
  <2> TAKE b \in near[x]
  <2>2. CASE x = h
    <3>1. CASE b \in F
      <4>1. k[b] = l[h] + 1 /\ k[x] = l[h]
        BY <3>1, <2>1, <2>2, <1>9
      <4> QED BY <4>1, <3>1, <1>8, <1>9
    <3>2. CASE b \in D
      <4>1. k[b] = l[b] /\ k[x] = l[h] /\ l[b] <= l[h] + 1
        BY <3>2, <2>1, <2>2, <1>1, <1>2, <1>9
      <4> QED BY <4>1, <3>2, <1>9
    <3> QED BY <3>1, <3>2, <2>2, <1>3
  <2>3. CASE x \notin ToSet(p)
    <3>1. b \in D /\ l[b] <= l[x] + 1
      BY <2>1, <2>3, <1>1
    <3> QED BY <3>1, <2>1, <1>9
  <2> QED BY <2>1, <2>2, <2>3
<1>13. \A i \in 1 .. Len(q) : /\ q[i] \in DOMAIN k
                              /\ l[h] <= k[q[i]] /\ k[q[i]] <= l[h] + 1
                              /\ ~ (i < Len(p)) => k[q[i]] = l[h] + 1
  <2> TAKE i \in 1 .. Len(q)
  <2>1. CASE i < Len(p)
    <3>1. q[i] = p[i + 1] /\ i + 1 \in 1 .. Len(p) /\ 1 \in 1 .. Len(p) /\ 1 < i + 1
      BY <2>1, <1>6
    <3>2. q[i] \in D
      <4>1. ToSet(p) = {p[j] : j \in 1 .. Len(p)}
        BY <1>1, ToSetIndexed
      <4> QED BY <3>1, <4>1, <1>1
    <3>3. l[p[1]] <= l[p[i + 1]]
      BY <3>1, <1>1
    <3>4. k[q[i]] = l[p[i + 1]] /\ l[q[i]] <= l[h] + 1
      BY <3>1, <3>2, <1>1, <1>2, <1>9
    <3> QED BY <2>1, <3>1, <3>2, <3>3, <3>4, <1>2, <1>9
  <2>2. CASE ~ (i < Len(p))
    <3>1. q[i] \in F
      BY <2>2, <1>6
    <3> QED BY <3>1, <1>8, <1>9
  <2> QED BY <2>1, <2>2
<1>14. q # <<>> => \A x \in DOMAIN k : k[x] <= k[q[1]] + 1
  <2> SUFFICES ASSUME q # <<>>, NEW x \in DOMAIN k PROVE k[x] <= k[q[1]] + 1
    OBVIOUS
  <2>1. 1 \in 1 .. Len(q)
    BY <1>6
  <2>2. l[h] <= k[q[1]] /\ q[1] \in DOMAIN k
    BY <2>1, <1>13
  <2>3. k[x] <= l[h] + 1
    <3>1. CASE x \in F
      BY <3>1, <1>8, <1>9
    <3>2. CASE x \in D
      BY <3>2, <1>1, <1>2, <1>9
    <3> QED BY <3>1, <3>2, <1>9
  <2>4. k[q[1]] \in Nat /\ k[x] \in Nat
    BY <2>2, <1>10
  <2> QED BY <2>2, <2>3, <2>4, <1>8
<1>15. \A i, j \in 1 .. Len(q) : i < j => k[q[i]] <= k[q[j]]
  <2> SUFFICES ASSUME NEW i \in 1 .. Len(q), NEW j \in 1 .. Len(q), i < j
               PROVE  k[q[i]] <= k[q[j]]
    OBVIOUS
  <2>1. CASE j < Len(p)
    <3>1. i < Len(p) /\ i + 1 \in 1 .. Len(p) /\ j + 1 \in 1 .. Len(p) /\ i + 1 < j + 1
      BY <2>1, <1>6
    <3>2. q[i] = p[i + 1] /\ q[j] = p[j + 1]
      BY <2>1, <3>1, <1>6
    <3>3. p[i + 1] \in D /\ p[j + 1] \in D
      <4>1. ToSet(p) = {p[m] : m \in 1 .. Len(p)}
        BY <1>1, ToSetIndexed
      <4> QED BY <3>1, <4>1, <1>1
    <3>4. l[p[i + 1]] <= l[p[j + 1]]
      BY <3>1, <1>1
    <3> QED BY <3>2, <3>3, <3>4, <1>9
  <2>2. CASE ~ (j < Len(p))
    <3>1. k[q[j]] = l[h] + 1 /\ k[q[i]] <= l[h] + 1
      BY <2>2, <1>13
    <3> QED BY <3>1
  <2> QED BY <2>1, <2>2
<1>16. /\ DOMAIN k \subseteq Addresses /\ ToSet(q) \subseteq DOMAIN k
       /\ T \subseteq DOMAIN k /\ \A t \in T : k[t] = 0
  BY <1>1, <1>3, <1>6, <1>9
<1>17. Searching(near, T, k, q)
  BY <1>6, <1>10, <1>11, <1>12, <1>14, <1>15, <1>16 DEF Searching
<1> QED BY <1>5, <1>7, <1>17 DEF h

LEMMA SearchEnds ==
  ASSUME NEW near, NEW T, NEW l, Searching(near, T, l, <<>>)
  PROVE  BreadthFirst(T, near, l)
<1>1. ToSet(<<>>) = {}
  BY ToSetEmpty
<1>2. \A x \in DOMAIN l : \A b \in near[x] : b \in DOMAIN l /\ l[b] <= l[x] + 1
  <2>1. \A x \in DOMAIN l \ ToSet(<<>>) : \A b \in near[x] : b \in DOMAIN l /\ l[b] <= l[x] + 1
    BY DEF Searching
  <2> QED BY <1>1, <2>1
<1> QED BY <1>2 DEF Searching, BreadthFirst

--------------------------------------------------------------------------------
(***************************************************************************)
(* Roots.                                                                  *)
(***************************************************************************)

LEMMA LeastIs ==
  ASSUME NEW S \in SUBSET Nat, S # {}
  PROVE  Least(S) \in S /\ \A b \in S : Least(S) <= b
<1>1. \E a \in S : \A b \in S : a <= b
  BY LeastElement
<1> QED BY <1>1 DEF Least

LEMMA IncomingNat ==
  ASSUME GraphInv, NEW a
  PROVE  Incoming(a) \in Nat
<1>1. IsFiniteSet({e \in ToSet(edges) : e.callee = a})
  BY FS_Subset DEF GraphInv
<1> QED BY <1>1, FS_CardinalityType DEF Incoming

LEMMA BetterRootExists ==
  ASSUME GraphInv, NEW S \in SUBSET Addresses, S # {}
  PROVE  \E a \in S : \A b \in S : BetterRoot(a, b)
<1>0. Addresses \subseteq Nat /\ \A a \in S : Incoming(a) \in Nat /\ IsExternal(a) \in BOOLEAN
  BY IncomingNat DEF GraphInv, AddressesInv
<1> DEFINE counts == {Incoming(a) : a \in S}
<1>1. counts \in SUBSET Nat /\ counts # {}
  BY <1>0
<1>2. PICK m \in counts : \A n \in counts : m <= n
  BY <1>1, LeastElement
<1> DEFINE M == {a \in S : Incoming(a) = m}
           internal == {a \in M : ~ IsExternal(a)}
<1>3. M # {} /\ M \in SUBSET Nat /\ internal \in SUBSET Nat
  BY <1>0, <1>2
<1>4. m \in Nat /\ \A b \in S : m <= Incoming(b)
  BY <1>1, <1>2
<1>5. CASE internal # {}
  <2>1. PICK a \in internal : \A b \in internal : a <= b
    BY <1>3, <1>5, LeastElement
  <2>2. a \in S /\ Incoming(a) = m /\ ~ IsExternal(a)
    BY <2>1
  <2>3. ASSUME NEW b \in S PROVE BetterRoot(a, b)
    <3>1. CASE Incoming(b) = m
      <4>1. ~ IsExternal(b) => a <= b
        BY <2>1, <3>1, <2>3
      <4> QED BY <4>1, <3>1, <2>2, <1>0, Zenon DEF BetterRoot
    <3>2. CASE Incoming(b) # m
      <4>1. Incoming(a) < Incoming(b)
        BY <3>2, <2>2, <1>4, <1>0, <2>3
      <4> QED BY <4>1 DEF BetterRoot
    <3> QED BY <3>1, <3>2
  <2> QED BY <2>2, <2>3
<1>6. CASE internal = {}
  <2>1. PICK a \in M : \A b \in M : a <= b
    BY <1>3, LeastElement
  <2>2. a \in S /\ Incoming(a) = m /\ IsExternal(a)
    BY <2>1, <1>6
  <2>3. ASSUME NEW b \in S PROVE BetterRoot(a, b)
    <3>1. CASE Incoming(b) = m
      <4>1. IsExternal(b) /\ a <= b
        BY <2>1, <3>1, <1>6, <2>3
      <4> QED BY <4>1, <3>1, <2>2, <1>0, Zenon DEF BetterRoot
    <3>2. CASE Incoming(b) # m
      <4>1. Incoming(a) < Incoming(b)
        BY <3>2, <2>2, <1>4, <1>0, <2>3
      <4> QED BY <4>1 DEF BetterRoot
    <3> QED BY <3>1, <3>2
  <2> QED BY <2>2, <2>3
<1> QED BY <1>5, <1>6

\* The root is a node of the component, and a main if it has one.
LEMMA RootInside ==
  ASSUME GraphInv, NEW c, ToSet(c) \subseteq Addresses, ToSet(c) # {}
  PROVE  /\ ChooseRoot(c) \in ToSet(c)
         /\ (\E a \in ToSet(c) : IsMain(a)) => IsMain(ChooseRoot(c))
<1> DEFINE S == ToSet(c)
           mains == {a \in S : IsMain(a)}
           uncalled == {a \in S : ~ IsExternal(a) /\ Incoming(a) = 0}
<1>1. mains \in SUBSET Nat /\ uncalled \in SUBSET Nat
  BY DEF GraphInv, AddressesInv
<1>2. ChooseRoot(c) = IF mains # {} THEN Least(mains)
                      ELSE IF uncalled # {} THEN Least(uncalled)
                      ELSE CHOOSE a \in S : \A b \in S : BetterRoot(a, b)
  BY Zenon DEF ChooseRoot
<1>3. CASE mains # {}
  <2>1. Least(mains) \in mains
    BY <1>1, <1>3, LeastIs
  <2>2. ChooseRoot(c) = Least(mains)
    BY <1>2, <1>3
  <2> QED BY <2>1, <2>2
<1>4. CASE mains = {} /\ uncalled # {}
  <2>1. Least(uncalled) \in uncalled
    BY <1>1, <1>4, LeastIs
  <2>2. ChooseRoot(c) = Least(uncalled)
    BY <1>2, <1>4
  <2> QED BY <2>1, <2>2, <1>4
<1>5. CASE mains = {} /\ uncalled = {}
  <2>1. ChooseRoot(c) = CHOOSE a \in S : \A b \in S : BetterRoot(a, b)
    BY <1>2, <1>5, Zenon
  <2>2. \E a \in S : \A b \in S : BetterRoot(a, b)
    BY BetterRootExists
  <2>3. ChooseRoot(c) \in S
    BY <2>1, <2>2, Zenon
  <2> QED BY <2>3, <1>5
<1> QED BY <1>3, <1>4, <1>5

\* The order of the components: those of main, then by the addresses of their roots.
MainFirst(c) == IF IsMain(ChooseRoot(c)) THEN 0 ELSE 1

LEMMA PrecedesIs ==
  ASSUME NEW c, NEW d
  PROVE  /\ MainFirst(c) \in {0, 1} /\ MainFirst(d) \in {0, 1}
         /\ Precedes(c, d) <=>
              (\/ MainFirst(c) < MainFirst(d)
               \/ MainFirst(c) = MainFirst(d) /\ ChooseRoot(c) < ChooseRoot(d))
<1> DEFINE r == ChooseRoot(c)
           q == ChooseRoot(d)
<1>1. Precedes(c, d) <=> IF IsMain(r) # IsMain(q) THEN IsMain(r) ELSE r < q
  BY Zenon DEF Precedes
<1>2. MainFirst(c) = (IF IsMain(r) THEN 0 ELSE 1) /\ MainFirst(d) = (IF IsMain(q) THEN 0 ELSE 1)
  BY Zenon DEF MainFirst
<1> HIDE DEF r, q
<1>3. CASE IsMain(r) /\ IsMain(q)
  <2>1. IsMain(r) = IsMain(q)
    BY <1>3, Zenon DEF IsMain
  <2>2. MainFirst(c) = 0 /\ MainFirst(d) = 0
    BY <1>2, <1>3
  <2>3. Precedes(c, d) <=> r < q
    BY <1>1, <2>1, Zenon
  <2> QED BY <2>2, <2>3 DEF r, q
<1>4. CASE ~ IsMain(r) /\ ~ IsMain(q)
  <2>1. IsMain(r) = IsMain(q)
    BY <1>4, Zenon DEF IsMain
  <2>2. MainFirst(c) = 1 /\ MainFirst(d) = 1
    BY <1>2, <1>4
  <2>3. Precedes(c, d) <=> r < q
    BY <1>1, <2>1, Zenon
  <2> QED BY <2>2, <2>3 DEF r, q
<1>5. CASE IsMain(r) /\ ~ IsMain(q)
  <2>1. Precedes(c, d)
    BY <1>1, <1>5, Zenon
  <2>2. MainFirst(c) = 0 /\ MainFirst(d) = 1
    BY <1>2, <1>5
  <2> QED BY <2>1, <2>2
<1>6. CASE ~ IsMain(r) /\ IsMain(q)
  <2>1. ~ Precedes(c, d)
    BY <1>1, <1>6, Zenon
  <2>2. MainFirst(c) = 1 /\ MainFirst(d) = 0
    BY <1>2, <1>6
  <2> QED BY <2>1, <2>2
<1> QED BY <1>3, <1>4, <1>5, <1>6

\* A component as the search leaves it: all nodes that are connected with one of it.
Piece(c, R) ==
  /\ c \in Seq(Nat) /\ Ascending(c)
  /\ ToSet(c) # {} /\ ToSet(c) \subseteq DOMAIN R
  /\ \A a \in ToSet(c) : R[a] = ToSet(c)

Pieces(cs, R) ==
  /\ cs \in Seq(Seq(Nat))
  /\ \A i \in 1 .. Len(cs) : Piece(cs[i], R)
  /\ \A i, j \in 1 .. Len(cs) : i # j => ToSet(cs[i]) \cap ToSet(cs[j]) = {}

RootsAscend(cs) == \A i, j \in 1 .. Len(cs) : i < j => Precedes(cs[i], cs[j])

LEMMA PiecesSorted ==
  ASSUME GraphInv, NEW R, DOMAIN R = Addresses, NEW s, Pieces(s, R), NEW t, t = SortedBy(s, Precedes)
  PROVE  Pieces(t, R) /\ RootsAscend(t) /\ ToSet(t) = ToSet(s)
<1> DEFINE n == Len(s)
           L == {q \in (1 .. n) \X (1 .. n) :
                   Precedes(s[q[1]], s[q[2]]) \/ (q[1] <= q[2] /\ ~ Precedes(s[q[2]], s[q[1]]))}
<1>1. n \in Nat /\ s \in [1 .. n -> Seq(Nat)]
  BY DEF Pieces
<1>2. \A i, j \in 1 .. n :
        <<i, j>> \in L <=> (Precedes(s[i], s[j]) \/ (i <= j /\ ~ Precedes(s[j], s[i])))
  BY Zenon DEF L
<1>3. L \subseteq (1 .. n) \X (1 .. n)
  BY Zenon DEF L
<1>4. \A i \in 1 .. n : PlaceOf(s, Precedes, i) = Rank(n, L, i)
  <2> TAKE i \in 1 .. n
  <2>1. \A j \in 1 .. n : (Precedes(s[j], s[i]) \/ (j <= i /\ ~ Precedes(s[i], s[j])))
                            <=> <<j, i>> \in L
    BY <1>2, Zenon
  <2>2. {j \in 1 .. Len(s) : Precedes(s[j], s[i]) \/ (j <= i /\ ~ Precedes(s[i], s[j]))}
          = {j \in 1 .. n : <<j, i>> \in L}
    BY <2>1, Zenon
  <2> QED BY <2>2, Zenon DEF PlaceOf, Rank, UpTo
<1>5. t = [k \in 1 .. n |-> s[CHOOSE i \in 1 .. n : PlaceOf(s, Precedes, i) = k]]
  BY Zenon DEF SortedBy
<1>6. \A k \in 1 .. n : (CHOOSE i \in 1 .. n : PlaceOf(s, Precedes, i) = k)
                          = (CHOOSE i \in 1 .. n : Rank(n, L, i) = k)
  BY <1>4, Zenon
<1>7. t = ByRank(n, L, s)
  BY <1>5, <1>6, Zenon DEF ByRank
<1>8. \A i, j \in 1 .. n : i # j => ToSet(s[i]) \cap ToSet(s[j]) = {}
  BY Zenon DEF Pieces
<1>9. \A i \in 1 .. n : Piece(s[i], R)
  BY Zenon DEF Pieces
<1> HIDE DEF L, n
<1> DEFINE f == [i \in 1 .. n |-> MainFirst(s[i])]
           r == [i \in 1 .. n |-> ChooseRoot(s[i])]
<1>10. \A i \in 1 .. n : r[i] \in Nat /\ r[i] \in ToSet(s[i]) /\ f[i] \in {0, 1}
  <2> TAKE i \in 1 .. n
  <2>1. ToSet(s[i]) # {} /\ ToSet(s[i]) \subseteq Addresses
    BY <1>9 DEF Piece
  <2>2. ChooseRoot(s[i]) \in ToSet(s[i])
    BY <2>1, RootInside
  <2>3. MainFirst(s[i]) \in {0, 1}
    BY PrecedesIs
  <2> QED BY <2>1, <2>2, <2>3 DEF GraphInv, AddressesInv
<1>11. \A i, j \in 1 .. n : r[i] = r[j] => i = j
  BY <1>8, <1>10
<1>12. \A i, j \in 1 .. n : Precedes(s[i], s[j]) <=> (\/ f[i] < f[j]
                                                      \/ f[i] = f[j] /\ r[i] < r[j])
  BY PrecedesIs, Zenon
<1> HIDE DEF f, r
<1>13. \A i, j \in 1 .. n : <<i, j>> \in L <=> (\/ i = j
                                                \/ f[i] < f[j]
                                                \/ f[i] = f[j] /\ r[i] < r[j])
  <2> TAKE i, j \in 1 .. n
  <2>1. r[i] \in Nat /\ r[j] \in Nat /\ f[i] \in {0, 1} /\ f[j] \in {0, 1}
        /\ (r[i] = r[j] => i = j)
    BY <1>10, <1>11
  <2>2. <<i, j>> \in L <=> (\/ f[i] < f[j] \/ (f[i] = f[j] /\ r[i] < r[j])
                            \/ (i <= j /\ ~ (f[j] < f[i] \/ (f[j] = f[i] /\ r[j] < r[i]))))
    BY <1>2, <1>12, Zenon
  <2>3. i = j => r[i] = r[j] /\ f[i] = f[j] /\ i <= j
    BY <1>1
  <2> QED BY <2>1, <2>2, <2>3
<1>14. TotalOrder(n, L)
  <2>1. \A i \in 1 .. n : r[i] \in Nat /\ f[i] \in Nat
    BY <1>10
  <2> HIDE DEF Precedes
  <2> QED BY ONLY <1>3, <1>11, <1>13, <2>1 DEF TotalOrder
<1>15. t \in [1 .. n -> Seq(Nat)] /\ Arranges(n, L, s, t)
  BY <1>1, <1>7, <1>14, SortedByRank
<1>16. t \in Seq(Seq(Nat)) /\ Len(t) = n
  BY <1>1, <1>15
<1>17. \A k, m \in 1 .. n : k < m => \E i, j \in 1 .. n :
         <<i, j>> \in L /\ i # j /\ t[k] = s[i] /\ t[m] = s[j]
  BY <1>15 DEF Arranges
<1>18. \A x : (\E k \in 1 .. n : t[k] = x) <=> (\E i \in 1 .. n : s[i] = x)
  BY <1>15, Zenon DEF Arranges
<1>19. \A k \in 1 .. n : Piece(t[k], R)
  BY <1>9, <1>18, Zenon
<1>20. \A k, m \in 1 .. n : k < m => ToSet(t[k]) \cap ToSet(t[m]) = {} /\ Precedes(t[k], t[m])
  <2> SUFFICES ASSUME NEW k \in 1 .. n, NEW m \in 1 .. n, k < m
               PROVE  ToSet(t[k]) \cap ToSet(t[m]) = {} /\ Precedes(t[k], t[m])
    OBVIOUS
  <2>1. PICK i \in 1 .. n, j \in 1 .. n : <<i, j>> \in L /\ i # j /\ t[k] = s[i] /\ t[m] = s[j]
    BY <1>17
  <2>2. Precedes(s[i], s[j])
    BY <2>1, <1>12, <1>13
  <2> QED BY <2>1, <2>2, <1>8
<1>21. \A k, m \in 1 .. n : k # m => (k < m \/ m < k)
  BY <1>1
<1>22. \A k, m \in 1 .. n : k # m => ToSet(t[k]) \cap ToSet(t[m]) = {}
  BY <1>20, <1>21
<1>23. ToSet(t) = ToSet(s)
  <2>1. ToSet(t) = {t[k] : k \in 1 .. n} /\ ToSet(s) = {s[i] : i \in 1 .. n}
    <3>1. s \in Seq(Seq(Nat)) /\ Len(s) = n
      BY DEF n, Pieces
    <3> QED BY <3>1, <1>16, ToSetIndexed
  <2>2. \A x : x \in ToSet(t) <=> \E k \in 1 .. n : t[k] = x
    BY <2>1
  <2>3. \A x : x \in ToSet(s) <=> \E i \in 1 .. n : s[i] = x
    BY <2>1
  <2>4. \A x : x \in ToSet(t) <=> x \in ToSet(s)
    BY <2>2, <2>3, <1>18, Zenon
  <2> QED BY ONLY <2>4
<1> QED BY <1>16, <1>19, <1>20, <1>22, <1>23 DEF Pieces, RootsAscend

--------------------------------------------------------------------------------
(***************************************************************************)
(* The search for the components.                                          *)
(***************************************************************************)

\* What each node is connected with, and the nodes that a main has.
Reach     == [a \in Addresses |-> Connected(a)]
MainNodes == {a \in Addresses : IsMain(a)}

\* What the neighbours are to what is connected.
Connects(near, R) ==
  /\ near \in [DOMAIN R -> SUBSET DOMAIN R]
  /\ DOMAIN R \subseteq Nat /\ IsFiniteSet(DOMAIN R)
  /\ \A a, b \in DOMAIN R : b \in near[a] => a \in near[b]
  /\ \A a \in DOMAIN R : a \in R[a] /\ R[a] \subseteq DOMAIN R /\ Closed(R[a], near)
  /\ \A C \in SUBSET DOMAIN R : \A r \in C :
       Closed(C, near) /\ C \subseteq R[r] => \A a \in C : R[a] = C

LEMMA ReachConnects ==
  ASSUME GraphInv
  PROVE  DOMAIN Reach = Addresses /\ Connects(Neighbours, Reach)
<1>1. /\ Neighbours \in [Addresses -> SUBSET Addresses]
      /\ Linked \in [Addresses -> SUBSET Addresses]
      /\ Symmetric(Neighbours) /\ Symmetric(Linked)
      /\ \A a \in Addresses : Neighbours[a] = Linked[a] \ {a}
  BY NeighboursFit
<1>2. DOMAIN Reach = Addresses /\ \A a \in Addresses : Reach[a] = Within({a}, Linked)[Len(nodes)]
  BY DEF Reach, Connected
<1>3. AddressesInv /\ Addresses \subseteq Nat /\ IsFiniteSet(Addresses) /\ Len(nodes) \in Nat
  BY DEF GraphInv, AddressesInv
<1>4. ASSUME NEW C \in SUBSET Addresses
      PROVE  Closed(C, Neighbours) <=> Closed(C, Linked)
  BY <1>1 DEF Closed
<1>5. ASSUME NEW a \in Addresses
      PROVE  a \in Reach[a] /\ Reach[a] \subseteq Addresses /\ Closed(Reach[a], Linked)
  <2>1. {a} \in SUBSET Addresses /\ Len(nodes) \in 0 .. Len(nodes)
    BY <1>3
  <2>2. /\ Within({a}, Linked)[Len(nodes)] \in SUBSET Addresses
        /\ {a} \subseteq Within({a}, Linked)[Len(nodes)]
    BY <2>1, <1>1, <1>3, WithinBounds
  <2>3. Closed(Within({a}, Linked)[Len(nodes)], Linked)
    BY <2>1, <1>1, <1>3, WithinCloses
  <2> QED BY <2>2, <2>3, <1>2
<1>6. ASSUME NEW C \in SUBSET Addresses, NEW r \in C, Closed(C, Linked), C \subseteq Reach[r],
             NEW a \in C
      PROVE  Reach[a] = C
  <2>1. C \subseteq Within({r}, Linked)[Len(nodes)]
    BY <1>2, <1>6
  <2>2. Within({a}, Linked)[Len(nodes)] = C
    BY <2>1, <1>1, <1>3, <1>6, ConnectedSet
  <2> QED BY <2>2, <1>2
<1>7. \A a, b \in Addresses : b \in Neighbours[a] => a \in Neighbours[b]
  BY <1>1 DEF Symmetric
<1>8. \A a \in Addresses : a \in Reach[a] /\ Reach[a] \subseteq Addresses
                           /\ Closed(Reach[a], Neighbours)
  BY <1>4, <1>5
<1>9. \A C \in SUBSET Addresses : \A r \in C :
        Closed(C, Neighbours) /\ C \subseteq Reach[r] => \A a \in C : Reach[a] = C
  BY <1>4, <1>6
<1> QED BY <1>1, <1>2, <1>3, <1>7, <1>8, <1>9 DEF Connects

LEMMA GraphKept ==
  UNCHANGED vars => /\ Addresses' = Addresses /\ Called' = Called /\ Linked' = Linked
                    /\ Neighbours' = Neighbours /\ Reach' = Reach /\ MainNodes' = MainNodes
<1> SUFFICES ASSUME UNCHANGED vars
             PROVE  /\ Addresses' = Addresses /\ Called' = Called /\ Linked' = Linked
                    /\ Neighbours' = Neighbours /\ Reach' = Reach /\ MainNodes' = MainNodes
  OBVIOUS
<1>1. Addresses' = Addresses
  BY DEF vars, Addresses
<1>2. Called' = Called
  BY DEF vars, Called, Addresses
<1>3. Linked' = Linked
  BY DEF vars, Linked, Addresses
<1>4. Neighbours' = Neighbours
  BY DEF vars, Neighbours, Adjacent, Callers, Callees, Addresses
<1>5. Reach' = Reach
  BY <1>1, <1>3 DEF vars, Reach, Connected, Within
<1>6. MainNodes' = MainNodes
  BY DEF vars, MainNodes, IsMain, IsExternal, Addresses
<1> QED BY <1>1, <1>2, <1>3, <1>4, <1>5, <1>6

\* A node is in one component, in the one that is searched, in the queue, or remains.
Exploring(near, R, rem, p, c, cs) ==
  /\ Pieces(cs, R)
  /\ p \in Seq(Nat) /\ Distinct(p) /\ c \in Seq(Nat) /\ Distinct(c)
  /\ rem \subseteq DOMAIN R /\ ToSet(p) \subseteq DOMAIN R /\ ToSet(c) \subseteq DOMAIN R
  /\ rem \cap ToSet(p) = {} /\ rem \cap ToSet(c) = {} /\ ToSet(p) \cap ToSet(c) = {}
  /\ \A a \in DOMAIN R : (a \in rem \/ a \in ToSet(p) \/ a \in ToSet(c))
                           <=> \A i \in 1 .. Len(cs) : a \notin ToSet(cs[i])
  /\ (p # <<>> \/ c # <<>>) =>
       \E r \in ToSet(p) \cup ToSet(c) : ToSet(p) \subseteq R[r] /\ ToSet(c) \subseteq R[r]
  /\ \A a \in ToSet(c) : near[a] \subseteq ToSet(p) \cup ToSet(c)

LEMMA NothingDistinct == Distinct(<<>>) /\ <<>> \in Seq(Nat) /\ ToSet(<<>>) = {} /\ Len(<<>>) = 0
<1>1. ToSet(<<>>) = {}
  BY ToSetEmpty
<1> QED BY <1>1 DEF Distinct

LEMMA SomeElement ==
  ASSUME NEW s \in Seq(Nat), s # <<>>
  PROVE  ToSet(s) # {} /\ Head(s) = s[1] /\ Head(s) \in ToSet(s) /\ 1 \in 1 .. Len(s)
<1>1. 1 \in 1 .. Len(s) /\ Head(s) = s[1]
  OBVIOUS
<1>2. ToSet(s) = {s[i] : i \in 1 .. Len(s)}
  BY ToSetIndexed
<1> QED BY <1>1, <1>2

LEMMA ExploringStarts ==
  ASSUME NEW near, NEW R
  PROVE  Exploring(near, R, DOMAIN R, <<>>, <<>>, <<>>)
<1>1. Pieces(<<>>, R)
  BY DEF Pieces
<1> QED BY <1>1, NothingDistinct DEF Exploring

LEMMA ComponentStarts ==
  ASSUME NEW near, NEW R, Connects(near, R), NEW rem, NEW cs,
         Exploring(near, R, rem, <<>>, <<>>, cs), rem # {}
  PROVE  Exploring(near, R, rem \ {Least(rem)}, <<Least(rem)>>, <<>>, cs)
<1>1. rem \in SUBSET Nat /\ rem \subseteq DOMAIN R
  BY DEF Exploring, Connects
<1>2. PICK m \in rem : m = Least(rem)
  BY <1>1, LeastIs
<1>3. PICK q : q = <<m>>
  OBVIOUS
<1>4. q \in Seq(Nat) /\ Len(q) = 1 /\ q[1] = m
  BY <1>1, <1>3
<1>5. Distinct(q)
  BY <1>4 DEF Distinct
<1>6. ToSet(q) = {m}
  <2>1. ToSet(q) = {q[i] : i \in 1 .. Len(q)}
    BY <1>4, ToSetIndexed
  <2> QED BY <2>1, <1>4
<1>7. m \in R[m]
  BY <1>1 DEF Connects
<1>8. Exploring(near, R, rem \ {m}, q, <<>>, cs)
  <2>1. Pieces(cs, R)
        /\ \A a \in DOMAIN R : a \in rem <=> \A i \in 1 .. Len(cs) : a \notin ToSet(cs[i])
    BY NothingDistinct DEF Exploring
  <2>2. \A a \in DOMAIN R : (a \in rem \ {m} \/ a \in ToSet(q) \/ a \in ToSet(<<>>))
                              <=> \A i \in 1 .. Len(cs) : a \notin ToSet(cs[i])
    BY <2>1, <1>6, NothingDistinct
  <2> QED BY <2>1, <2>2, <1>1, <1>4, <1>5, <1>6, <1>7, NothingDistinct DEF Exploring
<1> QED BY <1>2, <1>3, <1>8

LEMMA NodeVisited ==
  ASSUME NEW near, NEW R, Connects(near, R), NEW rem, NEW p, NEW c, NEW cs,
         Exploring(near, R, rem, p, c, cs), p # <<>>,
         NEW F, F = near[Head(p)] \cap rem
  PROVE  Exploring(near, R, rem \ F, Requeued(p, F), Append(c, Head(p)), cs)
<1> DEFINE h == Head(p)
<1>1. /\ Pieces(cs, R)
      /\ p \in Seq(Nat) /\ Distinct(p) /\ c \in Seq(Nat) /\ Distinct(c)
      /\ rem \subseteq DOMAIN R /\ ToSet(p) \subseteq DOMAIN R /\ ToSet(c) \subseteq DOMAIN R
      /\ rem \cap ToSet(p) = {} /\ rem \cap ToSet(c) = {} /\ ToSet(p) \cap ToSet(c) = {}
      /\ \A a \in ToSet(c) : near[a] \subseteq ToSet(p) \cup ToSet(c)
  BY DEF Exploring
<1>2. \A a \in DOMAIN R : (a \in rem \/ a \in ToSet(p) \/ a \in ToSet(c))
                           <=> \A i \in 1 .. Len(cs) : a \notin ToSet(cs[i])
  BY DEF Exploring
<1>3. PICK r \in ToSet(p) \cup ToSet(c) : ToSet(p) \subseteq R[r] /\ ToSet(c) \subseteq R[r]
  BY DEF Exploring
<1>4. h \in ToSet(p) /\ h \in DOMAIN R /\ h \in Nat
  BY <1>1, SomeElement DEF Connects
<1>5. F \subseteq rem /\ F \subseteq near[h] /\ F \in SUBSET Nat /\ IsFiniteSet(F)
      /\ F \cap ToSet(p) = {}
  BY <1>1, FS_Subset DEF Connects
<1>6. PICK q : q = Requeued(p, F)
  OBVIOUS
<1>7. q \in Seq(Nat) /\ Distinct(q) /\ ToSet(q) = (ToSet(p) \ {h}) \cup F
  <2>1. Requeues(p, F, Requeued(p, F))
    BY <1>1, <1>5, RequeuedFits
  <2> QED BY <2>1, <1>6 DEF Requeues
<1>8. PICK d : d = Append(c, h)
  OBVIOUS
<1>9. d \in Seq(Nat) /\ ToSet(d) = ToSet(c) \cup {h}
  BY <1>1, <1>4, <1>8, ToSetAppend
<1>10. Distinct(d)
  <2>1. Len(d) = Len(c) + 1 /\ d[Len(c) + 1] = h /\ \A i \in 1 .. Len(c) : d[i] = c[i]
        /\ Len(c) \in Nat
    BY <1>1, <1>4, <1>8
  <2>2. \A i \in 1 .. Len(c) : c[i] \in ToSet(c)
    <3>1. ToSet(c) = {c[i] : i \in 1 .. Len(c)}
      BY <1>1, ToSetIndexed
    <3> QED BY <3>1
  <2>3. h \notin ToSet(c)
    BY <1>1, <1>4
  <2>4. \A i, j \in 1 .. Len(c) : c[i] = c[j] => i = j
    BY <1>1 DEF Distinct
  <2>5. \A i \in 1 .. Len(d) : i \in 1 .. Len(c) \/ i = Len(c) + 1
    BY <2>1
  <2> QED BY <2>1, <2>2, <2>3, <2>4, <2>5 DEF Distinct
<1>11. r \in DOMAIN R /\ h \in R[r] /\ near[h] \subseteq R[r]
  <2>1. r \in DOMAIN R /\ h \in R[r]
    BY <1>1, <1>3, <1>4
  <2>2. Closed(R[r], near)
    BY <2>1 DEF Connects
  <2> QED BY <2>1, <2>2 DEF Closed
<1>12. near[h] \subseteq rem \cup ToSet(p) \cup ToSet(c)
  <2> SUFFICES ASSUME NEW b \in near[h], b \notin rem \cup ToSet(p) \cup ToSet(c) PROVE FALSE
    OBVIOUS
  <2>1. b \in DOMAIN R /\ h \in near[b]
    BY <1>4 DEF Connects
  <2>2. PICK i \in 1 .. Len(cs) : b \in ToSet(cs[i])
    BY <2>1, <1>2
  <2>3. R[b] = ToSet(cs[i])
    BY <2>2, <1>1 DEF Pieces, Piece
  <2>4. h \in R[b]
    BY <2>1, <2>2, <2>3 DEF Connects, Closed
  <2> QED BY <2>3, <2>4, <1>2, <1>4
<1> HIDE DEF h
<1>13. /\ rem \ F \subseteq DOMAIN R /\ ToSet(q) \subseteq DOMAIN R /\ ToSet(d) \subseteq DOMAIN R
       /\ (rem \ F) \cap ToSet(q) = {} /\ (rem \ F) \cap ToSet(d) = {}
       /\ ToSet(q) \cap ToSet(d) = {}
  BY <1>1, <1>4, <1>5, <1>7, <1>9
<1>14. \A a \in DOMAIN R : (a \in rem \ F \/ a \in ToSet(q) \/ a \in ToSet(d))
                           <=> \A i \in 1 .. Len(cs) : a \notin ToSet(cs[i])
  <2>1. \A a : (a \in rem \ F \/ a \in ToSet(q) \/ a \in ToSet(d))
                 <=> (a \in rem \/ a \in ToSet(p) \/ a \in ToSet(c))
    BY <1>4, <1>5, <1>7, <1>9
  <2> QED BY <2>1, <1>2
<1>15. \A a \in ToSet(d) : near[a] \subseteq ToSet(q) \cup ToSet(d)
  <2> TAKE a \in ToSet(d)
  <2>1. CASE a = h
    <3>1. F = near[h] \cap rem
      BY DEF h
    <3> QED BY <3>1, <2>1, <1>7, <1>9, <1>12
  <2>2. CASE a \in ToSet(c)
    BY <2>2, <1>1, <1>7, <1>9
  <2> QED BY <2>1, <2>2, <1>9
<1>16. \E s \in ToSet(q) \cup ToSet(d) : ToSet(q) \subseteq R[s] /\ ToSet(d) \subseteq R[s]
  <2>1. r \in ToSet(q) \cup ToSet(d)
    BY <1>3, <1>7, <1>9
  <2>2. ToSet(q) \subseteq R[r] /\ ToSet(d) \subseteq R[r]
    BY <1>3, <1>5, <1>7, <1>9, <1>11
  <2> QED BY <2>1, <2>2
<1>17. Exploring(near, R, rem \ F, q, d, cs)
  BY <1>1, <1>7, <1>9, <1>10, <1>13, <1>14, <1>15, <1>16 DEF Exploring
<1> QED BY <1>6, <1>8, <1>17 DEF h

LEMMA ComponentFinished ==
  ASSUME NEW near, NEW R, Connects(near, R), NEW rem, NEW c, NEW cs,
         Exploring(near, R, rem, <<>>, c, cs), c # <<>>
  PROVE  Exploring(near, R, rem, <<>>, <<>>, Append(cs, SortedBy(c, <)))
<1>1. /\ Pieces(cs, R) /\ c \in Seq(Nat) /\ Distinct(c)
      /\ rem \subseteq DOMAIN R /\ ToSet(c) \subseteq DOMAIN R /\ rem \cap ToSet(c) = {}
      /\ \A a \in ToSet(c) : near[a] \subseteq ToSet(c)
  BY NothingDistinct DEF Exploring
<1>2. \A a \in DOMAIN R : (a \in rem \/ a \in ToSet(c))
                           <=> \A i \in 1 .. Len(cs) : a \notin ToSet(cs[i])
  BY NothingDistinct DEF Exploring
<1>3. PICK r \in ToSet(c) : ToSet(c) \subseteq R[r]
  BY NothingDistinct DEF Exploring
<1>4. \A a \in ToSet(c) : R[a] = ToSet(c)
  <2>1. ToSet(c) \in SUBSET DOMAIN R /\ Closed(ToSet(c), near)
    BY <1>1 DEF Closed
  <2> QED BY <2>1, <1>3 DEF Connects
<1>5. PICK s : s = SortedBy(c, <)
  OBVIOUS
<1>6. s \in Seq(Nat) /\ Ascending(s) /\ ToSet(s) = ToSet(c)
  <2>1. \A i, j \in 1 .. Len(c) : c[i] = c[j] => i = j
    BY <1>1 DEF Distinct
  <2>2. SortedBy(c, <) \in Seq(Nat) /\ Ascending(SortedBy(c, <)) /\ ToSet(SortedBy(c, <)) = ToSet(c)
    BY <1>1, <2>1, NumbersSorted
  <2> QED BY <2>2, <1>5, Zenon
<1>7. Piece(s, R)
  BY <1>1, <1>3, <1>4, <1>6 DEF Piece
<1>8. PICK n \in Nat : n = Len(cs)
  BY <1>1 DEF Pieces
<1>9. PICK ds : ds = Append(cs, s)
  OBVIOUS
<1>10. ds \in Seq(Seq(Nat)) /\ Len(ds) = n + 1 /\ ds[n + 1] = s
       /\ \A i \in 1 .. n : ds[i] = cs[i]
  BY <1>1, <1>6, <1>8, <1>9 DEF Pieces
<1>11. \A i \in 1 .. n + 1 : i = n + 1 \/ i \in 1 .. n
  OBVIOUS
<1>12. \A i \in 1 .. n : ToSet(cs[i]) \cap ToSet(c) = {}
  BY <1>1, <1>2, <1>8
<1>13. Pieces(ds, R)
  <2>1. \A i \in 1 .. n + 1 : Piece(ds[i], R)
    BY <1>1, <1>7, <1>8, <1>10, <1>11 DEF Pieces
  <2>2. \A i, j \in 1 .. n : i # j => ToSet(cs[i]) \cap ToSet(cs[j]) = {}
    BY <1>1, <1>8 DEF Pieces
  <2>3. \A i, j \in 1 .. n + 1 : i # j => ToSet(ds[i]) \cap ToSet(ds[j]) = {}
    BY <2>2, <1>6, <1>10, <1>11, <1>12
  <2> QED BY <2>1, <2>3, <1>10 DEF Pieces
<1>14. \A a \in DOMAIN R : a \in rem <=> \A i \in 1 .. Len(ds) : a \notin ToSet(ds[i])
  <2> TAKE a \in DOMAIN R
  <2>1. (\A i \in 1 .. Len(ds) : a \notin ToSet(ds[i]))
          <=> (a \notin ToSet(c) /\ \A i \in 1 .. n : a \notin ToSet(cs[i]))
    <3>1. n + 1 \in 1 .. n + 1 /\ \A i \in 1 .. n : i \in 1 .. n + 1
      BY <1>8
    <3> QED BY <3>1, <1>6, <1>10, <1>11
  <2> QED BY <2>1, <1>1, <1>2, <1>8
<1>15. Exploring(near, R, rem, <<>>, <<>>, ds)
  BY <1>1, <1>13, <1>14, NothingDistinct DEF Exploring
<1> QED BY <1>5, <1>9, <1>15, Zenon

--------------------------------------------------------------------------------
(***************************************************************************)
(* What holds at each stage of a layout.                                   *)
(***************************************************************************)

Roots   == [i \in 1 .. Len(components) |-> Root(i)]
AllTops == [i \in 1 .. Len(components) |-> Tops(i)]

LEMMA RootsKept ==
  UNCHANGED <<vars, components>> => Roots' = Roots /\ AllTops' = AllTops
<1> SUFFICES ASSUME UNCHANGED <<vars, components>> PROVE Roots' = Roots /\ AllTops' = AllTops
  OBVIOUS
<1>1. Roots' = Roots
  BY DEF vars, Roots, Root, ChooseRoot, IsMain, IsExternal, Incoming, BetterRoot
<1>2. AllTops' = AllTops
  BY <1>1 DEF vars, Roots, AllTops, Tops, Callers
<1> QED BY <1>1, <1>2

\* Each node is in a component, and a main in the first.
Complete(cs, R, M) ==
  /\ Pieces(cs, R)
  /\ \A a \in DOMAIN R : \E i \in 1 .. Len(cs) : a \in ToSet(cs[i])
  /\ M # {} => \E b \in M : b \in ToSet(cs[1])

\* The first n components are listed in the layout.
Listed(cs, n, l) ==
  /\ n \in Nat
  /\ \E T : l.components \in Seq(T)
  /\ Len(l.components) = n
  /\ \A i \in 1 .. n : l.components[i].nodeAddresses = cs[i]

LayoutInv ==
  /\ stage \in {"idle", "components", "sorted", "layers", "distances", "done"}
  /\ stage # "idle" => phase = "idle"
  /\ stage = "components" =>
       Exploring(Neighbours, Reach, remaining, pending, component, components)
  /\ stage \in {"components", "sorted"} => layout = NoLayout /\ corner = FirstCorner
  /\ stage \in {"sorted", "layers", "distances", "done"} =>
       Complete(components, Reach, MainNodes)
  /\ stage \in {"layers", "distances"} =>
       place \in 1 .. Len(components) /\ Listed(components, place - 1, layout)
  /\ stage = "done" => Listed(components, Len(components), layout)
  /\ stage = "layers" => Searching(Called, ToSet(AllTops[place]), layers, pending)
  /\ stage = "distances" =>
       /\ layers \in [DOMAIN layers -> Nat] /\ DOMAIN layers \subseteq Addresses
       /\ BreadthFirst(ToSet(AllTops[place]), Called, layers)
       /\ Searching(Linked, {Roots[place]}, distances, pending)

\* The search for the layers starts with nodes of the component.
LEMMA TopsFit ==
  ASSUME GraphInv, Pieces(components, Reach), NEW i \in 1 .. Len(components)
  PROVE  /\ Roots[i] = Root(i) /\ AllTops[i] = Tops(i)
         /\ ToSet(components[i]) \subseteq Addresses /\ ToSet(components[i]) # {}
         /\ Root(i) \in ToSet(components[i])
         /\ Tops(i) \in Seq(Nat) /\ Distinct(Tops(i))
         /\ ToSet(Tops(i)) =
              {a \in ToSet(components[i]) : Callers(a) = {}} \cup {Root(i)}
<1> DEFINE c == components[i]
           U == {a \in ToSet(c) : Callers(a) = {}}
<1>1. Roots[i] = Root(i) /\ AllTops[i] = Tops(i)
  BY DEF Roots, AllTops
<1>2. ToSet(c) \subseteq Addresses /\ ToSet(c) # {}
  BY ReachConnects DEF Pieces, Piece
<1>3. Root(i) \in ToSet(c)
  BY <1>2, RootInside DEF Root
<1>4. Addresses \subseteq Nat /\ IsFiniteSet(Addresses)
  BY DEF GraphInv, AddressesInv
<1>5. U \in SUBSET Nat /\ IsFiniteSet(U)
  BY <1>2, <1>4, FS_Subset
<1>6. PICK u : u = Sorted(U)
  OBVIOUS
<1>7. u \in Seq(Nat) /\ ToSet(u) = U /\ Ascending(u) /\ Distinct(u)
  BY <1>5, <1>6, SetSorted, AscendingDistinct
<1>8. Tops(i) = IF Root(i) \in ToSet(u) THEN u ELSE <<Root(i)>> \o u
  BY <1>6, Zenon DEF Tops
<1>9. CASE Root(i) \in U
  BY <1>1, <1>2, <1>3, <1>7, <1>8, <1>9
<1>10. CASE Root(i) \notin U
  <2>1. PICK r \in Nat : r = Root(i)
    BY <1>2, <1>3, <1>4
  <2>2. PICK t : t = <<r>> \o u
    OBVIOUS
  <2>3. PICK n \in Nat : n = Len(u)
    BY <1>7
  <2>4. t \in Seq(Nat) /\ Len(t) = n + 1 /\ t[1] = r /\ \A k \in 1 .. n : t[k + 1] = u[k]
    BY <1>7, <2>2, <2>3
  <2>5. \A k \in 1 .. n + 1 : k = 1 \/ (k - 1 \in 1 .. n /\ k - 1 + 1 = k)
    OBVIOUS
  <2>6. ToSet(u) = {u[k] : k \in 1 .. n} /\ ToSet(t) = {t[k] : k \in 1 .. n + 1}
    <3>1. ToSet(u) = {u[k] : k \in 1 .. Len(u)} /\ ToSet(t) = {t[k] : k \in 1 .. Len(t)}
      BY <1>7, <2>4, ToSetIndexed
    <3> QED BY <3>1, <2>3, <2>4
  <2>7. ToSet(t) = U \cup {r}
    <3>1. \A k \in 1 .. n : k + 1 \in 1 .. n + 1
      OBVIOUS
    <3>2. 1 \in 1 .. n + 1
      BY <2>3
    <3>3. \A k \in 1 .. n + 1 : t[k] \in ToSet(u) \cup {r}
      <4> TAKE k \in 1 .. n + 1
      <4>1. CASE k = 1
        BY <4>1, <2>4
      <4>2. CASE k - 1 \in 1 .. n /\ k - 1 + 1 = k
        <5>1. t[k] = u[k - 1]
          BY <4>2, <2>4
        <5> QED BY <5>1, <4>2, <2>6
      <4> QED BY <4>1, <4>2, <2>5
    <3>4. r \in ToSet(t) /\ ToSet(u) \subseteq ToSet(t)
      BY <2>4, <2>6, <3>1, <3>2
    <3>5. ToSet(t) \subseteq ToSet(u) \cup {r}
      BY <3>3, <2>6
    <3> QED BY <3>4, <3>5, <1>7
  <2>8. Distinct(t)
    <3> SUFFICES ASSUME NEW k \in 1 .. n + 1, NEW m \in 1 .. n + 1, t[k] = t[m] PROVE k = m
      BY <2>4 DEF Distinct
    <3>1. \A j \in 1 .. n : u[j] # r
      BY <1>7, <1>10, <2>1, <2>6
    <3>4. \A j \in 1 .. n + 1 : j # 1 => t[j] # r
      <4> SUFFICES ASSUME NEW j \in 1 .. n + 1, j # 1 PROVE t[j] # r
        OBVIOUS
      <4>1. j - 1 \in 1 .. n /\ j - 1 + 1 = j
        BY <2>5
      <4>2. t[j] = u[j - 1]
        BY <4>1, <2>4
      <4> QED BY <4>1, <4>2, <3>1
    <3>2. CASE k = 1 \/ m = 1
      BY <3>2, <3>4, <2>4
    <3>3. CASE k # 1 /\ m # 1
      <4>1. k - 1 \in 1 .. n /\ m - 1 \in 1 .. n /\ u[k - 1] = u[m - 1]
        <5>1. t[k - 1 + 1] = u[k - 1] /\ t[m - 1 + 1] = u[m - 1]
          BY <3>3, <2>4, <2>5
        <5> QED BY <5>1, <3>3, <2>5
      <4>2. k - 1 = m - 1
        BY <4>1, <1>7, <2>3 DEF Distinct
      <4> QED BY <4>2, <2>3
    <3> QED BY <3>2, <3>3
  <2>9. Tops(i) = t
    BY <1>7, <1>8, <1>10, <2>1, <2>2
  <2> QED BY <1>1, <1>2, <1>3, <2>1, <2>4, <2>7, <2>8, <2>9
<1> QED BY <1>9, <1>10

LEMMA AllExplored ==
  ASSUME GraphInv, NEW cs,
         Exploring(Neighbours, Reach, {}, <<>>, <<>>, cs)
  PROVE  Complete(SortedBy(cs, Precedes), Reach, MainNodes)
<1>1. DOMAIN Reach = Addresses
  BY ReachConnects
<1>2. Pieces(cs, Reach) /\ \A a \in Addresses : \E i \in 1 .. Len(cs) : a \in ToSet(cs[i])
  BY <1>1, NothingDistinct DEF Exploring
<1>3. PICK t : t = SortedBy(cs, Precedes)
  OBVIOUS
<1>4. Pieces(t, Reach) /\ RootsAscend(t) /\ ToSet(t) = ToSet(cs)
  BY <1>1, <1>2, <1>3, PiecesSorted
<1>5. ToSet(t) = {t[i] : i \in 1 .. Len(t)} /\ ToSet(cs) = {cs[i] : i \in 1 .. Len(cs)}
  BY <1>2, <1>4, ToSetIndexed DEF Pieces
<1>6. \A a \in Addresses : \E i \in 1 .. Len(t) : a \in ToSet(t[i])
  <2> TAKE a \in Addresses
  <2>1. PICK i \in 1 .. Len(cs) : a \in ToSet(cs[i])
    BY <1>2
  <2>2. cs[i] \in ToSet(t)
    BY <1>4, <1>5
  <2> QED BY <1>5, <2>1, <2>2
<1>7. ASSUME NEW m \in MainNodes
      PROVE  \E b \in MainNodes : b \in ToSet(t[1])
  <2>1. m \in Addresses /\ IsMain(m)
    BY DEF MainNodes
  <2>2. PICK i \in 1 .. Len(t) : m \in ToSet(t[i])
    BY <1>6, <2>1
  <2>3. 1 \in 1 .. Len(t) /\ (i = 1 \/ 1 < i)
    BY <1>4, <2>2 DEF Pieces
  <2>4. \A j \in 1 .. Len(t) : ToSet(t[j]) \subseteq Addresses /\ ToSet(t[j]) # {}
    BY <1>1, <1>4 DEF Pieces, Piece
  <2>5. IsMain(ChooseRoot(t[i])) /\ ChooseRoot(t[1]) \in ToSet(t[1])
    BY <2>1, <2>2, <2>3, <2>4, RootInside
  <2>6. CASE i = 1
    BY <2>2, <2>6
  <2>7. CASE 1 < i
    <3>1. Precedes(t[1], t[i])
      BY <1>4, <2>3, <2>7 DEF RootsAscend
    <3>2. IsMain(ChooseRoot(t[1]))
      BY <3>1, <2>5, Zenon DEF Precedes
    <3>3. ChooseRoot(t[1]) \in MainNodes
      BY <3>2, <2>3, <2>4, <2>5 DEF MainNodes
    <3> QED BY <3>3, <2>5
  <2> QED BY <2>3, <2>6, <2>7
<1>8. Complete(t, Reach, MainNodes)
  BY <1>1, <1>4, <1>6, <1>7 DEF Complete
<1> QED BY <1>3, <1>8

LEMMA NothingListed == \A cs : Listed(cs, 0, NoLayout)
<1>1. NoLayout.components = <<>>
  BY DEF NoLayout
<1>2. <<>> \in Seq({}) /\ Len(<<>>) = 0
  OBVIOUS
<1> QED BY <1>1, <1>2 DEF Listed

LEMMA LayoutBegins ==
  ASSUME GraphInv, LayoutInv, BeginLayout
  PROVE  LayoutInv'
<1>1. UNCHANGED vars /\ phase = "idle" /\ phase' = "idle" /\ layout' = NoLayout
      /\ corner' = FirstCorner /\ components' = <<>>
  BY DEF BeginLayout, vars
<1>2. DOMAIN Reach = Addresses /\ Connects(Neighbours, Reach)
  BY ReachConnects
<1>3. CASE nodes = <<>>
  <2>1. stage' = "done"
    BY <1>3 DEF BeginLayout
  <2>2. Addresses = {} /\ MainNodes = {}
    BY <1>3, ToSetEmpty DEF Addresses, MainNodes
  <2>3. Pieces(<<>>, Reach)
    BY DEF Pieces
  <2>4. Complete(<<>>, Reach, MainNodes)
    BY <1>2, <2>2, <2>3 DEF Complete
  <2>5. Complete(components', Reach', MainNodes')
    BY <2>4, <1>1, GraphKept
  <2>6. Listed(components', Len(components'), layout')
    BY <1>1, NothingListed
  <2> QED BY <1>1, <2>1, <2>5, <2>6 DEF LayoutInv
<1>4. CASE nodes # <<>>
  <2>1. stage' = "components" /\ remaining' = Addresses /\ pending' = <<>> /\ component' = <<>>
    BY <1>4 DEF BeginLayout
  <2>2. Exploring(Neighbours, Reach, Addresses, <<>>, <<>>, <<>>)
    BY <1>2, ExploringStarts
  <2>3. Exploring(Neighbours', Reach', remaining', pending', component', components')
    BY <1>1, <2>1, <2>2, GraphKept
  <2> QED BY <1>1, <2>1, <2>3 DEF LayoutInv
<1> QED BY <1>3, <1>4

\* A step of the search for the components.
LEMMA ExploringHolds ==
  ASSUME GraphInv, LayoutInv, StartComponent \/ VisitNode \/ FinishComponent
  PROVE  LayoutInv'
<1>1. /\ stage = "components" /\ UNCHANGED vars /\ UNCHANGED <<stage, placing, layout>>
      /\ phase = "idle" /\ layout = NoLayout /\ corner = FirstCorner
      /\ Exploring(Neighbours, Reach, remaining, pending, component, components)
  BY DEF LayoutInv, StartComponent, VisitNode, FinishComponent
<1>2. Connects(Neighbours, Reach)
  BY ReachConnects
<1>3. Exploring(Neighbours, Reach, remaining', pending', component', components')
  <2>1. CASE StartComponent
    <3>1. /\ pending = <<>> /\ component = <<>> /\ remaining # {}
          /\ pending' = <<Least(remaining)>> /\ remaining' = remaining \ {Least(remaining)}
          /\ component' = component /\ components' = components
      BY <2>1 DEF StartComponent
    <3>2. Exploring(Neighbours, Reach, remaining \ {Least(remaining)}, <<Least(remaining)>>,
                    <<>>, components)
      BY <3>1, <1>1, <1>2, ComponentStarts
    <3> QED BY <3>1, <3>2
  <2>2. CASE VisitNode
    <3> DEFINE F == Adjacent(Head(pending)) \cap remaining
    <3>1. /\ pending # <<>>
          /\ pending' = Requeued(pending, F) /\ remaining' = remaining \ F
          /\ component' = Append(component, Head(pending)) /\ components' = components
      BY <2>2, Zenon DEF VisitNode, Requeued
    <3>2. Head(pending) \in Addresses
      <4>1. pending \in Seq(Nat) /\ ToSet(pending) \subseteq Addresses
        BY <1>1, ReachConnects DEF Exploring
      <4> QED BY <4>1, <3>1, SomeElement
    <3>3. F = Neighbours[Head(pending)] \cap remaining
      BY <3>2 DEF Neighbours
    <3> HIDE DEF F
    <3>4. Exploring(Neighbours, Reach, remaining \ F, Requeued(pending, F),
                    Append(component, Head(pending)), components)
      BY <3>1, <3>3, <1>1, <1>2, NodeVisited
    <3> QED BY <3>1, <3>4
  <2>3. CASE FinishComponent
    <3>1. /\ pending = <<>> /\ component # <<>>
          /\ pending' = pending /\ remaining' = remaining
          /\ component' = <<>> /\ components' = Append(components, SortedBy(component, <))
      BY <2>3, Zenon DEF FinishComponent
    <3>2. Exploring(Neighbours, Reach, remaining, <<>>, component, components)
      BY <3>1, <1>1
    <3>3. Exploring(Neighbours, Reach, remaining, <<>>, <<>>,
                    Append(components, SortedBy(component, <)))
      BY <3>1, <3>2, <1>2, ComponentFinished, Zenon
    <3> QED BY <3>1, <3>3, Zenon
  <2> QED BY <2>1, <2>2, <2>3
<1>4. Exploring(Neighbours', Reach', remaining', pending', component', components')
  BY <1>1, <1>3, GraphKept
<1>5. phase' = "idle" /\ stage' = "components" /\ layout' = NoLayout /\ corner' = FirstCorner
  BY <1>1 DEF vars, placing
<1> QED BY <1>4, <1>5 DEF LayoutInv

LEMMA SortingHolds ==
  ASSUME GraphInv, LayoutInv, SortComponents
  PROVE  LayoutInv'
<1>1. /\ stage = "components" /\ UNCHANGED vars /\ UNCHANGED <<placing, layout>>
      /\ phase = "idle" /\ layout = NoLayout /\ corner = FirstCorner
      /\ Exploring(Neighbours, Reach, remaining, pending, component, components)
  BY DEF LayoutInv, SortComponents
<1>2. /\ pending = <<>> /\ component = <<>> /\ remaining = {} /\ stage' = "sorted"
      /\ components' = SortedBy(components, Precedes)
  BY Zenon DEF SortComponents
<1>3. Complete(SortedBy(components, Precedes), Reach, MainNodes)
  <2>1. Exploring(Neighbours, Reach, {}, <<>>, <<>>, components)
    BY <1>1, <1>2
  <2> QED BY <2>1, AllExplored, Zenon
<1>4. Complete(components', Reach, MainNodes)
  BY <1>2, <1>3, Zenon
<1>5. Complete(components', Reach', MainNodes')
  BY <1>1, <1>4, GraphKept
<1>6. phase' = "idle" /\ layout' = NoLayout /\ corner' = FirstCorner
  BY <1>1 DEF vars, placing
<1> QED BY <1>2, <1>5, <1>6 DEF LayoutInv

\* The loop over the components goes to the next of them.
LEMMA LayersStart ==
  ASSUME GraphInv, Complete(components, Reach, MainNodes),
         UNCHANGED <<vars, components>>, phase = "idle",
         NEW i \in 1 .. Len(components) + 1, StartLayers(i),
         Listed(components, i - 1, layout')
  PROVE  LayoutInv'
<1>1. /\ Addresses' = Addresses /\ Called' = Called /\ Reach' = Reach /\ MainNodes' = MainNodes
      /\ AllTops' = AllTops /\ components' = components /\ phase' = "idle"
  BY GraphKept, RootsKept DEF vars
<1>2. Complete(components', Reach', MainNodes')
  BY <1>1
<1>3. Pieces(components, Reach) /\ Len(components) \in Nat
  <2>1. Pieces(components, Reach)
    BY DEF Complete
  <2>2. components \in Seq(Seq(Nat))
    BY <2>1 DEF Pieces
  <2> QED BY <2>1, <2>2
<1>4. CASE i > Len(components)
  <2>1. stage' = "done" /\ i - 1 = Len(components)
    BY <1>3, <1>4 DEF StartLayers
  <2>2. Listed(components', Len(components'), layout')
    BY <1>1, <2>1
  <2> QED BY <1>1, <1>2, <2>1, <2>2 DEF LayoutInv
<1>5. CASE ~ (i > Len(components))
  <2>1. /\ i \in 1 .. Len(components) /\ stage' = "layers" /\ place' = i
        /\ layers' = [a \in ToSet(Tops(i)) |-> 0] /\ pending' = Tops(i)
    BY <1>3, <1>5 DEF StartLayers
  <2>2. /\ AllTops[i] = Tops(i) /\ Tops(i) \in Seq(Nat) /\ Distinct(Tops(i))
        /\ ToSet(Tops(i)) \subseteq Addresses
    BY <1>3, <2>1, TopsFit
  <2>3. Searching(Called, ToSet(Tops(i)), layers', pending')
    <3>1. ToSet(Tops(i)) \in SUBSET DOMAIN Called
      BY <2>2 DEF Called
    <3> QED BY <2>1, <2>2, <3>1, SearchStarts
  <2>4. Searching(Called', ToSet(AllTops'[place']), layers', pending')
    BY <1>1, <2>1, <2>2, <2>3
  <2>5. place' \in 1 .. Len(components') /\ Listed(components', place' - 1, layout')
    BY <1>1, <2>1
  <2> QED BY <1>1, <1>2, <2>1, <2>4, <2>5 DEF LayoutInv
<1> QED BY <1>4, <1>5

LEMMA PlacingStarts ==
  ASSUME GraphInv, LayoutInv, StartPlacing
  PROVE  LayoutInv'
<1>1. /\ stage = "sorted" /\ StartLayers(1) /\ UNCHANGED <<vars, components>> /\ layout' = layout
  BY DEF StartPlacing
<1>2. phase = "idle" /\ layout = NoLayout /\ Complete(components, Reach, MainNodes)
  BY <1>1 DEF LayoutInv
<1>3. 1 \in 1 .. Len(components) + 1 /\ 1 - 1 = 0
  BY <1>2 DEF Complete, Pieces
<1>4. Listed(components, 1 - 1, layout')
  BY <1>1, <1>2, <1>3, NothingListed
<1> QED BY <1>1, <1>2, <1>3, <1>4, LayersStart

\* What a search finds are the neighbours that it has not reached.
LEMMA SearchFinds ==
  ASSUME NEW near, NEW T, NEW l, NEW p, Searching(near, T, l, p), p # <<>>
  PROVE  Head(p) \in DOMAIN l /\ Head(p) \in DOMAIN near
<1>1. p \in Seq(Nat) /\ ToSet(p) \subseteq DOMAIN l /\ DOMAIN l \subseteq DOMAIN near
  BY DEF Searching
<1> QED BY <1>1, SomeElement

LEMMA ReachingCallees ==
  ASSUME GraphInv, LayoutInv, ReachCallees
  PROVE  LayoutInv'
<1> DEFINE h == Head(pending)
           F == Callees(h) \ DOMAIN layers
           T == ToSet(AllTops[place])
<1>1. /\ stage = "layers" /\ pending # <<>>
      /\ layers' = Deeper(layers, h, F) /\ pending' = Requeued(pending, F)
      /\ UNCHANGED <<vars, stage, remaining, component, components, place, distances, corner, layout>>
  BY Zenon DEF ReachCallees, Requeued
<1>2. /\ phase = "idle" /\ Complete(components, Reach, MainNodes)
      /\ place \in 1 .. Len(components) /\ Listed(components, place - 1, layout)
      /\ Searching(Called, T, layers, pending)
  BY <1>1 DEF LayoutInv
<1>3. /\ Called \in [Addresses -> SUBSET Addresses] /\ AddressesInv
      /\ \A a \in Addresses : Callees(a) = Called[a] \ {a}
  BY NeighboursFit DEF GraphInv
<1>4. h \in DOMAIN layers /\ h \in Addresses
  BY <1>1, <1>2, <1>3, SearchFinds
<1>5. F = Called[h] \ DOMAIN layers
  BY <1>3, <1>4
<1> HIDE DEF F, T
<1>6. Searching(Called, T, layers', pending')
  <2>1. Searching(Called, T, Deeper(layers, Head(pending), F), Requeued(pending, F))
    BY <1>1, <1>2, <1>3, <1>5, SearchGoesOn
  <2> QED BY <1>1, <2>1
<1>7. Searching(Called', ToSet(AllTops'[place']), layers', pending')
  BY <1>1, <1>6, GraphKept, RootsKept DEF T
<1>8. Complete(components', Reach', MainNodes') /\ phase' = "idle" /\ stage' = "layers"
  BY <1>1, <1>2, GraphKept DEF vars
<1>9. place' \in 1 .. Len(components') /\ Listed(components', place' - 1, layout')
  BY <1>1, <1>2
<1> QED BY <1>7, <1>8, <1>9 DEF LayoutInv

LEMMA DistancesStart ==
  ASSUME GraphInv, LayoutInv, StartDistances
  PROVE  LayoutInv'
<1> DEFINE T == ToSet(AllTops[place])
<1>1. /\ stage = "layers" /\ pending = <<>> /\ stage' = "distances"
      /\ distances' = [a \in {Root(place)} |-> 0] /\ pending' = <<Root(place)>>
      /\ UNCHANGED <<vars, remaining, component, components, place, layers, corner, layout>>
  BY DEF StartDistances
<1>2. /\ phase = "idle" /\ Complete(components, Reach, MainNodes)
      /\ place \in 1 .. Len(components) /\ Listed(components, place - 1, layout)
      /\ Searching(Called, T, layers, <<>>)
  BY <1>1 DEF LayoutInv
<1>3. DOMAIN Called = Addresses /\ DOMAIN Linked = Addresses
  BY DEF Called, Linked
<1>4. layers \in [DOMAIN layers -> Nat] /\ DOMAIN layers \subseteq Addresses
  BY <1>2, <1>3 DEF Searching
<1>5. BreadthFirst(T, Called, layers)
  BY <1>2, SearchEnds
<1>6. Roots[place] = Root(place) /\ Root(place) \in Addresses /\ Root(place) \in Nat
  <2>1. Pieces(components, Reach)
    BY <1>2 DEF Complete
  <2> QED BY <1>2, <2>1, TopsFit DEF GraphInv, AddressesInv
<1>7. Searching(Linked, {Root(place)}, distances', pending')
  <2>1. PICK r \in Nat : r = Root(place)
    BY <1>6
  <2>2. PICK p : p = <<r>>
    OBVIOUS
  <2>3. p \in Seq(Nat) /\ Len(p) = 1 /\ p[1] = r
    BY <2>2
  <2>4. ToSet(p) = {p[i] : i \in 1 .. Len(p)}
    BY <2>3, ToSetIndexed
  <2>5. Distinct(p) /\ ToSet(p) = {r}
    BY <2>3, <2>4 DEF Distinct
  <2>6. {r} \in SUBSET DOMAIN Linked
    BY <1>3, <1>6, <2>1
  <2>7. Searching(Linked, {r}, [a \in {r} |-> 0], p)
    BY <2>3, <2>5, <2>6, SearchStarts
  <2> QED BY <1>1, <2>1, <2>2, <2>7
<1> HIDE DEF T
<1>8. Searching(Linked', {Roots'[place']}, distances', pending')
  BY <1>1, <1>6, <1>7, GraphKept, RootsKept
<1>9. BreadthFirst(ToSet(AllTops'[place']), Called', layers')
  BY <1>1, <1>5, GraphKept, RootsKept DEF T
<1>10. layers' \in [DOMAIN layers' -> Nat] /\ DOMAIN layers' \subseteq Addresses'
  BY <1>1, <1>4, GraphKept
<1>11. Complete(components', Reach', MainNodes') /\ phase' = "idle"
  BY <1>1, <1>2, GraphKept DEF vars
<1>12. place' \in 1 .. Len(components') /\ Listed(components', place' - 1, layout')
  BY <1>1, <1>2
<1> QED BY <1>1, <1>8, <1>9, <1>10, <1>11, <1>12 DEF LayoutInv

LEMMA ReachingNeighbours ==
  ASSUME GraphInv, LayoutInv, ReachNeighbours
  PROVE  LayoutInv'
<1> DEFINE h == Head(pending)
           F == Adjacent(h) \ DOMAIN distances
           T == {Roots[place]}
<1>1. /\ stage = "distances" /\ pending # <<>>
      /\ distances' = Deeper(distances, h, F) /\ pending' = Requeued(pending, F)
      /\ UNCHANGED <<vars, stage, remaining, component, components, place, layers, corner, layout>>
  BY Zenon DEF ReachNeighbours, Requeued
<1>2. /\ phase = "idle" /\ Complete(components, Reach, MainNodes)
      /\ place \in 1 .. Len(components) /\ Listed(components, place - 1, layout)
      /\ layers \in [DOMAIN layers -> Nat] /\ DOMAIN layers \subseteq Addresses
      /\ BreadthFirst(ToSet(AllTops[place]), Called, layers)
      /\ Searching(Linked, T, distances, pending)
  BY <1>1 DEF LayoutInv
<1>3. /\ Linked \in [Addresses -> SUBSET Addresses] /\ AddressesInv
      /\ Neighbours \in [Addresses -> SUBSET Addresses]
      /\ \A a \in Addresses : Neighbours[a] = Linked[a] \ {a}
  BY NeighboursFit DEF GraphInv
<1>4. h \in DOMAIN distances /\ h \in Addresses
  BY <1>1, <1>2, <1>3, SearchFinds
<1>5. F = Linked[h] \ DOMAIN distances
  <2>1. Neighbours[h] = Adjacent(h)
    BY <1>4 DEF Neighbours
  <2> QED BY <1>3, <1>4, <2>1
<1> HIDE DEF F, T
<1>6. Searching(Linked, T, distances', pending')
  <2>1. Searching(Linked, T, Deeper(distances, Head(pending), F), Requeued(pending, F))
    BY <1>1, <1>2, <1>3, <1>5, SearchGoesOn
  <2> QED BY <1>1, <2>1
<1>7. Searching(Linked', {Roots'[place']}, distances', pending')
  BY <1>1, <1>6, GraphKept, RootsKept DEF T
<1>8. Complete(components', Reach', MainNodes') /\ phase' = "idle" /\ stage' = "distances"
  BY <1>1, <1>2, GraphKept DEF vars
<1>9. place' \in 1 .. Len(components') /\ Listed(components', place' - 1, layout')
  BY <1>1, <1>2
<1>10. /\ layers' \in [DOMAIN layers' -> Nat] /\ DOMAIN layers' \subseteq Addresses'
       /\ BreadthFirst(ToSet(AllTops'[place']), Called', layers')
  BY <1>1, <1>2, GraphKept, RootsKept
<1> QED BY <1>7, <1>8, <1>9, <1>10 DEF LayoutInv

LEMMA ListedOneMore ==
  ASSUME NEW cs, NEW n, NEW l, Listed(cs, n, l), NEW y, y.nodeAddresses = cs[n + 1],
         NEW k, k.components = Append(l.components, y)
  PROVE  Listed(cs, n + 1, k)
<1>1. PICK T : l.components \in Seq(T)
  BY DEF Listed
<1>2. PICK s : s = l.components
  OBVIOUS
<1>3. s \in Seq(T \cup {y}) /\ Len(s) = n /\ n \in Nat
  BY <1>1, <1>2 DEF Listed
<1>4. PICK t : t = Append(s, y)
  OBVIOUS
<1>5. t \in Seq(T \cup {y}) /\ Len(t) = n + 1 /\ t[n + 1] = y /\ \A i \in 1 .. n : t[i] = s[i]
  BY <1>3, <1>4
<1>6. \A i \in 1 .. n : s[i].nodeAddresses = cs[i]
  BY <1>2 DEF Listed
<1>7. \A i \in 1 .. n + 1 : t[i].nodeAddresses = cs[i]
  <2> TAKE i \in 1 .. n + 1
  <2>1. i = n + 1 \/ i \in 1 .. n
    BY <1>3
  <2> QED BY <2>1, <1>5, <1>6
<1>8. k.components = t
  BY <1>2, <1>4
<1> QED BY <1>3, <1>5, <1>7, <1>8 DEF Listed

LEMMA PlacingHolds ==
  ASSUME GraphInv, LayoutInv, PlaceComponent
  PROVE  LayoutInv'
<1>1. /\ stage = "distances" /\ StartLayers(place + 1)
      /\ UNCHANGED <<vars, remaining, component, components>>
  BY DEF PlaceComponent
<1>2. /\ phase = "idle" /\ Complete(components, Reach, MainNodes)
      /\ place \in 1 .. Len(components) /\ Listed(components, place - 1, layout)
  BY <1>1 DEF LayoutInv
<1>3. Len(components) \in Nat
  <2>1. Pieces(components, Reach)
    BY <1>2 DEF Complete
  <2> QED BY <2>1 DEF Pieces
<1>4. place + 1 \in 1 .. Len(components) + 1 /\ place - 1 + 1 = place /\ place + 1 - 1 = place
  BY <1>2, <1>3
<1>5. PICK y : /\ y.nodeAddresses = components[place]
               /\ layout'.components = Append(layout.components, y)
  <2> DEFINE c == components[place]
             placed == [a \in ToSet(c) \cup DOMAIN layout.positions |->
                          IF a \in ToSet(c) THEN Position(a) ELSE layout.positions[a]]
             y == [nodeAddresses  |-> c,
                   representative |-> Root(place),
                   secondary      |-> IF Len(c) > 1 THEN Last(c) ELSE Root(place),
                   sceneBounds    |-> Around({Box(placed[a], a) : a \in ToSet(c)})]
  <2>1. layout' = [positions |-> placed, components |-> Append(layout.components, y)]
    BY Zenon DEF PlaceComponent
  <2>2. y.nodeAddresses = c
    OBVIOUS
  <2> HIDE DEF y, placed
  <2>3. layout'.components = Append(layout.components, y)
    BY <2>1
  <2> QED BY <2>2, <2>3
<1>6. Listed(components, place, layout')
  <2>1. y.nodeAddresses = components[place - 1 + 1]
    BY <1>4, <1>5
  <2>2. Listed(components, place - 1 + 1, layout')
    BY <2>1, <1>2, <1>5, ListedOneMore
  <2> QED BY <2>2, <1>4
<1>7. Listed(components, place + 1 - 1, layout')
  BY <1>4, <1>6
<1>8. UNCHANGED <<vars, components>>
  BY <1>1
<1> QED BY <1>1, <1>2, <1>4, <1>7, <1>8, LayersStart

LEMMA LayoutKept ==
  ASSUME LayoutInv, UNCHANGED <<vars, layoutVars>>
  PROVE  LayoutInv'
<1>1. /\ UNCHANGED <<vars, components>> /\ phase' = phase
      /\ UNCHANGED <<stage, remaining, pending, component, place, layers, distances, corner, layout>>
  BY DEF vars, layoutVars, search, placing
<1>2. /\ Addresses' = Addresses /\ Called' = Called /\ Linked' = Linked
      /\ Neighbours' = Neighbours /\ Reach' = Reach /\ MainNodes' = MainNodes
      /\ Roots' = Roots /\ AllTops' = AllTops
  BY <1>1, GraphKept, RootsKept
<1> QED BY <1>1, <1>2 DEF LayoutInv

LEMMA LayoutHolds ==
  ASSUME IInv, LayoutInv, [GraphStep \/ LayoutStep]_<<vars, layoutVars>>
  PROVE  LayoutInv'
<1>1. CASE GraphStep
  <2>1. stage' = "idle"
    BY <1>1 DEF GraphStep
  <2> QED BY <2>1 DEF LayoutInv
<1>2. CASE BeginLayout
  <2>1. GraphInv
    BY <1>2, GraphHolds DEF BeginLayout
  <2> QED BY <1>2, <2>1, LayoutBegins
<1>3. ASSUME stage # "idle" PROVE GraphInv
  <2>1. phase = "idle"
    BY <1>3 DEF LayoutInv
  <2> QED BY <2>1, GraphHolds
<1>4. CASE StartComponent \/ VisitNode \/ FinishComponent
  <2>1. stage # "idle"
    BY <1>4 DEF StartComponent, VisitNode, FinishComponent
  <2> QED BY <1>3, <1>4, <2>1, ExploringHolds
<1>5. CASE SortComponents
  <2>1. stage # "idle"
    BY <1>5, Zenon DEF SortComponents
  <2> QED BY <1>3, <1>5, <2>1, SortingHolds
<1>6. CASE StartPlacing
  <2>1. stage # "idle"
    BY <1>6 DEF StartPlacing
  <2> QED BY <1>3, <1>6, <2>1, PlacingStarts
<1>7. CASE ReachCallees
  <2>1. stage # "idle"
    BY <1>7 DEF ReachCallees
  <2> QED BY <1>3, <1>7, <2>1, ReachingCallees
<1>8. CASE StartDistances
  <2>1. stage # "idle"
    BY <1>8 DEF StartDistances
  <2> QED BY <1>3, <1>8, <2>1, DistancesStart
<1>9. CASE ReachNeighbours
  <2>1. stage # "idle"
    BY <1>9 DEF ReachNeighbours
  <2> QED BY <1>3, <1>9, <2>1, ReachingNeighbours
<1>10. CASE PlaceComponent
  <2>1. stage # "idle"
    BY <1>10 DEF PlaceComponent
  <2> QED BY <1>3, <1>10, <2>1, PlacingHolds
<1>11. CASE UNCHANGED <<vars, layoutVars>>
  BY <1>11, LayoutKept
<1> QED BY <1>1, <1>2, <1>4, <1>5, <1>6, <1>7, <1>8, <1>9, <1>10, <1>11 DEF LayoutStep

\* The graph of a layout is one that was built, or cleared, whatever the layout does.
LEMMA LayoutStepsKeepGraph ==
  [GraphStep \/ LayoutStep]_<<vars, layoutVars>> => [Next]_vars
<1>1. GraphStep => Next
  BY DEF GraphStep
<1>2. LayoutStep => UNCHANGED vars
  BY Zenon DEF LayoutStep, BeginLayout, StartComponent, VisitNode, FinishComponent, SortComponents,
       StartPlacing, ReachCallees, StartDistances, ReachNeighbours, PlaceComponent
<1> QED BY <1>1, <1>2

LEMMA LayoutInvariant == LayoutSpec => [](IInv /\ LayoutInv)
<1>1. LayoutInit => IInv /\ LayoutInv
  BY InitHolds DEF LayoutInit, LayoutInv
<1>2. IInv /\ LayoutInv /\ [GraphStep \/ LayoutStep]_<<vars, layoutVars>> => (IInv /\ LayoutInv)'
  BY StepHolds, LayoutStepsKeepGraph, LayoutHolds
<1> QED BY <1>1, <1>2, PTL DEF LayoutSpec

(***************************************************************************)
(* The subgraphs of the panel are the connected sets of nodes, each once,  *)
(* with main in the first.                                                 *)
(***************************************************************************)
THEOREM ComponentsCorrect == LayoutSpec => []ComponentsExact
<1>1. IInv /\ LayoutInv => ComponentsExact
  <2> SUFFICES ASSUME IInv, LayoutInv, stage = "done"
               PROVE  /\ {c.nodeAddresses : c \in ToSet(layout.components)}
                           = {Sorted(Connected(a)) : a \in Addresses}
                      /\ \A i, j \in 1 .. Len(layout.components) :
                           layout.components[i].nodeAddresses = layout.components[j].nodeAddresses
                             => i = j
                      /\ \A a \in Addresses \cap Mains :
                           ~ IsExternal(a) => \E b \in Mains :
                             b \in ToSet(layout.components[1].nodeAddresses)
    BY Zenon DEF ComponentsExact
  <2>1. GraphInv
    BY GraphHolds DEF LayoutInv
  <2>2. Complete(components, Reach, MainNodes) /\ Listed(components, Len(components), layout)
    BY DEF LayoutInv
  <2>3. PICK n \in Nat : n = Len(components)
    BY <2>2 DEF Listed
  <2>4. PICK ls, T : ls = layout.components /\ ls \in Seq(T)
    BY <2>2 DEF Listed
  <2>5. Len(ls) = n /\ \A i \in 1 .. n : ls[i].nodeAddresses = components[i]
    BY <2>2, <2>3, <2>4 DEF Listed
  <2>6. Pieces(components, Reach) /\ DOMAIN Reach = Addresses
        /\ \A a \in Addresses : \E i \in 1 .. n : a \in ToSet(components[i])
    BY <2>1, <2>2, <2>3, ReachConnects DEF Complete
  <2>7. \A i \in 1 .. n : Piece(components[i], Reach)
    BY <2>3, <2>6 DEF Pieces
  <2>8. ASSUME NEW i \in 1 .. n, NEW a \in ToSet(components[i])
        PROVE  a \in Addresses /\ components[i] = Sorted(Connected(a))
    <3>1. /\ components[i] \in Seq(Nat) /\ Ascending(components[i])
          /\ ToSet(components[i]) \subseteq Addresses /\ Reach[a] = ToSet(components[i])
      BY <2>6, <2>7, <2>8 DEF Piece
    <3>2. a \in Addresses /\ Connected(a) = ToSet(components[i])
      BY <3>1 DEF Reach
    <3>3. Connected(a) \in SUBSET Nat /\ IsFiniteSet(Connected(a))
      BY <3>1, <3>2, <2>1, FS_Subset DEF GraphInv, AddressesInv
    <3>4. PICK s : s = Sorted(Connected(a))
      OBVIOUS
    <3>5. s \in Seq(Nat) /\ ToSet(s) = Connected(a) /\ Ascending(s)
      BY <3>3, <3>4, SetSorted
    <3>6. components[i] = s
      BY <3>1, <3>2, <3>5, AscendingUnique
    <3> QED BY <3>2, <3>4, <3>6
  <2>9. \A i \in 1 .. n : ToSet(components[i]) # {}
    BY <2>7 DEF Piece
  <2>10. {c.nodeAddresses : c \in ToSet(ls)} = {components[i] : i \in 1 .. n}
    <3>1. ToSet(ls) = {ls[i] : i \in 1 .. n}
      BY <2>4, <2>5, ToSetIndexed
    <3> QED BY <3>1, <2>5
  <2>11. {components[i] : i \in 1 .. n} = {Sorted(Connected(a)) : a \in Addresses}
    <3>1. \A i \in 1 .. n : \E a \in Addresses : components[i] = Sorted(Connected(a))
      BY <2>8, <2>9
    <3>2. \A a \in Addresses : \E i \in 1 .. n : components[i] = Sorted(Connected(a))
      BY <2>6, <2>8
    <3> QED BY <3>1, <3>2
  <2>12. \A i, j \in 1 .. n : components[i] = components[j] => i = j
    <3>1. \A i, j \in 1 .. n : i # j => ToSet(components[i]) \cap ToSet(components[j]) = {}
      BY <2>3, <2>6 DEF Pieces
    <3> SUFFICES ASSUME NEW i \in 1 .. n, NEW j \in 1 .. n, components[i] = components[j], i # j
                 PROVE  FALSE
      OBVIOUS
    <3>2. ToSet(components[i]) = ToSet(components[j])
      OBVIOUS
    <3> QED BY <3>1, <3>2, <2>9
  <2>13. ASSUME NEW a \in Addresses \cap Mains, ~ IsExternal(a)
         PROVE  \E b \in Mains : b \in ToSet(ls[1].nodeAddresses)
    <3>1. a \in MainNodes
      BY <2>13 DEF MainNodes, IsMain
    <3>2. PICK b \in MainNodes : b \in ToSet(components[1])
      BY <3>1, <2>2 DEF Complete
    <3>3. b \in Mains
      BY <3>2 DEF MainNodes, IsMain
    <3>4. 1 \in 1 .. n
      BY <2>6
    <3> QED BY <3>2, <3>3, <3>4, <2>5
  <2>14. \A i, j \in 1 .. Len(ls) : ls[i].nodeAddresses = ls[j].nodeAddresses => i = j
    BY <2>5, <2>12
  <2>15. {c.nodeAddresses : c \in ToSet(ls)} = {Sorted(Connected(a)) : a \in Addresses}
    BY <2>10, <2>11, Zenon
  <2> QED BY <2>4, <2>13, <2>14, <2>15, Zenon
<1> QED BY LayoutInvariant, <1>1, PTL

Measures(l, T, near) ==
  /\ DOMAIN l = Within(T, near)[Len(nodes)]
  /\ \A a \in DOMAIN l : l[a] = Distance(T, near, a)

LEMMA SearchMeasures ==
  ASSUME AddressesInv, NEW near \in [Addresses -> SUBSET Addresses],
         NEW T \in SUBSET Addresses, NEW l, DOMAIN l \subseteq Addresses,
         l \in [DOMAIN l -> Nat], BreadthFirst(T, near, l)
  PROVE  Measures(l, T, near)
<1>1. PICK D \in SUBSET Addresses : D = DOMAIN l
  OBVIOUS
<1>2. l \in [D -> Nat]
  BY <1>1
<1>3. D = Within(T, near)[Len(nodes)] /\ \A a \in D : l[a] = Distance(T, near, a)
  BY <1>2, DepthsAreDistances
<1> QED BY <1>1, <1>3 DEF Measures

\* When both searches have ended.
LEMMA SearchesEnd ==
  ASSUME GraphInv, LayoutInv, stage = "distances", pending = <<>>
  PROVE  /\ Addresses \subseteq Nat /\ IsFiniteSet(Addresses)
         /\ place \in 1 .. Len(components) /\ Root(place) \in ToSet(components[place])
         /\ ToSet(components[place]) \subseteq Addresses /\ ToSet(components[place]) # {}
         /\ components[place] \in Seq(Nat)
         /\ DOMAIN layers = Within(ToSet(Tops(place)), Called)[Len(nodes)]
         /\ \A a \in DOMAIN layers :
              layers[a] \in Nat /\ layers[a] = Distance(ToSet(Tops(place)), Called, a)
         /\ DOMAIN distances = ToSet(components[place])
         /\ \A a \in DOMAIN distances :
              distances[a] \in Nat /\ distances[a] = Distance({Root(place)}, Linked, a)
<1> DEFINE c == components[place]
           r == Root(place)
           T == ToSet(Tops(place))
<1>1. /\ Complete(components, Reach, MainNodes) /\ place \in 1 .. Len(components)
      /\ layers \in [DOMAIN layers -> Nat] /\ DOMAIN layers \subseteq Addresses
      /\ BreadthFirst(ToSet(AllTops[place]), Called, layers)
      /\ Searching(Linked, {Roots[place]}, distances, <<>>)
  BY DEF LayoutInv
<1>2. Pieces(components, Reach)
  BY <1>1 DEF Complete
<1>3. /\ Roots[place] = r /\ AllTops[place] = Tops(place)
      /\ ToSet(c) \subseteq Addresses /\ ToSet(c) # {} /\ r \in ToSet(c)
      /\ T = {a \in ToSet(c) : Callers(a) = {}} \cup {r}
  BY <1>1, <1>2, TopsFit
<1>4. /\ AddressesInv /\ Addresses \subseteq Nat /\ IsFiniteSet(Addresses)
      /\ Called \in [Addresses -> SUBSET Addresses]
      /\ Linked \in [Addresses -> SUBSET Addresses]
  BY NeighboursFit DEF GraphInv, AddressesInv
<1>5. T \in SUBSET Addresses /\ {r} \in SUBSET Addresses
  BY <1>3
<1>6. /\ DOMAIN layers = Within(T, Called)[Len(nodes)]
      /\ \A a \in DOMAIN layers : layers[a] = Distance(T, Called, a)
  <2>1. BreadthFirst(T, Called, layers)
    BY <1>1, <1>3
  <2> QED BY <2>1, <1>1, <1>4, <1>5, DepthsAreDistances
<1>7. /\ distances \in [DOMAIN distances -> Nat] /\ DOMAIN distances \subseteq Addresses
      /\ BreadthFirst({r}, Linked, distances)
  <2>1. Searching(Linked, {r}, distances, <<>>)
    BY <1>1, <1>3
  <2>2. distances \in [DOMAIN distances -> Nat] /\ DOMAIN distances \subseteq Addresses
    BY <2>1, <1>4 DEF Searching
  <2> QED BY <2>1, <2>2, SearchEnds
<1>8. /\ DOMAIN distances = Within({r}, Linked)[Len(nodes)]
      /\ \A a \in DOMAIN distances : distances[a] = Distance({r}, Linked, a)
  <2>1. PICK S \in SUBSET Addresses : S = {r}
    BY <1>5
  <2>2. BreadthFirst(S, Linked, distances)
    BY <1>7, <2>1
  <2>3. Measures(distances, S, Linked)
    BY <2>2, <1>4, <1>7, SearchMeasures
  <2> QED BY <2>1, <2>3 DEF Measures
<1>9. DOMAIN distances = ToSet(c) /\ c \in Seq(Nat)
  <2>1. Piece(c, Reach)
    BY <1>1, <1>2 DEF Pieces
  <2>2. Reach[r] = ToSet(c) /\ c \in Seq(Nat)
    BY <2>1, <1>3 DEF Piece
  <2>3. r \in Addresses
    BY <1>3
  <2> QED BY <2>2, <2>3, <1>8 DEF Reach, Connected
<1> QED BY <1>1, <1>3, <1>4, <1>6, <1>7, <1>8, <1>9

(***************************************************************************)
(* Every node has one depth, and it is the length of a shortest chain of   *)
(* calls, or the distance from the root where no such chain leads.         *)
(***************************************************************************)
THEOREM LayersCorrect == LayoutSpec => []LayersExact
<1>1. IInv /\ LayoutInv => LayersExact
  <2> DEFINE tops == {b \in ToSet(components[place]) :
                        \A e \in ToSet(edges) : e.callee = b => e.caller = b} \cup {Root(place)}
  <2> SUFFICES ASSUME IInv, LayoutInv, stage = "distances", pending = <<>>,
                      NEW a \in ToSet(components[place])
               PROVE  Depths[a] = IF a \in Within(tops, Called)[Len(nodes)]
                                    THEN Distance(tops, Called, a)
                                    ELSE Distance({Root(place)}, Linked, a)
    BY Zenon DEF LayersExact
  <2>1. GraphInv
    BY GraphHolds DEF LayoutInv
  <2>2. /\ place \in 1 .. Len(components)
        /\ ToSet(components[place]) \subseteq Addresses
        /\ DOMAIN layers = Within(ToSet(Tops(place)), Called)[Len(nodes)]
        /\ \A b \in DOMAIN layers :
             layers[b] \in Nat /\ layers[b] = Distance(ToSet(Tops(place)), Called, b)
        /\ DOMAIN distances = ToSet(components[place])
        /\ \A b \in DOMAIN distances :
             distances[b] \in Nat /\ distances[b] = Distance({Root(place)}, Linked, b)
    BY <2>1, SearchesEnd
  <2>3. tops = ToSet(Tops(place))
    <3>1. ToSet(Tops(place)) =
            {b \in ToSet(components[place]) : Callers(b) = {}} \cup {Root(place)}
      <4>1. Pieces(components, Reach)
        BY DEF LayoutInv, Complete
      <4> QED BY <4>1, <2>1, <2>2, TopsFit
    <3>2. \A b : Callers(b) = {} <=> \A e \in ToSet(edges) : e.callee = b => e.caller = b
      BY DEF Callers
    <3> QED BY <3>1, <3>2, Zenon
  <2> HIDE DEF tops
  <2>4. Depths[a] = IF a \in DOMAIN layers THEN layers[a] ELSE distances[a]
    BY DEF Depths
  <2> QED BY <2>2, <2>3, <2>4
<1> QED BY LayoutInvariant, <1>1, PTL

--------------------------------------------------------------------------------
(***************************************************************************)
(* The largest and the smallest of some numbers.                           *)
(***************************************************************************)

\* An element that fewest others of a finite set exceed is exceeded by none.
LEMMA MaxIs ==
  ASSUME NEW S \in SUBSET Int, IsFiniteSet(S), S # {}
  PROVE  Max(S) \in S /\ \A y \in S : y <= Max(S)
<1> DEFINE over(x) == {y \in S : x < y}
           counts == {Cardinality(over(x)) : x \in S}
<1>1. \A x \in S : IsFiniteSet(over(x)) /\ Cardinality(over(x)) \in Nat
  <2> TAKE x \in S
  <2>1. over(x) \in SUBSET S
    OBVIOUS
  <2> HIDE DEF over
  <2> QED BY <2>1, FS_Subset, FS_CardinalityType
<1>2. PICK n \in counts : \A m \in counts : n <= m
  <2>1. counts \in SUBSET Nat /\ counts # {}
    BY <1>1
  <2> HIDE DEF counts
  <2> QED BY <2>1, LeastElement
<1>3. PICK x \in S : n = Cardinality(over(x))
  BY <1>2
<1>4. \A y \in S : x >= y
  <2> SUFFICES ASSUME NEW y \in S, ~ (x >= y) PROVE FALSE
    OBVIOUS
  <2>0. x < y /\ ~ (y < y) /\ \A z \in S : y < z => x < z
    OBVIOUS
  <2>1. over(y) \in SUBSET over(x) /\ y \in over(x) /\ y \notin over(y)
    BY <2>0
  <2> HIDE DEF over
  <2>2. Cardinality(over(y)) <= Cardinality(over(x))
        /\ Cardinality(over(x)) # Cardinality(over(y))
    BY <1>1, <2>1, FS_Subset
  <2>3. Cardinality(over(x)) <= Cardinality(over(y))
    BY <1>2, <1>3
  <2> QED BY <2>2, <2>3, <1>1
<1>5. \E z \in S : \A y \in S : z >= y
  BY <1>4
<1>6. PICK m : m = Max(S)
  OBVIOUS
<1>7. m \in S /\ \A y \in S : m >= y
  BY <1>5, <1>6 DEF Max
<1>8. m \in Int /\ \A y \in S : y \in Int
  BY <1>7
<1> QED BY <1>6, <1>7, <1>8

\* Integers turned around are integers.
LEMMA MinIs ==
  ASSUME NEW S \in SUBSET Int, IsFiniteSet(S), S # {}
  PROVE  Min(S) \in S /\ \A y \in S : Min(S) <= y
<1> DEFINE f == [x \in S |-> -x]
           T == {f[x] : x \in S}
<1>1. f \in Surjection(S, T)
  <2>1. f \in [S -> T] /\ \A t \in T : \E x \in S : f[x] = t
    OBVIOUS
  <2> HIDE DEF f, T
  <2> QED BY <2>1, Fun_IsSurj
<1>2. IsFiniteSet(T)
  BY <1>1, FS_Surjection
<1>3. T \in SUBSET Int /\ T # {}
  OBVIOUS
<1>4. PICK t \in T : \A y \in T : y <= t
  <2> HIDE DEF T
  <2> QED BY <1>2, <1>3, MaxIs
<1>5. PICK z \in S : t = -z
  OBVIOUS
<1>6. \A y \in S : z =< y
  <2> TAKE y \in S
  <2>1. -y \in T
    OBVIOUS
  <2> HIDE DEF T
  <2>2. -y <= -z /\ y \in Int /\ z \in Int
    BY <2>1, <1>4, <1>5
  <2> QED BY <2>2
<1>7. PICK m : m = Min(S)
  OBVIOUS
<1>8. m \in S /\ \A y \in S : m =< y
  BY <1>6, <1>7 DEF Min
<1> QED BY <1>7, <1>8

LEMMA ImageFinite ==
  ASSUME NEW S, IsFiniteSet(S), NEW f
  PROVE  IsFiniteSet({f[x] : x \in S})
<1> DEFINE T == {f[x] : x \in S}
           g == [x \in S |-> f[x]]
<1>1. g \in [S -> T] /\ \A t \in T : \E x \in S : g[x] = t
  OBVIOUS
<1> HIDE DEF T, g
<1>2. g \in Surjection(S, T)
  BY <1>1, Fun_IsSurj
<1>3. IsFiniteSet(T)
  BY <1>2, FS_Surjection
<1> QED BY <1>3 DEF T

\* The largest of the values of a function, and the smallest.
Largest(m, f, S)  == m \in Int /\ (\E x \in S : m = f[x]) /\ \A x \in S : f[x] <= m
Smallest(m, f, S) == m \in Int /\ (\E x \in S : m = f[x]) /\ \A x \in S : m <= f[x]

LEMMA MaxOfValues ==
  ASSUME NEW S, IsFiniteSet(S), S # {}, NEW f, \A x \in S : f[x] \in Int,
         NEW m, m = Max({f[x] : x \in S})
  PROVE  Largest(m, f, S)
<1> DEFINE T == {f[x] : x \in S}
<1>1. IsFiniteSet(T) /\ T \in SUBSET Int /\ T # {}
  BY ImageFinite
<1>2. m = Max(T)
  OBVIOUS
<1>3. m \in T /\ \A y \in T : y <= m
  <2> HIDE DEF T
  <2> QED BY <1>1, <1>2, MaxIs
<1> QED BY <1>1, <1>3 DEF Largest

LEMMA MinOfValues ==
  ASSUME NEW S, IsFiniteSet(S), S # {}, NEW f, \A x \in S : f[x] \in Int,
         NEW m, m = Min({f[x] : x \in S})
  PROVE  Smallest(m, f, S)
<1> DEFINE T == {f[x] : x \in S}
<1>1. IsFiniteSet(T) /\ T \in SUBSET Int /\ T # {}
  BY ImageFinite
<1>2. m = Min(T)
  OBVIOUS
<1>3. m \in T /\ \A y \in T : m <= y
  <2> HIDE DEF T
  <2>1. Min(T) \in T /\ \A y \in T : Min(T) <= y
    BY <1>1, MinIs
  <2> QED BY <2>1, <1>2
<1> QED BY <1>1, <1>3 DEF Smallest

--------------------------------------------------------------------------------
(***************************************************************************)
(* What is above a layer.                                                  *)
(***************************************************************************)

\* One unfolding of Above, for n layers and any function w in its place.
Stacked(w, h, n) == [d \in 0 .. n |-> IF d = 0 THEN 0 ELSE w[d - 1] + h[d - 1]]

LEMMA StackedExists ==
  ASSUME NEW h, NEW N \in Nat
  PROVE  \E w : w = Stacked(w, h, N)
<1> DEFINE Good(n) == \E w : w = Stacked(w, h, n)
           Bad == {n \in Nat : ~ Good(n)}
<1>1. SUFFICES ASSUME Bad # {} PROVE FALSE
  OBVIOUS
<1>2. PICK m \in Bad : \A n \in Bad : m <= n
  BY <1>1, LeastElement
<1>3. CASE m = 0
  <2> DEFINE w == [k \in 0 .. 0 |-> 0]
  <2>1. w = Stacked(w, h, 0)
    BY DEF Stacked
  <2>2. Good(0)
    BY <2>1
  <2> QED BY <2>2, <1>2, <1>3
<1>4. CASE m # 0
  <2>1. m - 1 \in Nat /\ ~ (m <= m - 1)
    BY <1>2, <1>4
  <2>2. Good(m - 1)
    BY <2>1, <1>2
  <2>3. PICK u : u = Stacked(u, h, m - 1)
    BY <2>2
  <2> DEFINE w == [k \in 0 .. m |-> IF k = m THEN u[m - 1] + h[m - 1] ELSE u[k]]
  <2>4. \A k \in 0 .. m - 1 : u[k] = IF k = 0 THEN 0 ELSE u[k - 1] + h[k - 1]
    BY <2>3 DEF Stacked
  <2>5. \A k \in 0 .. m : w[k] = IF k = 0 THEN 0 ELSE w[k - 1] + h[k - 1]
    <3> TAKE k \in 0 .. m
    <3>1. CASE k = m
      <4>1. w[m] = u[m - 1] + h[m - 1] /\ w[m - 1] = u[m - 1]
        BY <2>1
      <4> HIDE DEF w
      <4> QED BY <3>1, <4>1, <1>4
    <3>2. CASE k # m
      <4>1. k \in 0 .. m - 1 /\ w[k] = u[k] /\ (k # 0 => w[k - 1] = u[k - 1])
        BY <3>2, <2>1
      <4> HIDE DEF w
      <4> QED BY <4>1, <2>4
    <3> QED BY <3>1, <3>2
  <2>6. w = [k \in 0 .. m |-> w[k]]
    OBVIOUS
  <2> HIDE DEF w
  <2>7. w = Stacked(w, h, m)
    BY <2>5, <2>6 DEF Stacked
  <2>8. Good(m)
    BY <2>7
  <2> QED BY <2>8, <1>2
<1> QED BY <1>3, <1>4

\* The layers lie on top of each other in their order.
Stacks(w, h, n) ==
  /\ w[0] = 0
  /\ \A d \in 0 .. n : w[d] \in Nat
  /\ \A d \in 0 .. n - 1 : w[d + 1] = w[d] + h[d]
  /\ \A d, e \in 0 .. n : d <= e => w[d] <= w[e]

LEMMA AboveStacks ==
  ASSUME MaximumDepth \in Nat, NEW h, \A d \in 0 .. MaximumDepth : h[d] \in Nat
  PROVE  Stacks(Above(h), h, MaximumDepth + 1)
<1>1. PICK n \in Nat : n = MaximumDepth + 1
  OBVIOUS
<1> DEFINE w == CHOOSE f : f = Stacked(f, h, n)
<1>2. w = Stacked(w, h, n)
  BY StackedExists, Zenon
<1>3. Above(h) = w
  BY <1>1, Zenon DEF Above, Stacked
<1> HIDE DEF w
<1>4. \A d \in 0 .. n : w[d] = IF d = 0 THEN 0 ELSE w[d - 1] + h[d - 1]
  BY <1>2 DEF Stacked
<1>5. w[0] = 0
  BY <1>4
<1>6. \A d \in 0 .. n - 1 : w[d + 1] = w[d] + h[d] /\ h[d] \in Nat
  <2> TAKE d \in 0 .. n - 1
  <2>1. d + 1 \in 0 .. n /\ d + 1 # 0 /\ d + 1 - 1 = d
    OBVIOUS
  <2>2. h[d] \in Nat
    BY <1>1
  <2> QED BY <2>1, <2>2, <1>4
<1>7. \A d \in 0 .. n : w[d] \in Nat
  <2> DEFINE Bad == {d \in 0 .. n : w[d] \notin Nat}
  <2>1. SUFFICES ASSUME Bad # {} PROVE FALSE
    OBVIOUS
  <2>2. PICK m \in Bad : \A d \in Bad : m <= d
    <3>1. Bad \in SUBSET Nat
      OBVIOUS
    <3> QED BY <2>1, <3>1, LeastElement
  <2>3. m # 0
    BY <2>2, <1>5
  <2>4. m - 1 \in 0 .. n - 1 /\ m - 1 \in 0 .. n /\ ~ (m <= m - 1) /\ m - 1 + 1 = m
    BY <2>2, <2>3
  <2>5. w[m - 1] \in Nat
    BY <2>2, <2>4
  <2>6. w[m] = w[m - 1] + h[m - 1] /\ h[m - 1] \in Nat
    BY <1>6, <2>4
  <2> QED BY <2>2, <2>5, <2>6
<1>8. \A d, e \in 0 .. n : d <= e => w[d] <= w[e]
  <2> DEFINE Bad == {e \in 0 .. n : ~ \A d \in 0 .. n : d <= e => w[d] <= w[e]}
  <2>1. SUFFICES ASSUME Bad # {} PROVE FALSE
    OBVIOUS
  <2>2. PICK m \in Bad : \A d \in Bad : m <= d
    <3>1. Bad \in SUBSET Nat
      OBVIOUS
    <3> QED BY <2>1, <3>1, LeastElement
  <2>3. PICK d \in 0 .. n : d <= m /\ ~ (w[d] <= w[m])
    BY <2>2
  <2>4. d # m
    BY <2>3, <1>7
  <2>5. m - 1 \in 0 .. n - 1 /\ m - 1 \in 0 .. n /\ ~ (m <= m - 1) /\ m - 1 + 1 = m /\ d <= m - 1
    BY <2>2, <2>3, <2>4
  <2>6. w[d] <= w[m - 1]
    BY <2>2, <2>5
  <2>7. w[m] = w[m - 1] + h[m - 1] /\ h[m - 1] \in Nat
    BY <1>6, <2>5
  <2>8. w[d] \in Nat /\ w[m - 1] \in Nat
    BY <1>7, <2>5
  <2> QED BY <2>3, <2>6, <2>7, <2>8
<1>9. Stacks(w, h, n)
  BY <1>5, <1>6, <1>7, <1>8 DEF Stacks
<1> QED BY <1>1, <1>3, <1>9

\* A height that is less by the spacing makes the stack less by all spacings.
LEMMA StacksCompare ==
  ASSUME NEW n \in Nat, NEW g, NEW h, NEW v, NEW w, Stacks(v, g, n), Stacks(w, h, n),
         NEW s \in Nat, s = VerticalSpacing,
         \A d \in 0 .. n - 1 : g[d] \in Nat /\ h[d] \in Nat /\ g[d] <= h[d] + s
  PROVE  \A d \in 0 .. n : v[d] <= w[d] + d * s
<1>0. s = 172
  BY DEF VerticalSpacing
<1> DEFINE Bad == {d \in 0 .. n : ~ (v[d] <= w[d] + d * s)}
<1>1. SUFFICES ASSUME Bad # {} PROVE FALSE
  OBVIOUS
<1>2. PICK m \in Bad : \A d \in Bad : m <= d
  <2>1. Bad \in SUBSET Nat
    OBVIOUS
  <2> QED BY <1>1, <2>1, LeastElement
<1>3. m # 0
  BY <1>2, <1>0 DEF Stacks
<1>4. m - 1 \in 0 .. n - 1 /\ m - 1 \in 0 .. n /\ ~ (m <= m - 1) /\ m - 1 + 1 = m
  BY <1>2, <1>3
<1>5. v[m - 1] <= w[m - 1] + (m - 1) * 172
  BY <1>0, <1>2, <1>4
<1>6. v[m] = v[m - 1] + g[m - 1] /\ w[m] = w[m - 1] + h[m - 1]
  BY <1>4 DEF Stacks
<1>7. v[m - 1] \in Nat /\ w[m - 1] \in Nat
  BY <1>4 DEF Stacks
<1>8. ~ (v[m] <= w[m] + m * 172) /\ m \in Nat
  BY <1>0, <1>2
<1>9. g[m - 1] \in Nat /\ h[m - 1] \in Nat /\ g[m - 1] <= h[m - 1] + 172
  BY <1>0, <1>4
<1> QED BY <1>5, <1>6, <1>7, <1>8, <1>9

--------------------------------------------------------------------------------
(***************************************************************************)
(* The size of a component whose nodes have their depths.                  *)
(***************************************************************************)

Searched == GraphInv /\ LayoutInv /\ stage = "distances" /\ pending = <<>>

LEMMA HeightsFit ==
  ASSUME GraphInv, NEW a \in Addresses
  PROVE  NodeHeight(a) \in Nat
<1>1. CASE IsExternal(a)
  BY <1>1 DEF NodeHeight
<1>2. CASE ~ IsExternal(a)
  <2>1. Len(program.code[a]) \in Nat
    BY <1>2 DEF GraphInv
  <2> QED BY <2>1 DEF NodeHeight
<1> QED BY <1>1, <1>2

LEMMA DepthsFit ==
  ASSUME Searched
  PROVE  /\ ToSet(components[place]) \subseteq Addresses
         /\ IsFiniteSet(ToSet(components[place])) /\ ToSet(components[place]) # {}
         /\ ToSet(components[place]) \in SUBSET Nat
         /\ MaximumDepth \in Nat
         /\ \A a \in ToSet(components[place]) : Depths[a] \in 0 .. MaximumDepth
<1>1. PICK S : S = ToSet(components[place])
  OBVIOUS
<1>2. /\ Addresses \subseteq Nat /\ IsFiniteSet(Addresses)
      /\ S \subseteq Addresses /\ S # {}
      /\ \A a \in DOMAIN layers : layers[a] \in Nat
      /\ DOMAIN distances = S
      /\ \A a \in DOMAIN distances : distances[a] \in Nat
  BY <1>1, SearchesEnd DEF Searched
<1>3. IsFiniteSet(S)
  BY <1>2, FS_Subset
<1>4. \A a \in S : Depths[a] \in Nat
  BY <1>1, <1>2 DEF Depths
<1>5. PICK m : m = MaximumDepth
  OBVIOUS
<1>6. m = Max({Depths[a] : a \in S})
  BY <1>1, <1>5 DEF MaximumDepth
<1>7. m \in Int /\ (\E a \in S : m = Depths[a]) /\ \A a \in S : Depths[a] <= m
  <2>1. PICK f : f = Depths
    OBVIOUS
  <2>2. S # {} /\ \A a \in S : f[a] \in Int
    BY <1>2, <1>4, <2>1
  <2>3. m = Max({f[a] : a \in S})
    BY <1>6, <2>1
  <2>4. Largest(m, f, S)
    BY <1>3, <2>2, <2>3, MaxOfValues
  <2> QED BY <2>1, <2>4 DEF Largest
<1>8. m \in Nat /\ \A a \in S : Depths[a] \in 0 .. m
  BY <1>4, <1>7
<1> QED BY <1>1, <1>2, <1>3, <1>5, <1>8

LEMMA LayersFit ==
  ASSUME Searched, NEW d
  PROVE  /\ Grouped(d) \in SUBSET ToSet(components[place]) /\ IsFiniteSet(Grouped(d))
         /\ Grouped(d) \in SUBSET Nat
         /\ LayerWidth(d) \in Nat
         /\ Grouped(d) # {} => LayerWidth(d) = Cardinality(Grouped(d)) * 788 - 132
         /\ LayerHeight(d) \in Nat
         /\ \A a \in Grouped(d) : NodeHeight(a) \in Nat /\ NodeHeight(a) <= LayerHeight(d)
<1>1. /\ Grouped(d) \in SUBSET ToSet(components[place]) /\ IsFiniteSet(Grouped(d))
      /\ Grouped(d) \in SUBSET Nat /\ Grouped(d) \subseteq Addresses
  <2>1. Grouped(d) \in SUBSET ToSet(components[place])
    BY DEF Grouped
  <2> QED BY <2>1, DepthsFit, FS_Subset
<1>2. /\ LayerWidth(d) \in Nat
      /\ Grouped(d) # {} => LayerWidth(d) = Cardinality(Grouped(d)) * 788 - 132
  <2>1. CASE Grouped(d) = {}
    BY <2>1 DEF LayerWidth
  <2>2. CASE Grouped(d) # {}
    <3>1. PICK n : n = Cardinality(Grouped(d))
      OBVIOUS
    <3>2. n \in Nat /\ n # 0
      BY <1>1, <2>2, <3>1, FS_CardinalityType, FS_EmptySet
    <3>3. LayerWidth(d) = n * (656 + 132) - 132
      BY <2>2, <3>1 DEF LayerWidth, NodeWidth, HorizontalSpacing
    <3> QED BY <3>1, <3>2, <3>3
  <2> QED BY <2>1, <2>2
<1>3. \A a \in Grouped(d) : NodeHeight(a) \in Nat
  BY <1>1, HeightsFit DEF Searched
<1>4. LayerHeight(d) \in Nat /\ \A a \in Grouped(d) : NodeHeight(a) <= LayerHeight(d)
  <2> DEFINE f == [a \in Grouped(d) |-> NodeHeight(a)]
             G == Grouped(d)
             T == {0} \cup {f[a] : a \in G}
  <2>1. {f[a] : a \in G} = {NodeHeight(a) : a \in G} /\ \A a \in G : f[a] = NodeHeight(a)
    OBVIOUS
  <2>2. LayerHeight(d) = Max(T)
    BY <2>1 DEF LayerHeight
  <2> HIDE DEF f, G
  <2>3. IsFiniteSet({f[a] : a \in G})
    BY <1>1, ImageFinite DEF G
  <2>4. IsFiniteSet(T) /\ T \in SUBSET Nat /\ T # {}
    <3>1. IsFiniteSet(T)
      BY <2>3, FS_Singleton, FS_Union
    <3> QED BY <3>1, <1>3, <2>1 DEF G
  <2> HIDE DEF T
  <2>5. Max(T) \in T /\ \A y \in T : y <= Max(T)
    BY <2>4, MaxIs
  <2>6. \A a \in G : NodeHeight(a) \in T
    BY <2>1 DEF T
  <2> QED BY <2>2, <2>4, <2>5, <2>6 DEF G
<1> QED BY <1>1, <1>2, <1>3, <1>4

LEMMA WidthFits ==
  ASSUME Searched
  PROVE  Width \in Nat /\ \A d \in 0 .. MaximumDepth : LayerWidth(d) <= Width
<1>1. PICK n \in Nat : n = MaximumDepth
  BY DepthsFit
<1> DEFINE f == [d \in 0 .. n |-> LayerWidth(d)]
<1>2. \A d \in 0 .. n : f[d] = LayerWidth(d) /\ f[d] \in Nat
  BY LayersFit
<1>3. {f[d] : d \in 0 .. n} = {LayerWidth(d) : d \in 0 .. n}
  BY <1>2
<1>4. PICK m : m = Width
  OBVIOUS
<1>5. m = Max({f[d] : d \in 0 .. n})
  BY <1>1, <1>3, <1>4 DEF Width
<1> HIDE DEF f
<1>6. IsFiniteSet(0 .. n) /\ 0 .. n # {}
  <2>1. 0 \in 0 .. n
    OBVIOUS
  <2>2. IsFiniteSet(0 .. n)
    BY FS_Interval
  <2> QED BY <2>1, <2>2
<1>7. m \in Int /\ (\E d \in 0 .. n : m = f[d]) /\ \A d \in 0 .. n : f[d] <= m
  <2>1. Largest(m, f, 0 .. n)
    BY <1>2, <1>5, <1>6, MaxOfValues
  <2> QED BY <2>1 DEF Largest
<1>8. m \in Nat /\ \A d \in 0 .. n : LayerWidth(d) <= m
  BY <1>2, <1>7
<1> QED BY <1>1, <1>4, <1>8

\* The layers lie below each other, within the height of the component.
LEMMA LayersStack ==
  ASSUME Searched, Corner.y \in Nat
  PROVE  /\ Height \in Nat
         /\ \A d \in 0 .. MaximumDepth :
              /\ LayerY(d) \in Nat /\ Corner.y <= LayerY(d)
              /\ Grouped(d) # {} =>
                   /\ LayerY(d) + LayerHeight(d) <= Corner.y + Height
                   /\ \A e \in 0 .. MaximumDepth : d < e =>
                        LayerY(d) + LayerHeight(d) <= LayerY(e)
<1>1. PICK n \in Nat : n = MaximumDepth
  BY DepthsFit
<1> DEFINE h == [k \in 0 .. n |-> LayerHeight(k)]
           g == [k \in 0 .. n |-> IF Grouped(k) = {} THEN 0 ELSE LayerHeight(k) + VerticalSpacing]
           y == Corner.y
<1>2. VerticalSpacing = 172
  BY DEF VerticalSpacing
<1>3. \A d \in 0 .. n : /\ h[d] = LayerHeight(d) /\ h[d] \in Nat
                        /\ g[d] \in Nat /\ g[d] <= h[d] + 172
                        /\ Grouped(d) # {} => g[d] = h[d] + 172
  BY <1>2, LayersFit
<1>4. PICK v : v = Above(g)
  OBVIOUS
<1>5. PICK w : w = Above(h)
  OBVIOUS
<1>6. \A d : LayerY(d) = y + v[d]
  BY <1>1, <1>4 DEF LayerY
<1>7. Height = w[n + 1] + n * 172
  BY <1>1, <1>2, <1>5 DEF Height
<1> HIDE DEF h, g, y
<1>8. Stacks(v, g, n + 1) /\ Stacks(w, h, n + 1)
  BY <1>1, <1>3, <1>4, <1>5, AboveStacks
<1>9. \A d \in 0 .. n + 1 : v[d] <= w[d] + d * 172
  <2>1. \A d \in 0 .. n + 1 - 1 : g[d] \in Nat /\ h[d] \in Nat /\ g[d] <= h[d] + 172
    BY <1>3
  <2>2. n + 1 \in Nat /\ 172 \in Nat /\ 172 = VerticalSpacing
    BY <1>2
  <2> QED BY <1>8, <2>1, <2>2, StacksCompare
<1>10. \A d \in 0 .. n : d \in 0 .. n + 1 /\ d + 1 \in 0 .. n + 1 /\ d \in 0 .. n + 1 - 1
  OBVIOUS
<1>11. \A d \in 0 .. n : /\ v[d] \in Nat /\ w[d] \in Nat /\ w[d + 1] \in Nat /\ v[d + 1] \in Nat
                         /\ w[d + 1] = w[d] + h[d] /\ v[d + 1] = v[d] + g[d]
  BY <1>8, <1>10 DEF Stacks
<1>12. w[n + 1] \in Nat /\ n + 1 \in 0 .. n + 1
  BY <1>8 DEF Stacks
<1>13. Height \in Nat
  BY <1>7, <1>12
<1>14. y \in Nat
  BY DEF y
<1>15. ASSUME NEW d \in 0 .. n
       PROVE  /\ LayerY(d) \in Nat /\ y <= LayerY(d)
              /\ Grouped(d) # {} =>
                   /\ LayerY(d) + LayerHeight(d) <= y + Height
                   /\ \A e \in 0 .. n : d < e => LayerY(d) + LayerHeight(d) <= LayerY(e)
  <2>1. LayerY(d) \in Nat /\ y <= LayerY(d)
    <3>1. LayerY(d) = y + v[d] /\ v[d] \in Nat
      BY <1>6, <1>11
    <3> QED BY <3>1, <1>14
  <2>2. ASSUME Grouped(d) # {}
        PROVE  LayerY(d) + LayerHeight(d) <= y + Height
    <3>1. v[d] <= w[d] + d * 172
      BY <1>9, <1>10
    <3>2. w[d + 1] <= w[n + 1]
      <4>1. d + 1 <= n + 1
        OBVIOUS
      <4> QED BY <4>1, <1>8, <1>10, <1>12 DEF Stacks
    <3>3. w[d + 1] = w[d] + h[d] /\ h[d] = LayerHeight(d) /\ h[d] \in Nat /\ w[d] \in Nat
          /\ v[d] \in Nat
      BY <1>3, <1>11
    <3>4. d * 172 <= n * 172
      OBVIOUS
    <3>5. v[d] + h[d] <= w[n + 1] + n * 172
      BY <3>1, <3>2, <3>3, <3>4, <1>12
    <3>6. LayerY(d) = y + v[d]
      BY <1>6
    <3> QED BY <3>3, <3>5, <3>6, <1>7, <1>12, <1>14
  <2>3. ASSUME Grouped(d) # {}, NEW e \in 0 .. n, d < e
        PROVE  LayerY(d) + LayerHeight(d) <= LayerY(e)
    <3>1. v[d + 1] <= v[e]
      <4>1. d + 1 <= e
        BY <2>3
      <4> QED BY <4>1, <1>8, <1>10 DEF Stacks
    <3>2. v[d + 1] = v[d] + h[d] + 172 /\ h[d] = LayerHeight(d) /\ h[d] \in Nat /\ v[d] \in Nat
          /\ v[e] \in Nat
      BY <2>3, <1>3, <1>11
    <3>3. LayerY(d) = y + v[d] /\ LayerY(e) = y + v[e]
      BY <1>6
    <3> QED BY <3>1, <3>2, <3>3, <1>14
  <2> QED BY <2>1, <2>2, <2>3
<1> QED BY <1>1, <1>13, <1>15 DEF y

\* Different numbers have different places among them.
LEMMA Counted ==
  ASSUME NEW G \in SUBSET Nat, IsFiniteSet(G), NEW a \in G
  PROVE  /\ Cardinality({b \in G : b < a}) \in Nat
         /\ Cardinality({b \in G : b < a}) + 1 <= Cardinality(G)
         /\ Cardinality(G) \in Nat
         /\ \A c \in G : a < c =>
              Cardinality({b \in G : b < a}) + 1 <= Cardinality({b \in G : b < c})
<1> DEFINE less(c) == {b \in G : b < c}
<1>1. \A c \in G : less(c) \in SUBSET G /\ IsFiniteSet(less(c)) /\ Cardinality(less(c)) \in Nat
  <2> TAKE c \in G
  <2>1. less(c) \in SUBSET G
    OBVIOUS
  <2> HIDE DEF less
  <2> QED BY <2>1, FS_Subset, FS_CardinalityType
<1>2. a \notin less(a)
  OBVIOUS
<1>3. ASSUME NEW T, IsFiniteSet(T), less(a) \subseteq T, a \in T
      PROVE  Cardinality(less(a)) + 1 <= Cardinality(T)
  <2> HIDE DEF less
  <2>1. IsFiniteSet(less(a) \cup {a}) /\ Cardinality(less(a) \cup {a}) = Cardinality(less(a)) + 1
    BY <1>1, <1>2, FS_AddElement
  <2>2. less(a) \cup {a} \in SUBSET T
    BY <1>3
  <2> QED BY <1>3, <2>1, <2>2, FS_Subset
<1>4. Cardinality(less(a)) + 1 <= Cardinality(G) /\ Cardinality(G) \in Nat
  <2>1. less(a) \subseteq G
    OBVIOUS
  <2> HIDE DEF less
  <2> QED BY <2>1, <1>3, FS_CardinalityType
<1>5. \A c \in G : a < c => Cardinality(less(a)) + 1 <= Cardinality(less(c))
  <2> SUFFICES ASSUME NEW c \in G, a < c PROVE Cardinality(less(a)) + 1 <= Cardinality(less(c))
    OBVIOUS
  <2>1. \A b \in G : b < a => b < c
    OBVIOUS
  <2>2. less(a) \subseteq less(c) /\ a \in less(c)
    BY <2>1
  <2> HIDE DEF less
  <2> QED BY <2>2, <1>1, <1>3
<1> QED BY <1>1, <1>4, <1>5

--------------------------------------------------------------------------------
(***************************************************************************)
(* Boxes and areas.                                                        *)
(***************************************************************************)

NodeBox(p, h) == [left |-> p.x, top |-> p.y, right |-> p.x + 656, bottom |-> p.y + h]

IsBox(r) == r.left \in Int /\ r.top \in Int /\ r.right \in Int /\ r.bottom \in Int

\* r lies in A.
Covers(A, r) ==
  A.left <= r.left /\ A.top <= r.top /\ r.right <= A.right /\ r.bottom <= A.bottom

LEMMA HalfFits ==
  ASSUME NEW n \in Nat
  PROVE  n \div 2 \in Nat /\ n \div 2 <= n
OBVIOUS

\* The nodes of a component lie between its corners.
LEMMA PositionsFit ==
  ASSUME Searched, Corner.x \in Nat, Corner.y \in Nat, NEW a \in ToSet(components[place])
  PROVE  /\ Position(a).x \in Nat /\ Corner.x <= Position(a).x
         /\ Position(a).x + 656 <= Corner.x + Width
         /\ Position(a).y \in Nat /\ Corner.y <= Position(a).y
         /\ NodeHeight(a) \in Nat /\ Position(a).y + NodeHeight(a) <= Corner.y + Height
<1>1. PICK d : d = Depths[a]
  OBVIOUS
<1>2. PICK n : n = Cardinality({b \in Grouped(d) : b < a})
  OBVIOUS
<1>3. PICK m : m = Cardinality(Grouped(d))
  OBVIOUS
<1>4. /\ Position(a).x = Corner.x + (Width - LayerWidth(d)) \div 2 + n * 788
      /\ Position(a).y = LayerY(d)
  <2>1. NodeWidth + HorizontalSpacing = 788
    BY DEF NodeWidth, HorizontalSpacing
  <2> QED BY <1>1, <1>2, <2>1 DEF Position
<1>5. d \in 0 .. MaximumDepth /\ a \in Grouped(d)
  BY <1>1, DepthsFit DEF Grouped
<1>6. /\ Grouped(d) \in SUBSET Nat /\ IsFiniteSet(Grouped(d))
      /\ LayerWidth(d) \in Nat /\ LayerWidth(d) = m * 788 - 132
      /\ LayerHeight(d) \in Nat /\ NodeHeight(a) \in Nat /\ NodeHeight(a) <= LayerHeight(d)
  BY <1>3, <1>5, LayersFit
<1>7. n \in Nat /\ m \in Nat /\ n + 1 <= m
  BY <1>2, <1>3, <1>5, <1>6, Counted
<1>8. PICK h \in Nat : h = (Width - LayerWidth(d)) \div 2 /\ h <= Width - LayerWidth(d)
  <2>1. Width - LayerWidth(d) \in Nat
    BY <1>5, <1>6, WidthFits
  <2> QED BY <2>1, HalfFits
<1>9. Width \in Nat
  BY WidthFits
<1>10. /\ LayerY(d) \in Nat /\ Corner.y <= LayerY(d) /\ Height \in Nat
       /\ LayerY(d) + LayerHeight(d) <= Corner.y + Height
  BY <1>5, LayersStack
<1>11. PICK x \in Nat, w \in Nat, v \in Nat, y \in Nat, l \in Nat, H \in Nat, k \in Nat, t \in Nat :
         /\ x = Corner.x /\ w = Width /\ v = LayerWidth(d) /\ y = Corner.y /\ l = LayerY(d)
         /\ H = Height /\ k = NodeHeight(a) /\ t = LayerHeight(d)
  BY <1>6, <1>9, <1>10
<1>12. /\ x + h + n * 788 \in Nat /\ x <= x + h + n * 788
       /\ x + h + n * 788 + 656 <= x + w
  <2>1. n * 788 + 788 <= m * 788 /\ v = m * 788 - 132 /\ h <= w - v
    BY <1>6, <1>7, <1>8, <1>11
  <2> QED BY <2>1, <1>7
<1>13. l + k <= y + H
  BY <1>6, <1>10, <1>11
<1> QED BY <1>4, <1>8, <1>10, <1>11, <1>12, <1>13

LEMMA BoxesApart ==
  ASSUME Searched, Corner.x \in Nat, Corner.y \in Nat,
         NEW a \in ToSet(components[place]), NEW b \in ToSet(components[place]), a # b
  PROVE  Apart(NodeBox(Position(a), NodeHeight(a)), NodeBox(Position(b), NodeHeight(b)))
<1>1. ASSUME NEW e \in ToSet(components[place]), NEW f \in ToSet(components[place]),
             Depths[e] = Depths[f], e < f
      PROVE  Position(e).x + 656 <= Position(f).x
  <2>1. PICK d : d = Depths[e] /\ d = Depths[f]
    BY <1>1
  <2>2. PICK n, m : /\ n = Cardinality({c \in Grouped(d) : c < e})
                    /\ m = Cardinality({c \in Grouped(d) : c < f})
    OBVIOUS
  <2>3. PICK x : x = Corner.x + (Width - LayerWidth(d)) \div 2
    OBVIOUS
  <2>4. Position(e).x = x + n * 788 /\ Position(f).x = x + m * 788
    <3>1. NodeWidth + HorizontalSpacing = 788
      BY DEF NodeWidth, HorizontalSpacing
    <3> QED BY <2>1, <2>2, <2>3, <3>1 DEF Position
  <2>5. e \in Grouped(d) /\ f \in Grouped(d) /\ d \in 0 .. MaximumDepth
    BY <2>1, DepthsFit DEF Grouped
  <2>6. Grouped(d) \in SUBSET Nat /\ IsFiniteSet(Grouped(d)) /\ LayerWidth(d) \in Nat
    BY LayersFit
  <2>7. n \in Nat /\ m \in Nat /\ n + 1 <= m
    <3>1. n \in Nat /\ n + 1 <= m
      BY <1>1, <2>2, <2>5, <2>6, Counted
    <3>2. m \in Nat
      BY <2>2, <2>5, <2>6, Counted
    <3> QED BY <3>1, <3>2
  <2>8. x \in Nat
    <3>1. Width - LayerWidth(d) \in Nat
      BY <2>5, <2>6, WidthFits
    <3>2. (Width - LayerWidth(d)) \div 2 \in Nat
      BY <3>1, HalfFits
    <3> QED BY <2>3, <3>2
  <2> QED BY <2>4, <2>7, <2>8
<1>2. ASSUME NEW e \in ToSet(components[place]), NEW f \in ToSet(components[place]),
             Depths[e] < Depths[f]
      PROVE  Position(e).y + NodeHeight(e) <= Position(f).y
  <2>1. PICK d, g : d = Depths[e] /\ g = Depths[f]
    OBVIOUS
  <2>2. d \in 0 .. MaximumDepth /\ g \in 0 .. MaximumDepth /\ e \in Grouped(d)
    BY <2>1, DepthsFit DEF Grouped
  <2>3. Position(e).y = LayerY(d) /\ Position(f).y = LayerY(g)
    BY <2>1 DEF Position
  <2>4. /\ LayerY(d) \in Nat /\ LayerY(g) \in Nat /\ LayerY(d) + LayerHeight(d) <= LayerY(g)
    BY <1>2, <2>1, <2>2, LayersStack
  <2>5. /\ LayerHeight(d) \in Nat /\ NodeHeight(e) \in Nat /\ NodeHeight(e) <= LayerHeight(d)
    BY <2>2, LayersFit
  <2> QED BY <2>3, <2>4, <2>5
<1>3. /\ Depths[a] \in Nat /\ Depths[b] \in Nat /\ a \in Nat /\ b \in Nat
  BY DepthsFit
<1>4. CASE Depths[a] = Depths[b] /\ a < b
  <2>1. Position(a).x + 656 <= Position(b).x
    BY <1>1, <1>4
  <2> QED BY <2>1 DEF Apart, NodeBox
<1>5. CASE Depths[a] = Depths[b] /\ b < a
  <2>1. Position(b).x + 656 <= Position(a).x
    BY <1>1, <1>5
  <2> QED BY <2>1 DEF Apart, NodeBox
<1>6. CASE Depths[a] < Depths[b]
  <2>1. Position(a).y + NodeHeight(a) <= Position(b).y
    BY <1>2, <1>6
  <2> QED BY <2>1 DEF Apart, NodeBox
<1>7. CASE Depths[b] < Depths[a]
  <2>1. Position(b).y + NodeHeight(b) <= Position(a).y
    BY <1>2, <1>7
  <2> QED BY <2>1 DEF Apart, NodeBox
<1>8. \/ Depths[a] = Depths[b] /\ a < b
      \/ Depths[a] = Depths[b] /\ b < a
      \/ Depths[a] < Depths[b]
      \/ Depths[b] < Depths[a]
  BY <1>3
<1> QED BY <1>4, <1>5, <1>6, <1>7, <1>8

\* The area around boxes covers them, and exceeds what they do by the margin.
Frames(A, nb, S, x, y, u, v) ==
  /\ IsBox(A)
  /\ \A a \in S : Covers(A, nb[a])
  /\ x - 88 <= A.left /\ y - 88 <= A.top /\ A.right <= u + 88 /\ A.bottom <= v + 88

LEMMA AroundFrames ==
  ASSUME NEW S, IsFiniteSet(S), S # {}, NEW nb, \A a \in S : IsBox(nb[a]),
         NEW x \in Int, NEW y \in Int, NEW u \in Int, NEW v \in Int,
         \A a \in S : x <= nb[a].left /\ y <= nb[a].top /\ nb[a].right <= u /\ nb[a].bottom <= v
  PROVE  Frames(Around({nb[a] : a \in S}), nb, S, x, y, u, v)
<1> DEFINE boxes == {nb[a] : a \in S}
           f == [a \in S |-> nb[a].left]
           g == [a \in S |-> nb[a].top]
           h == [a \in S |-> nb[a].right]
           k == [a \in S |-> nb[a].bottom]
<1>1. /\ {b.left : b \in boxes} = {f[a] : a \in S}
      /\ {b.top : b \in boxes} = {g[a] : a \in S}
      /\ {b.right : b \in boxes} = {h[a] : a \in S}
      /\ {b.bottom : b \in boxes} = {k[a] : a \in S}
  OBVIOUS
<1>2. PICK l, t, r, m : /\ l = Min({f[a] : a \in S}) /\ t = Min({g[a] : a \in S})
                        /\ r = Max({h[a] : a \in S}) /\ m = Max({k[a] : a \in S})
  OBVIOUS
<1>3. PICK A : A = Around(boxes)
  OBVIOUS
<1>4. A = [left |-> l - 88, top |-> t - 88, right |-> r + 88, bottom |-> m + 88]
  <2>1. Margin = 88
    BY DEF Margin
  <2> HIDE DEF f, g, h, k, boxes
  <2> QED BY <1>1, <1>2, <1>3, <2>1 DEF Around
<1>5. \A a \in S : /\ f[a] = nb[a].left /\ g[a] = nb[a].top
                   /\ h[a] = nb[a].right /\ k[a] = nb[a].bottom
                   /\ f[a] \in Int /\ g[a] \in Int /\ h[a] \in Int /\ k[a] \in Int
  BY DEF IsBox
<1> HIDE DEF f, g, h, k
<1>6. Smallest(l, f, S)
  BY <1>2, <1>5, MinOfValues
<1>7. Smallest(t, g, S)
  BY <1>2, <1>5, MinOfValues
<1>8. Largest(r, h, S)
  BY <1>2, <1>5, MaxOfValues
<1>9. Largest(m, k, S)
  BY <1>2, <1>5, MaxOfValues
<1>10. /\ l \in Int /\ x <= l /\ \A a \in S : l <= nb[a].left
       /\ t \in Int /\ y <= t /\ \A a \in S : t <= nb[a].top
  BY <1>5, <1>6, <1>7 DEF Smallest
<1>11. /\ r \in Int /\ r <= u /\ \A a \in S : nb[a].right <= r
       /\ m \in Int /\ m <= v /\ \A a \in S : nb[a].bottom <= m
  BY <1>5, <1>8, <1>9 DEF Largest
<1>12. A.left = l - 88 /\ A.top = t - 88 /\ A.right = r + 88 /\ A.bottom = m + 88
  BY <1>4
<1>13. \A a \in S : Covers(A, nb[a])
  BY <1>10, <1>11, <1>12 DEF Covers, IsBox
<1>14. IsBox(A)
  BY <1>10, <1>11, <1>12 DEF IsBox
<1>15. Frames(A, nb, S, x, y, u, v)
  BY <1>10, <1>11, <1>12, <1>13, <1>14 DEF Frames
<1> QED BY <1>3, <1>15

LEMMA CoveredApart ==
  ASSUME NEW A, NEW B, NEW r, NEW s, IsBox(A), IsBox(B), IsBox(r), IsBox(s),
         Covers(A, r), Covers(B, s), Apart(A, B)
  PROVE  Apart(r, s)
BY DEF IsBox, Covers, Apart

\* An area in an earlier row, or in this row before the corner.
Behind(r, k) ==
  \/ r.bottom <= k.y - 212
  \/ r.right <= k.x - 212 /\ r.bottom <= k.y + k.rowHeight + 88

IsCorner(k) == k.x \in Nat /\ k.y \in Nat /\ k.rowHeight \in Nat

\* The component i of cs has its nodes in its area of the layout.
Settled(cs, i, l, H) ==
  /\ IsBox(l.components[i].sceneBounds)
  /\ \A a \in ToSet(cs[i]) :
       /\ a \in DOMAIN l.positions
       /\ IsBox(NodeBox(l.positions[a], H[a]))
       /\ Covers(l.components[i].sceneBounds, NodeBox(l.positions[a], H[a]))
  /\ \A a, b \in ToSet(cs[i]) :
       a # b => Apart(NodeBox(l.positions[a], H[a]), NodeBox(l.positions[b], H[b]))

\* The first n components have been placed, and the next goes to the corner k.
Placed(cs, n, l, H, k) ==
  /\ IsCorner(k)
  /\ \A a \in DOMAIN l.positions : \E i \in 1 .. n : a \in ToSet(cs[i])
  /\ \A i \in 1 .. n : Settled(cs, i, l, H) /\ Behind(l.components[i].sceneBounds, k)
  /\ \A i, j \in 1 .. n : i # j =>
       Apart(l.components[i].sceneBounds, l.components[j].sceneBounds)

\* Where the next component goes, if k is the corner: into the row or below it.
Follows(c, k) ==
  \/ c.x = k.x /\ c.y = k.y /\ c.rowHeight = k.rowHeight
  \/ c.x = 0 /\ c.y = k.y + k.rowHeight + 300 /\ c.rowHeight = 0

LEMMA CornerFollows ==
  ASSUME IsCorner(corner)
  PROVE  Follows(Corner, corner) /\ IsCorner(Corner)
<1>1. ComponentSpacing = 300
  BY DEF ComponentSpacing
<1>2. CASE corner.x > 0 /\ corner.x + Width > MaximumRowWidth
  <2>1. Corner = [x |-> 0, y |-> corner.y + corner.rowHeight + 300, rowHeight |-> 0]
    BY <1>1, <1>2 DEF Corner
  <2> QED BY <2>1 DEF Follows, IsCorner
<1>3. CASE ~ (corner.x > 0 /\ corner.x + Width > MaximumRowWidth)
  <2>1. Corner = corner
    BY <1>3 DEF Corner
  <2> QED BY <2>1 DEF Follows, IsCorner
<1> QED BY <1>2, <1>3

\* What is behind a corner is behind the next, and apart from an area between them.
LEMMA BehindStays ==
  ASSUME NEW k, IsCorner(k), NEW c, IsCorner(c), Follows(c, k),
         NEW w \in Nat, NEW h \in Nat, NEW d, IsCorner(d),
         d.x = c.x + w + 300, d.y = c.y, c.rowHeight <= d.rowHeight, h <= d.rowHeight,
         NEW A, IsBox(A), c.x - 88 <= A.left, c.y - 88 <= A.top,
         A.right <= c.x + w + 88, A.bottom <= c.y + h + 88
  PROVE  /\ Behind(A, d)
         /\ \A r : IsBox(r) /\ Behind(r, k) => Behind(r, d) /\ Apart(r, A) /\ Apart(A, r)
<1>1. PICK x \in Nat, y \in Nat, e \in Nat : x = k.x /\ y = k.y /\ e = k.rowHeight
  BY DEF IsCorner
<1>2. PICK u \in Nat, v \in Nat, f \in Nat : u = c.x /\ v = c.y /\ f = c.rowHeight
  BY DEF IsCorner
<1>3. PICK g \in Nat : g = d.rowHeight /\ f <= g /\ h <= g /\ d.x = u + w + 300 /\ d.y = v
  BY <1>2 DEF IsCorner
<1>4. /\ A.left \in Int /\ A.top \in Int /\ A.right \in Int /\ A.bottom \in Int
      /\ u - 88 <= A.left /\ v - 88 <= A.top
      /\ A.right <= u + w + 88 /\ A.bottom <= v + h + 88
  BY <1>2 DEF IsBox
<1>5. Behind(A, d)
  <2>1. A.right <= d.x - 212 /\ A.bottom <= d.y + d.rowHeight + 88
    BY <1>3, <1>4
  <2> QED BY <2>1 DEF Behind
<1>6. ASSUME NEW r, IsBox(r), Behind(r, k)
      PROVE  Behind(r, d) /\ Apart(r, A) /\ Apart(A, r)
  <2>1. PICK p \in Int, q \in Int : p = r.right /\ q = r.bottom
    BY <1>6 DEF IsBox
  <2>2. \/ q <= y - 212
        \/ p <= x - 212 /\ q <= y + e + 88
    BY <1>1, <1>6, <2>1 DEF Behind
  <2>3. CASE u = x /\ v = y /\ f = e
    <3>1. \/ q <= v - 212
          \/ p <= u + w + 300 - 212 /\ q <= v + g + 88
      BY <2>2, <2>3, <1>3
    <3>2. q <= A.top \/ p <= A.left
      BY <2>2, <2>3, <1>4
    <3> QED BY <3>1, <3>2, <2>1, <1>3 DEF Behind, Apart
  <2>4. CASE u = 0 /\ v = y + e + 300 /\ f = 0
    <3>1. q <= v - 212
      BY <2>2, <2>4
    <3>2. q <= A.top
      BY <3>1, <1>4
    <3> QED BY <3>1, <3>2, <2>1, <1>3 DEF Behind, Apart
  <2> QED BY <2>3, <2>4, <1>1, <1>2 DEF Follows
<1> QED BY <1>5, <1>6

\* One more component is placed.
LEMMA PlacedOneMore ==
  ASSUME NEW cs, NEW n \in Nat, NEW l, NEW H, NEW k, Placed(cs, n, l, H, k),
         \A i \in 1 .. n : ToSet(cs[i]) \cap ToSet(cs[n + 1]) = {},
         NEW T, l.components \in Seq(T), Len(l.components) = n,
         NEW y, NEW m, m.components = Append(l.components, y),
         DOMAIN m.positions = ToSet(cs[n + 1]) \cup DOMAIN l.positions,
         \A a \in DOMAIN l.positions :
           a \notin ToSet(cs[n + 1]) => m.positions[a] = l.positions[a],
         Settled(cs, n + 1, m, H),
         NEW d, IsCorner(d), Behind(y.sceneBounds, d),
         \A r : IsBox(r) /\ Behind(r, k) =>
           Behind(r, d) /\ Apart(r, y.sceneBounds) /\ Apart(y.sceneBounds, r)
  PROVE  Placed(cs, n + 1, m, H, d)
<1>1. PICK s : s = l.components /\ s \in Seq(T \cup {y}) /\ Len(s) = n
  OBVIOUS
<1>2. PICK t : t = m.components
  OBVIOUS
<1>3. Len(t) = n + 1 /\ t[n + 1] = y /\ \A i \in 1 .. n : t[i] = s[i]
  BY <1>1, <1>2
<1>4. \A i \in 1 .. n + 1 : i = n + 1 \/ i \in 1 .. n
  OBVIOUS
<1>5. \A i \in 1 .. n : Settled(cs, i, l, H) /\ Behind(s[i].sceneBounds, k)
  BY <1>1 DEF Placed
<1>6. \A i \in 1 .. n : IsBox(s[i].sceneBounds)
  BY <1>1, <1>5 DEF Settled
<1>7. \A i \in 1 .. n : Settled(cs, i, m, H)
  <2> TAKE i \in 1 .. n
  <2>1. \A a \in ToSet(cs[i]) : a \in DOMAIN l.positions /\ a \in DOMAIN m.positions
                                /\ m.positions[a] = l.positions[a]
    <3> TAKE a \in ToSet(cs[i])
    <3>1. a \in DOMAIN l.positions
      BY <1>5 DEF Settled
    <3>2. a \notin ToSet(cs[n + 1])
      OBVIOUS
    <3> QED BY <3>1, <3>2
  <2>2. m.components[i].sceneBounds = l.components[i].sceneBounds
    BY <1>1, <1>2, <1>3
  <2>3. Settled(cs, i, l, H)
    BY <1>5
  <2> QED BY <2>1, <2>2, <2>3 DEF Settled
<1>8. \A i \in 1 .. n + 1 : Settled(cs, i, m, H) /\ Behind(m.components[i].sceneBounds, d)
  <2> TAKE i \in 1 .. n + 1
  <2>1. CASE i = n + 1
    BY <2>1, <1>2, <1>3
  <2>2. CASE i \in 1 .. n
    <3>1. Behind(s[i].sceneBounds, d)
      BY <2>2, <1>5, <1>6
    <3> QED BY <2>2, <3>1, <1>2, <1>3, <1>7
  <2> QED BY <2>1, <2>2, <1>4
<1>9. \A i, j \in 1 .. n + 1 : i # j =>
        Apart(m.components[i].sceneBounds, m.components[j].sceneBounds)
  <2> SUFFICES ASSUME NEW i \in 1 .. n + 1, NEW j \in 1 .. n + 1, i # j
               PROVE  Apart(t[i].sceneBounds, t[j].sceneBounds)
    BY <1>2
  <2>1. CASE i \in 1 .. n /\ j \in 1 .. n
    <3>1. Apart(s[i].sceneBounds, s[j].sceneBounds)
      BY <2>1, <1>1 DEF Placed
    <3> QED BY <3>1, <2>1, <1>3
  <2>2. CASE i \in 1 .. n /\ j = n + 1
    <3>1. Apart(s[i].sceneBounds, y.sceneBounds)
      BY <2>2, <1>5, <1>6
    <3> QED BY <3>1, <2>2, <1>3
  <2>3. CASE i = n + 1 /\ j \in 1 .. n
    <3>1. Apart(y.sceneBounds, s[j].sceneBounds)
      BY <2>3, <1>5, <1>6
    <3> QED BY <3>1, <2>3, <1>3
  <2> QED BY <2>1, <2>2, <2>3, <1>4
<1>10. \A a \in DOMAIN m.positions : \E i \in 1 .. n + 1 : a \in ToSet(cs[i])
  <2> TAKE a \in DOMAIN m.positions
  <2>1. CASE a \in ToSet(cs[n + 1])
    <3>1. n + 1 \in 1 .. n + 1
      OBVIOUS
    <3> QED BY <2>1, <3>1
  <2>2. CASE a \in DOMAIN l.positions
    <3>1. PICK i \in 1 .. n : a \in ToSet(cs[i])
      BY <2>2 DEF Placed
    <3>2. i \in 1 .. n + 1
      OBVIOUS
    <3> QED BY <3>1, <3>2
  <2> QED BY <2>1, <2>2
<1> QED BY <1>8, <1>9, <1>10 DEF Placed

AllHeights == [a \in Addresses |-> NodeHeight(a)]

LEMMA HeightsKept == UNCHANGED vars => AllHeights' = AllHeights
BY DEF vars, AllHeights, NodeHeight, IsExternal, Addresses

PlacedInv ==
  /\ stage \in {"layers", "distances"} =>
       Placed(components, place - 1, layout, AllHeights, corner)
  /\ stage = "done" => Placed(components, Len(components), layout, AllHeights, corner)

LEMMA NothingPlaced == \A cs, H : Placed(cs, 0, NoLayout, H, FirstCorner)
<1>1. DOMAIN NoLayout.positions = {}
  BY EmptyFunction DEF NoLayout
<1>2. IsCorner(FirstCorner)
  BY DEF FirstCorner, IsCorner
<1> QED BY <1>1, <1>2 DEF Placed

LEMMA NextPlaced ==
  ASSUME UNCHANGED <<vars, components>>, Len(components) \in Nat,
         NEW i \in 1 .. Len(components) + 1, StartLayers(i),
         Placed(components, i - 1, layout', AllHeights, corner')
  PROVE  PlacedInv'
<1>1. AllHeights' = AllHeights /\ components' = components
  BY HeightsKept
<1>2. CASE i > Len(components)
  <2>1. stage' = "done" /\ i - 1 = Len(components)
    BY <1>2 DEF StartLayers
  <2> QED BY <1>1, <2>1 DEF PlacedInv
<1>3. CASE ~ (i > Len(components))
  <2>1. stage' = "layers" /\ place' = i
    BY <1>3 DEF StartLayers
  <2> QED BY <1>1, <2>1 DEF PlacedInv
<1> QED BY <1>2, <1>3

LEMMA RowHeightFits ==
  ASSUME NEW r \in Nat, Height \in Nat
  PROVE  RowHeight(r) \in Nat /\ r <= RowHeight(r) /\ Height <= RowHeight(r)
<1>1. PICK h \in Nat : h = Height
  OBVIOUS
<1>2. PICK T : T = {r, h}
  OBVIOUS
<1>3. IsFiniteSet(T) /\ T \in SUBSET Nat /\ T # {}
  <2>1. IsFiniteSet({r}) /\ IsFiniteSet({h}) /\ T = {r} \cup {h}
    BY <1>2, FS_Singleton
  <2>2. IsFiniteSet(T)
    BY <2>1, FS_Union
  <2> QED BY <2>2, <1>2
<1>4. Max(T) \in T /\ \A y \in T : y <= Max(T)
  BY <1>3, MaxIs
<1>5. RowHeight(r) = Max(T)
  BY <1>1, <1>2 DEF RowHeight
<1> QED BY <1>1, <1>2, <1>4, <1>5

LEMMA ComponentPlaced ==
  ASSUME GraphInv, LayoutInv, PlacedInv, PlaceComponent
  PROVE  PlacedInv'
<1>1. /\ stage = "distances" /\ pending = <<>> /\ StartLayers(place + 1)
      /\ UNCHANGED <<vars, components>>
  BY DEF PlaceComponent
<1>2. Searched
  BY <1>1 DEF Searched
<1>3. /\ Complete(components, Reach, MainNodes)
      /\ place \in 1 .. Len(components) /\ Listed(components, place - 1, layout)
      /\ Placed(components, place - 1, layout, AllHeights, corner)
  BY <1>1 DEF LayoutInv, PlacedInv
<1>4. Pieces(components, Reach)
  BY <1>3 DEF Complete
<1>5. Len(components) \in Nat
  <2>1. components \in Seq(Seq(Nat))
    BY <1>4 DEF Pieces
  <2> QED BY <2>1
<1>6. PICK n \in Nat : n = place - 1 /\ n + 1 = place /\ place + 1 - 1 = n + 1
                       /\ place + 1 \in 1 .. Len(components) + 1
                       /\ \A i \in 1 .. n : i \in 1 .. Len(components) /\ i # place
  BY <1>3, <1>5
<1> DEFINE S == ToSet(components[place])
           placed == [a \in S \cup DOMAIN layout.positions |->
                        IF a \in S THEN Position(a) ELSE layout.positions[a]]
           y == [nodeAddresses  |-> components[place],
                 representative |-> Root(place),
                 secondary      |-> IF Len(components[place]) > 1
                                      THEN Last(components[place]) ELSE Root(place),
                 sceneBounds    |-> Around({Box(placed[a], a) : a \in S})]
           nb == [a \in S |-> NodeBox(Position(a), NodeHeight(a))]
<1>7. layout' = [positions |-> placed, components |-> Append(layout.components, y)]
  BY Zenon DEF PlaceComponent
<1>8. corner' = [x |-> Corner.x + Width + 300, y |-> Corner.y,
                 rowHeight |-> RowHeight(Corner.rowHeight)]
  BY DEF PlaceComponent, ComponentSpacing
<1>9. IsCorner(corner) /\ IsCorner(Corner) /\ Follows(Corner, corner)
  BY <1>3, CornerFollows DEF Placed
<1>10. Corner.x \in Nat /\ Corner.y \in Nat /\ Corner.rowHeight \in Nat
  BY <1>9 DEF IsCorner
<1>11. Width \in Nat /\ Height \in Nat
  BY <1>2, <1>10, WidthFits, LayersStack
<1>12. /\ S \subseteq Addresses /\ IsFiniteSet(S) /\ S # {}
  BY <1>2, DepthsFit
<1>13. \A a \in S : placed[a] = Position(a)
  OBVIOUS
<1>14. DOMAIN placed = S \cup DOMAIN layout.positions
       /\ \A a \in DOMAIN layout.positions : a \notin S => placed[a] = layout.positions[a]
  OBVIOUS
<1>15. \A a \in S : nb[a] = NodeBox(Position(a), NodeHeight(a))
  OBVIOUS
<1>16. {Box(placed[a], a) : a \in S} = {nb[a] : a \in S}
  <2>1. NodeWidth = 656
    BY DEF NodeWidth
  <2>2. \A a \in S : Box(placed[a], a) = nb[a]
    BY <1>13, <1>15, <2>1 DEF Box, NodeBox
  <2> HIDE DEF placed, nb
  <2> QED BY <2>2
<1>17. PICK A : A = Around({nb[a] : a \in S})
  OBVIOUS
<1>18. y.sceneBounds = A
  BY <1>16, <1>17
<1> HIDE DEF placed, y, nb, S
<1>19. ASSUME NEW a \in S
       PROVE  /\ IsBox(nb[a])
              /\ Corner.x <= nb[a].left /\ Corner.y <= nb[a].top
              /\ nb[a].right <= Corner.x + Width /\ nb[a].bottom <= Corner.y + Height
  <2>1. /\ Position(a).x \in Nat /\ Corner.x <= Position(a).x
        /\ Position(a).x + 656 <= Corner.x + Width
        /\ Position(a).y \in Nat /\ Corner.y <= Position(a).y
        /\ NodeHeight(a) \in Nat /\ Position(a).y + NodeHeight(a) <= Corner.y + Height
    BY <1>2, <1>10, PositionsFit DEF S
  <2>2. /\ nb[a].left = Position(a).x /\ nb[a].top = Position(a).y
        /\ nb[a].right = Position(a).x + 656 /\ nb[a].bottom = Position(a).y + NodeHeight(a)
    <3>1. PICK p, h, r : p = Position(a) /\ h = NodeHeight(a) /\ r = nb[a]
      OBVIOUS
    <3>2. r = NodeBox(p, h)
      BY <1>15, <3>1
    <3>3. r.left = p.x /\ r.top = p.y /\ r.right = p.x + 656 /\ r.bottom = p.y + h
      BY <3>2 DEF NodeBox
    <3> QED BY <3>1, <3>3
  <2> QED BY <2>1, <2>2 DEF IsBox
<1>20. Frames(A, nb, S, Corner.x, Corner.y, Corner.x + Width, Corner.y + Height)
  <2>1. PICK u, v, w, z : /\ u = Corner.x /\ v = Corner.y
                          /\ w = Corner.x + Width /\ z = Corner.y + Height
    OBVIOUS
  <2>2. u \in Int /\ v \in Int /\ w \in Int /\ z \in Int
    BY <2>1, <1>10, <1>11
  <2>3. \A a \in S : IsBox(nb[a]) /\ u <= nb[a].left /\ v <= nb[a].top
                     /\ nb[a].right <= w /\ nb[a].bottom <= z
    BY <1>19, <2>1
  <2>4. Frames(Around({nb[a] : a \in S}), nb, S, u, v, w, z)
    BY <1>12, <2>2, <2>3, AroundFrames
  <2> QED BY <2>1, <2>4, <1>17
<1>21. /\ IsCorner(corner') /\ corner'.x = Corner.x + Width + 300 /\ corner'.y = Corner.y
       /\ Corner.rowHeight <= corner'.rowHeight /\ Height <= corner'.rowHeight
  <2>1. PICK r : r = RowHeight(Corner.rowHeight)
    OBVIOUS
  <2>2. r \in Nat /\ Corner.rowHeight <= r /\ Height <= r
    BY <2>1, <1>10, <1>11, RowHeightFits
  <2>3. corner'.x = Corner.x + Width + 300 /\ corner'.y = Corner.y /\ corner'.rowHeight = r
    BY <1>8, <2>1
  <2> QED BY <2>2, <2>3, <1>10, <1>11 DEF IsCorner
<1>22. /\ Behind(A, corner')
       /\ \A r : IsBox(r) /\ Behind(r, corner) =>
            Behind(r, corner') /\ Apart(r, A) /\ Apart(A, r)
  <2>1. /\ IsBox(A) /\ Corner.x - 88 <= A.left /\ Corner.y - 88 <= A.top
        /\ A.right <= Corner.x + Width + 88 /\ A.bottom <= Corner.y + Height + 88
    BY <1>20 DEF Frames
  <2>2. PICK c, d, k, w, h : /\ c = Corner /\ d = corner' /\ k = corner /\ w = Width /\ h = Height
    OBVIOUS
  <2>3. /\ Behind(A, d)
        /\ \A r : IsBox(r) /\ Behind(r, k) => Behind(r, d) /\ Apart(r, A) /\ Apart(A, r)
    BY <1>9, <1>11, <1>21, <2>1, <2>2, BehindStays
  <2> QED BY <2>2, <2>3
<1>23. PICK m : m = layout'
  OBVIOUS
<1>24. m.positions = placed /\ m.components = Append(layout.components, y)
  BY <1>7, <1>23
<1>25. PICK T : layout.components \in Seq(T) /\ Len(layout.components) = n
  BY <1>3, <1>6 DEF Listed
<1>26. Settled(components, n + 1, m, AllHeights)
  <2>1. m.components[n + 1] = y
    <3>1. PICK s : s = layout.components /\ s \in Seq(T \cup {y}) /\ Len(s) = n
      BY <1>25
    <3>2. Append(s, y)[n + 1] = y
      BY <3>1
    <3> QED BY <3>1, <3>2, <1>24
  <2>2. ToSet(components[n + 1]) = S
    BY <1>6 DEF S
  <2>3. \A a \in S : a \in DOMAIN m.positions
                     /\ NodeBox(m.positions[a], AllHeights[a]) = nb[a]
    <3> TAKE a \in S
    <3>1. AllHeights[a] = NodeHeight(a)
      BY <1>12 DEF AllHeights
    <3>2. a \in DOMAIN placed /\ placed[a] = Position(a)
      BY <1>13, <1>14
    <3> QED BY <3>1, <3>2, <1>15, <1>24
  <2>4. IsBox(A) /\ \A a \in S : Covers(A, nb[a])
    BY <1>20 DEF Frames
  <2>5. \A a, b \in S : a # b => Apart(nb[a], nb[b])
    <3> SUFFICES ASSUME NEW a \in S, NEW b \in S, a # b PROVE Apart(nb[a], nb[b])
      OBVIOUS
    <3>1. Apart(NodeBox(Position(a), NodeHeight(a)), NodeBox(Position(b), NodeHeight(b)))
      BY <1>2, <1>10, BoxesApart DEF S
    <3> QED BY <3>1, <1>15
  <2>6. \A a \in S : IsBox(nb[a])
    BY <1>19
  <2> QED BY <2>1, <2>2, <2>3, <2>4, <2>5, <2>6, <1>18 DEF Settled
<1>27. \A i \in 1 .. n : ToSet(components[i]) \cap ToSet(components[n + 1]) = {}
  BY <1>3, <1>4, <1>6 DEF Pieces
<1>28. PICK H, k, d, l, cs : /\ H = AllHeights /\ k = corner /\ d = corner'
                             /\ l = layout /\ cs = components
  OBVIOUS
<1>29. Placed(cs, n + 1, m, H, d)
  <2>1. Placed(cs, n, l, H, k) /\ l.components \in Seq(T) /\ Len(l.components) = n
    BY <1>3, <1>6, <1>25, <1>28
  <2>2. \A i \in 1 .. n : ToSet(cs[i]) \cap ToSet(cs[n + 1]) = {}
    BY <1>27, <1>28
  <2>3. m.components = Append(l.components, y)
        /\ DOMAIN m.positions = ToSet(cs[n + 1]) \cup DOMAIN l.positions
        /\ \A a \in DOMAIN l.positions :
             a \notin ToSet(cs[n + 1]) => m.positions[a] = l.positions[a]
    <3>1. ToSet(cs[n + 1]) = S
      BY <1>6, <1>28 DEF S
    <3> QED BY <3>1, <1>14, <1>24, <1>28
  <2>4. Settled(cs, n + 1, m, H)
    BY <1>26, <1>28
  <2>5. IsCorner(d) /\ Behind(y.sceneBounds, d)
        /\ \A r : IsBox(r) /\ Behind(r, k) =>
             Behind(r, d) /\ Apart(r, y.sceneBounds) /\ Apart(y.sceneBounds, r)
    BY <1>18, <1>21, <1>22, <1>28
  <2> QED BY ONLY n \in Nat, <2>1, <2>2, <2>3, <2>4, <2>5, PlacedOneMore
<1>30. Placed(components, place + 1 - 1, layout', AllHeights, corner')
  BY <1>6, <1>23, <1>28, <1>29
<1> QED BY <1>1, <1>5, <1>6, <1>30, NextPlaced

LEMMA PlacedHolds ==
  ASSUME IInv, LayoutInv, PlacedInv, [GraphStep \/ LayoutStep]_<<vars, layoutVars>>
  PROVE  PlacedInv'
<1>1. CASE GraphStep
  <2>1. stage' = "idle"
    BY <1>1 DEF GraphStep
  <2> QED BY <2>1 DEF PlacedInv
<1>2. CASE BeginLayout
  <2>1. CASE nodes = <<>>
    <3>1. stage' = "done" /\ components' = <<>> /\ layout' = NoLayout /\ corner' = FirstCorner
      BY <1>2, <2>1 DEF BeginLayout
    <3>2. Placed(components', Len(components'), layout', AllHeights', corner')
      BY <3>1, NothingPlaced
    <3> QED BY <3>1, <3>2 DEF PlacedInv
  <2>2. CASE nodes # <<>>
    <3>1. stage' = "components"
      BY <1>2, <2>2 DEF BeginLayout
    <3> QED BY <3>1 DEF PlacedInv
  <2> QED BY <2>1, <2>2
<1>3. CASE StartComponent \/ VisitNode \/ FinishComponent
  <2>1. stage' = "components"
    BY <1>3 DEF StartComponent, VisitNode, FinishComponent
  <2> QED BY <2>1 DEF PlacedInv
<1>4. CASE SortComponents
  <2>1. stage' = "sorted"
    BY <1>4, Zenon DEF SortComponents
  <2> QED BY <2>1 DEF PlacedInv
<1>5. CASE StartPlacing
  <2>1. /\ stage = "sorted" /\ StartLayers(1) /\ UNCHANGED <<vars, components>>
        /\ layout' = layout /\ corner' = corner
    BY <1>5 DEF StartPlacing
  <2>2. Complete(components, Reach, MainNodes) /\ layout = NoLayout /\ corner = FirstCorner
    BY <2>1 DEF LayoutInv
  <2>3. Len(components) \in Nat
    <3>1. Pieces(components, Reach)
      BY <2>2 DEF Complete
    <3>2. components \in Seq(Seq(Nat))
      BY <3>1 DEF Pieces
    <3> QED BY <3>2
  <2>4. 1 \in 1 .. Len(components) + 1 /\ 1 - 1 = 0
    BY <2>3
  <2>5. Placed(components, 1 - 1, layout', AllHeights, corner')
    BY <2>1, <2>2, <2>4, NothingPlaced
  <2> QED BY <2>1, <2>3, <2>4, <2>5, NextPlaced
<1>6. CASE ReachCallees \/ StartDistances \/ ReachNeighbours
  <2>1. /\ stage \in {"layers", "distances"} /\ stage' \in {"layers", "distances"}
        /\ UNCHANGED <<vars, components, place, layout, corner>>
    BY <1>6 DEF ReachCallees, StartDistances, ReachNeighbours
  <2>2. AllHeights' = AllHeights
    BY <2>1, HeightsKept
  <2> QED BY <2>1, <2>2 DEF PlacedInv
<1>7. CASE PlaceComponent
  <2>1. phase = "idle"
    BY <1>7 DEF PlaceComponent, LayoutInv
  <2>2. GraphInv
    BY <2>1, GraphHolds
  <2> QED BY <1>7, <2>2, ComponentPlaced
<1>8. CASE UNCHANGED <<vars, layoutVars>>
  <2>1. UNCHANGED <<vars, stage, components, place, layout, corner>>
    BY <1>8 DEF layoutVars, placing
  <2>2. AllHeights' = AllHeights
    BY <2>1, HeightsKept
  <2> QED BY <2>1, <2>2 DEF PlacedInv
<1> QED BY <1>1, <1>2, <1>3, <1>4, <1>5, <1>6, <1>7, <1>8 DEF LayoutStep

(***************************************************************************)
(* Every node has a place; the boxes of two nodes, and the areas of two    *)
(* components, have no point in common.                                    *)
(***************************************************************************)
THEOREM PlacesApart == LayoutSpec => []NothingOverlaps
<1>1. LayoutInit => PlacedInv
  BY DEF LayoutInit, PlacedInv
<1>2. IInv /\ LayoutInv /\ PlacedInv => NothingOverlaps
  <2> SUFFICES ASSUME IInv, LayoutInv, PlacedInv, stage = "done"
               PROVE  /\ DOMAIN layout.positions = Addresses
                      /\ \A a, b \in Addresses : a # b => Apart(Boxes[a], Boxes[b])
                      /\ \A i, j \in 1 .. Len(layout.components) :
                           i # j => Apart(layout.components[i].sceneBounds,
                                          layout.components[j].sceneBounds)
    BY DEF NothingOverlaps
  <2>1. GraphInv
    BY GraphHolds DEF LayoutInv
  <2>2. /\ Complete(components, Reach, MainNodes)
        /\ Listed(components, Len(components), layout)
        /\ Placed(components, Len(components), layout, AllHeights, corner)
    BY DEF LayoutInv, PlacedInv
  <2>3. PICK n \in Nat : n = Len(components)
    BY <2>2 DEF Listed
  <2>4. Len(layout.components) = n
    BY <2>2, <2>3 DEF Listed
  <2>5. Pieces(components, Reach) /\ DOMAIN Reach = Addresses
        /\ \A a \in Addresses : \E i \in 1 .. n : a \in ToSet(components[i])
    BY <2>1, <2>2, <2>3, ReachConnects DEF Complete
  <2>6. \A i \in 1 .. n : ToSet(components[i]) \subseteq Addresses
    BY <2>3, <2>5 DEF Pieces, Piece
  <2>7. \A i \in 1 .. n : Settled(components, i, layout, AllHeights)
    BY <2>2, <2>3 DEF Placed
  <2>8. DOMAIN layout.positions = Addresses
    <3>1. \A a \in DOMAIN layout.positions : a \in Addresses
      BY <2>2, <2>3, <2>6 DEF Placed
    <3>2. \A a \in Addresses : a \in DOMAIN layout.positions
      BY <2>5, <2>7 DEF Settled
    <3> QED BY <3>1, <3>2
  <2>9. \A i, j \in 1 .. n : i # j => Apart(layout.components[i].sceneBounds,
                                            layout.components[j].sceneBounds)
    BY <2>2, <2>3 DEF Placed
  <2>10. \A a \in Addresses : Boxes[a] = NodeBox(layout.positions[a], AllHeights[a])
    <3>1. NodeWidth = 656
      BY DEF NodeWidth
    <3> QED BY <2>8, <3>1 DEF Boxes, Box, NodeBox, AllHeights
  <2>11. ASSUME NEW a \in Addresses, NEW b \in Addresses, a # b
         PROVE  Apart(Boxes[a], Boxes[b])
    <3>1. PICK i \in 1 .. n : a \in ToSet(components[i])
      BY <2>5
    <3>2. PICK j \in 1 .. n : b \in ToSet(components[j])
      BY <2>5
    <3>3. PICK r, s : r = Boxes[a] /\ s = Boxes[b]
      OBVIOUS
    <3>4. /\ IsBox(layout.components[i].sceneBounds) /\ IsBox(r)
          /\ Covers(layout.components[i].sceneBounds, r)
      BY <2>7, <2>10, <3>1, <3>3 DEF Settled
    <3>5. /\ IsBox(layout.components[j].sceneBounds) /\ IsBox(s)
          /\ Covers(layout.components[j].sceneBounds, s)
      BY <2>7, <2>10, <3>2, <3>3 DEF Settled
    <3>6. CASE i = j
      <4>1. Settled(components, i, layout, AllHeights)
        BY <2>7
      <4>2. Apart(NodeBox(layout.positions[a], AllHeights[a]),
                  NodeBox(layout.positions[b], AllHeights[b]))
        BY <4>1, <2>11, <3>1, <3>2, <3>6 DEF Settled
      <4> QED BY <4>2, <2>10
    <3>7. CASE i # j
      <4>1. Apart(layout.components[i].sceneBounds, layout.components[j].sceneBounds)
        BY <2>9, <3>7
      <4>2. Apart(r, s)
        BY <4>1, <3>4, <3>5, CoveredApart
      <4> QED BY <4>2, <3>3
    <3> QED BY <3>6, <3>7
  <2> QED BY <2>4, <2>8, <2>9, <2>11
<1>3. (IInv /\ LayoutInv) /\ (IInv /\ LayoutInv)' /\ PlacedInv
        /\ [GraphStep \/ LayoutStep]_<<vars, layoutVars>> => PlacedInv'
  BY PlacedHolds
<1> QED BY <1>1, <1>2, <1>3, LayoutInvariant, PTL DEF LayoutSpec

================================================================================
