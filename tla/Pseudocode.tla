------------------------------- MODULE Pseudocode -------------------------------
(***************************************************************************)
(* PseudocodeGenerator::generate: the blocks of a function are printed as  *)
(* nested conditions when the graph has no back edge, and as labels and    *)
(* gotos when it has one.  Then the text that was printed and the machine  *)
(* are run side by side: the text may leave a path open in a comment, but  *)
(* must never name another block than the one the machine goes to.         *)
(*                                                                         *)
(* Blocks are 1 .. N in the order of their addresses.  The text is a       *)
(* sequence of lines [kind, block, depth]; the statements of a block are   *)
(* one line, and a condition is the block whose branch it belongs to.      *)
(***************************************************************************)
EXTENDS Integers, Sequences, FiniteSets, SequencesExt

CONSTANTS
  Graphs,       \* functions: sequences of blocks [kind, target]
  NoTarget,     \* a branch whose target is not known
  NoBlock,      \* no stop address, no join, no block of this function
  MaxBlocksRun  \* bound on the blocks executed

\* The terminators; "Normal" stands for every other last instruction.
Kinds == {"ConditionalJump", "UnconditionalJump", "Return", "IndirectJump", "Normal"}

\* generate does not print a graph without an entry block.
ASSUME GraphsAssumption ==
  \A g \in Graphs : g \in Seq([kind : Kinds, target : Nat \cup {NoTarget}]) /\ g # <<>>

ASSUME NoBlockAssumption == NoBlock \notin Nat /\ NoTarget \notin Nat

VARIABLES
  graph,     \* the control-flow graph
  stage,     \* "structured", "fallback", "run", "stopped"
  visited,   \* EmitContext::visited
  work,      \* the calls of emitStructuredPath that are open, and lines to be printed behind them
  text,      \* the lines printed so far
  line,      \* the line that is executed
  last,      \* the block executed last
  taken,     \* whether its branch was taken
  expected,  \* the block the machine goes to, NoBlock when it leaves the function
  ran        \* blocks executed

emission == <<visited, work, text>>
execution == <<line, last, taken, expected, ran>>
pseudocodeVars == <<graph, stage, emission, execution>>

Blocks == DOMAIN graph

--------------------------------------------------------------------------------
(***************************************************************************)
(* The graph, as ControlFlowGraph makes it.                                *)
(***************************************************************************)

TargetOf(b) == IF graph[b].target \in Blocks THEN <<graph[b].target>> ELSE <<>>

FallthroughOf(b) == IF b + 1 \in Blocks THEN <<b + 1>> ELSE <<>>

Successors(b) ==
  CASE graph[b].kind = "ConditionalJump" ->
         IF TargetOf(b) = FallthroughOf(b) THEN TargetOf(b) ELSE TargetOf(b) \o FallthroughOf(b)
    [] graph[b].kind = "UnconditionalJump" -> TargetOf(b)
    [] graph[b].kind \in {"Return", "IndirectJump"} -> <<>>
    [] OTHER -> FallthroughOf(b)

HasUnresolvedSuccessor(b) ==
  \/ graph[b].kind = "IndirectJump"
  \/ graph[b].kind \in {"ConditionalJump", "UnconditionalJump"} /\ graph[b].target \notin Blocks

\* reachableDistances: the blocks within n edges of the start, for each n.
Within(start, without) ==
  LET within[n \in 0 .. Len(graph)] ==
        IF n = 0 THEN {start}
        ELSE within[n - 1] \cup (UNION {ToSet(Successors(b)) : b \in within[n - 1]} \ without)
  IN  within

Reachable(start, without) == Within(start, without)[Len(graph)]

Distance(start, b) ==
  CHOOSE n \in 0 .. Len(graph) :
    b \in Within(start, {})[n] /\ (n > 0 => b \notin Within(start, {})[n - 1])

\* backEdges: an edge to a block on every path from the entry to where it starts.
HasBackEdge ==
  \E b \in Reachable(1, {}) : \E c \in ToSet(Successors(b)) :
    c = 1 \/ b = c \/ b \notin Reachable(1, {c})

Larger(m, n) == IF m >= n THEN m ELSE n

\* nearestJoin: a block both arms reach with the least larger distance, then the least
\* sum.  Which of several such blocks depends on the order of a hash table.
NearestJoin(left, right) ==
  LET common == Reachable(left, {}) \cap Reachable(right, {})
      Maximum(b) == Larger(Distance(left, b), Distance(right, b))
      Total(b) == Distance(left, b) + Distance(right, b)
      Nearer(b, c) == \/ Maximum(b) < Maximum(c)
                      \/ Maximum(b) = Maximum(c) /\ Total(b) < Total(c)
  IN  IF common = {} THEN {NoBlock}
      ELSE {b \in common : \A c \in common : ~Nearer(c, b)}

--------------------------------------------------------------------------------
(***************************************************************************)
(* emitStructuredPath.  The C++ stack of its recursion is "work": a path   *)
(* [kind |-> "path", block, stop, depth] is a call that is about to test   *)
(* its loop condition, any other entry a line to be printed.               *)
(***************************************************************************)

Line(kind, block, depth) == [kind |-> kind, block |-> block, depth |-> depth]

Path(block, stop, depth) == [kind |-> "path", block |-> block, stop |-> stop, depth |-> depth]

PseudocodeInit ==
  /\ graph \in Graphs
  /\ stage = IF HasBackEdge THEN "fallback" ELSE "structured"
  /\ visited = {}
  /\ work = IF HasBackEdge THEN <<>> ELSE <<Path(1, NoBlock, 1)>>
  /\ text = <<>>
  /\ line = 1 /\ last = NoBlock /\ taken = FALSE /\ expected = 1 /\ ran = 0

\* A line that the calls before it left behind.
PrintLine ==
  /\ stage = "structured" /\ work # <<>>
  /\ Head(work).kind # "path"
  /\ text' = Append(text, Head(work))
  /\ work' = Tail(work)
  /\ UNCHANGED <<graph, stage, visited, execution>>

\* The loop ends at the join its caller goes on with.
StopAtJoin ==
  /\ stage = "structured" /\ work # <<>>
  /\ Head(work).kind = "path" /\ Head(work).block = Head(work).stop
  /\ work' = Tail(work)
  /\ UNCHANGED <<graph, stage, visited, text, execution>>

AtBlock == stage = "structured" /\ work # <<>> /\ Head(work).kind = "path" /\ Head(work).block # Head(work).stop

RejoinVisited ==
  /\ AtBlock /\ Head(work).block \in visited
  /\ text' = Append(text, Line("rejoin", Head(work).block, Head(work).depth))
  /\ work' = Tail(work)
  /\ UNCHANGED <<graph, stage, visited, execution>>

\* What replaces a path at block b: nothing but a comment at an exit, the path of the
\* only successor, or the arms of a condition and the path of their join.
AfterExit(b, depth) ==
  IF HasUnresolvedSuccessor(b) THEN <<Line("unresolved", b, depth)>> ELSE <<>>

\* Mutation: the arm that jumps is the join, and the condition is printed as it is.
IfUnnegated(b, depth) == Line("if", b, depth)

IfNot(b, depth) == Line("if not", b, depth)

\* Mutation: nothing is printed behind a condition.
JoinForgotten(join, stop, depth) == <<>>

BehindArms(join, stop, depth) == IF join = NoBlock THEN <<>> ELSE <<Path(join, stop, depth)>>

AfterBranch(b, stop, depth, join) ==
  LET target == graph[b].target
      other  == IF Successors(b)[1] = target THEN Successors(b)[2] ELSE Successors(b)[1]
      If(kind) == Line(kind, b, depth)
      Arm(start) == Path(start, join, depth + 1)
      Then == BehindArms(join, stop, depth)
  IN  CASE join = target -> <<IfNot(b, depth), Arm(other), If("end")>> \o Then
        [] join # target /\ join = other -> <<If("if"), Arm(target), If("end")>> \o Then
        [] OTHER -> <<If("if"), Arm(target), If("else"), Arm(other), If("end")>> \o Then

After(b, stop, depth, join) ==
  CASE Successors(b) = <<>>      -> AfterExit(b, depth)
    [] Len(Successors(b)) = 1 -> <<Path(Successors(b)[1], stop, depth)>>
    [] Len(Successors(b)) = 2 -> AfterBranch(b, stop, depth, join)

Joins(b) ==
  IF Len(Successors(b)) = 2 THEN NearestJoin(Successors(b)[1], Successors(b)[2]) ELSE {NoBlock}

EmitBlock ==
  /\ AtBlock /\ Head(work).block \notin visited
  /\ LET b == Head(work).block IN
     /\ visited' = visited \cup {b}
     /\ text' = Append(text, Line("block", b, Head(work).depth))
     /\ \E join \in Joins(b) : work' = After(b, Head(work).stop, Head(work).depth, join) \o Tail(work)
  /\ UNCHANGED <<graph, stage, execution>>

EmitStructuredPath == PrintLine \/ StopAtJoin \/ RejoinVisited \/ EmitBlock

--------------------------------------------------------------------------------
(***************************************************************************)
(* emitFallbackControlFlow, one block per step.                            *)
(***************************************************************************)

\* A block that branches to itself is a loop that ends with its other successor.
SelfLoop(b, kind, exit) ==
  <<Line("do", b, 2), Line("block", b, 3), Line(kind, b, 2), Line("goto", exit, 2)>>

FallbackLines(b) ==
  LET target == graph[b].target
      successors == Successors(b)
      conditional == graph[b].kind = "ConditionalJump" /\ Len(successors) = 2
      other == IF successors[1] = target THEN successors[2] ELSE successors[1]
      body == <<Line("block", b, 2)>>
  IN  CASE conditional /\ target = b -> SelfLoop(b, "while", other)
        [] conditional /\ target # b /\ other = b -> SelfLoop(b, "while not", target)
        [] conditional /\ b \notin {target, other} ->
             body \o <<Line("if", b, 2), Line("goto", target, 3), Line("end", b, 2), Line("goto", other, 2)>>
        [] ~conditional /\ Len(successors) = 1 -> body \o <<Line("goto", successors[1], 2)>>
        [] ~conditional /\ Len(successors) # 1 /\ HasUnresolvedSuccessor(b) ->
             body \o <<Line("unresolved", b, 2)>>
        [] OTHER -> body

EmitFallbackBlock ==
  /\ stage = "fallback" /\ visited # Blocks
  /\ LET b == Cardinality(visited) + 1 IN
     /\ visited' = visited \cup {b}
     /\ text' = text \o <<Line("label", b, 1)>> \o FallbackLines(b)
  /\ UNCHANGED <<graph, stage, work, execution>>

\* generate returns the text.
Finish ==
  /\ \/ stage = "structured" /\ work = <<>>
     \/ stage = "fallback" /\ visited = Blocks
  /\ stage' = "run"
  /\ UNCHANGED <<graph, emission, execution>>

--------------------------------------------------------------------------------
(***************************************************************************)
(* The text is executed, and the machine with it.                          *)
(***************************************************************************)

BlockOrOutside(b) == IF b \in Blocks THEN b ELSE NoBlock

\* Where the machine goes from block b, if it stays in the function.
Goes(b, branch) ==
  CASE graph[b].kind = "ConditionalJump" ->
         IF branch THEN BlockOrOutside(graph[b].target) ELSE BlockOrOutside(b + 1)
    [] graph[b].kind = "UnconditionalJump" -> BlockOrOutside(graph[b].target)
    [] graph[b].kind \in {"Return", "IndirectJump"} -> NoBlock
    [] OTHER -> BlockOrOutside(b + 1)

\* The next line at the depth of line k that is one of these kinds, the last one
\* before it, and the line of a label.
Closing(k, kinds) ==
  CHOOSE m \in k + 1 .. Len(text) :
    /\ text[m].depth = text[k].depth /\ text[m].kind \in kinds
    /\ \A n \in k + 1 .. m - 1 : text[n].depth # text[k].depth \/ text[n].kind \notin kinds

Opening(k) ==
  CHOOSE m \in 1 .. k : text[m].kind = "do" /\ text[m].block = text[k].block

LabelLine(b) == CHOOSE m \in DOMAIN text : text[m].kind = "label" /\ text[m].block = b

Enters(condition, k) ==
  IF condition THEN k + 1 ELSE Closing(k, {"else", "end"}) + 1

NextLine(k) ==
  CASE text[k].kind = "if"        -> Enters(taken, k)
    [] text[k].kind = "if not"    -> Enters(~taken, k)
    [] text[k].kind = "else"      -> Closing(k, {"end"}) + 1
    [] text[k].kind = "while"     -> IF taken THEN Opening(k) ELSE k + 1
    [] text[k].kind = "while not" -> IF ~taken THEN Opening(k) ELSE k + 1
    [] text[k].kind = "goto"      -> LabelLine(text[k].block)
    [] OTHER                      -> k + 1

\* Lines that execute no statement of a block.
Control ==
  /\ stage = "run" /\ line \in DOMAIN text
  /\ text[line].kind \notin {"block", "rejoin", "unresolved"}
  /\ line' = NextLine(line)
  /\ UNCHANGED <<graph, stage, emission, last, taken, expected, ran>>

\* A return ends the function, and so does a last instruction that is no branch: it
\* is a call that does not come back.
Ends(b) == graph[b].kind = "Return" \/ (graph[b].kind = "Normal" /\ b = Len(graph))

\* The statements of a block.
RunBlock ==
  /\ stage = "run" /\ line \in DOMAIN text /\ text[line].kind = "block"
  /\ ran < MaxBlocksRun
  /\ LET b == text[line].block IN
     \E branch \in IF graph[b].kind = "ConditionalJump" THEN BOOLEAN ELSE {FALSE} :
       /\ last' = b /\ taken' = branch
       /\ expected' = Goes(b, branch)
       /\ stage' = IF Ends(b) THEN "stopped" ELSE stage
  /\ line' = line + 1 /\ ran' = ran + 1
  /\ UNCHANGED <<graph, emission>>

PseudocodeNext == EmitStructuredPath \/ EmitFallbackBlock \/ Finish \/ Control \/ RunBlock

PseudocodeSpec == PseudocodeInit /\ [][PseudocodeNext]_pseudocodeVars

--------------------------------------------------------------------------------
(***************************************************************************)
(* Properties.                                                             *)
(***************************************************************************)

\* The text goes where the machine goes: a block that is printed next, or named in a
\* comment, is the machine's next block, and a comment that the target is not known,
\* or the end of the text, is met only where the machine leaves the function.
GoesOn ==
  stage = "run" =>
    /\ line \in DOMAIN text /\ text[line].kind \in {"block", "rejoin"} => text[line].block = expected
    /\ line \in DOMAIN text /\ text[line].kind = "unresolved" => expected = NoBlock
    /\ line \notin DOMAIN text => expected = NoBlock

\* A conditional jump out of the function, whose condition the text leaves out.
LeavesByCondition == last # NoBlock /\ graph[last].kind = "ConditionalJump" /\ expected = NoBlock

\* As long as the function is not left by a conditional jump, every path through the
\* text is one of the machine (emitStructuredPath, emitFallbackControlFlow).
PrintedPathsReal == ~LeavesByCondition => GoesOn

\* Every block that can be reached is printed, once, and no other; labels are printed
\* for all blocks, reachable or not.
EveryBlockPrintedOnce ==
  stage \in {"run", "stopped"} =>
    LET printed == {k \in DOMAIN text : text[k].kind = "block"}
        wanted  == IF HasBackEdge THEN Blocks ELSE Reachable(1, {})
    IN  /\ {text[k].block : k \in printed} = wanted
        /\ \A j, k \in printed : text[j].block = text[k].block => j = k

================================================================================
