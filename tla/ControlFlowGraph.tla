---------------------------- MODULE ControlFlowGraph ----------------------------
(***************************************************************************)
(* ControlFlowGraph::build: validation and indexing of the blocks, edges,  *)
(* reachability, depth-first order, reverse postorder, dominators and      *)
(* natural loops.  Every iteration of a worklist loop is one step, so that *)
(* the invariants speak of the loops and not only of their results.        *)
(*                                                                         *)
(* A block is named by its start address, as in the code, where            *)
(* successors, predecessors and every result hold start addresses.  Stacks *)
(* are sequences whose head is the top: pushing the successors in reverse  *)
(* and popping the last one is putting the list in front of the tail.      *)
(***************************************************************************)
EXTENDS BasicBlocks, SequencesExt

CONSTANT Inputs   \* the block vectors build can be called with

ASSUME InputsAssumption == Inputs \subseteq Seq(Block)

VARIABLES
  phase,        \* the loop build is in; "idle", "done" and "failed" outside
  block,        \* blocks_ and blockIndex_: start address -> block
  succ,         \* start address -> successors, in the order they are added
  pred,         \* start address -> set of predecessors
  reachable,    \* the blocks whose isReachable flag is set
  pending,      \* stack of the two preorder walks
  visited,      \* "visited" of the walk that is running
  dfsOrder,     \* depthFirstOrder_
  frames,       \* TraversalFrame stack of the postorder walk
  postOrder,    \* postOrder; reversed it is reversePostOrder_
  dominators,   \* dominators_
  position,     \* position of the for loop in reversePostOrder_
  changed,      \* "changed" of the dominator fixpoint
  backEdges     \* backEdges_; loopHeaders_ are their heads

graphVars == <<block, succ, pred>>
walkVars  == <<reachable, pending, visited, dfsOrder, frames, postOrder>>
loopVars  == <<dominators, position, changed, backEdges>>
vars == <<phase, graphVars, walkVars, loopVars>>

Starts == DOMAIN block

Init ==
  /\ phase = "idle"
  /\ block = <<>> /\ succ = <<>> /\ pred = <<>>
  /\ reachable = {} /\ pending = <<>> /\ visited = {} /\ dfsOrder = <<>>
  /\ frames = <<>> /\ postOrder = <<>>
  /\ dominators = <<>> /\ position = 1 /\ changed = FALSE /\ backEdges = {}

--------------------------------------------------------------------------------
(***************************************************************************)
(* Queries on the blocks.                                                  *)
(***************************************************************************)

\* blocks_.front() of the sorted vector.
Entry == CHOOSE b \in Starts : \A c \in Starts : b <= c

\* The block that follows b in address order, if there is one.
Following(b) ==
  {c \in Starts : b < c /\ \A d \in Starts : b < d => c <= d}

FallThrough(b) ==
  IF Following(b) = {} THEN <<>> ELSE <<CHOOSE c \in Following(b) : TRUE>>

\* Mutation: every known target becomes a successor.
DirectTargetUnchecked(b) ==
  IF block[b].target # NoAddress THEN <<block[b].target>> ELSE <<>>

\* addDirectTarget: a target that starts no block leaves the edge unresolved.
DirectTarget(b) == IF block[b].target \in Starts THEN <<block[b].target>> ELSE <<>>

Successors(b) ==
  CASE block[b].kind = "ConditionalJump" ->
         IF DirectTarget(b) = FallThrough(b) THEN FallThrough(b)
                                             ELSE DirectTarget(b) \o FallThrough(b)
    [] block[b].kind = "UnconditionalJump" -> DirectTarget(b)
    [] block[b].kind \in {"IndirectJump", "Return"} -> <<>>
    [] OTHER -> FallThrough(b)

HasUnresolvedSuccessor(b) ==
  \/ block[b].kind = "IndirectJump"
  \/ IsDirectBranch(block[b].kind) /\ block[b].target \notin Starts

IsExit(b) == succ[b] = <<>> /\ ~ HasUnresolvedSuccessor(b)

Succs(b) == ToSet(succ[b])

\* reversePostOrder_[i]
ReversePostOrder(i) == postOrder[Len(postOrder) + 1 - i]

\* Mutation: the end of a block is always outside it.
BlockContainingExclusive(a) ==
  {b \in Starts :
     /\ b <= a /\ \A c \in Starts : c <= a => c <= b
     /\ a < block[b].end}

\* blockContaining: the last block that starts at or before the address, if the
\* address is before its end; a saturated end belongs to the block when its last
\* instruction starts there.  The result is a set with at most one block.
BlockContaining(a) ==
  {b \in Starts :
     /\ b <= a /\ \A c \in Starts : c <= a => c <= b
     /\ \/ a < block[b].end
        \/ a = block[b].end /\ block[b].last = block[b].end}

--------------------------------------------------------------------------------
(***************************************************************************)
(* build: validation, then the sorted vector and its index.                *)
(***************************************************************************)

ValidRange(b) == b.first = b.start /\ b.end >= b.start

UniqueStarts(in) ==
  \A i, j \in 1 .. Len(in) : in[i].start = in[j].start => i = j

Accepted(in) ==
  in # <<>> /\ UniqueStarts(in) /\ \A i \in 1 .. Len(in) : ValidRange(in[i])

\* An empty vector, a malformed block or a repeated start address: build resets
\* the graph and returns false.
RejectBlocks(in) ==
  /\ phase = "idle"
  /\ ~ Accepted(in)
  /\ phase' = "failed"
  /\ UNCHANGED <<graphVars, walkVars, loopVars>>

IndexBlocks(in) ==
  /\ phase = "idle"
  /\ Accepted(in)
  /\ block' = [a \in {in[i].start : i \in 1 .. Len(in)} |->
                 in[CHOOSE i \in 1 .. Len(in) : in[i].start = a]]
  /\ phase' = "edges"
  /\ UNCHANGED <<succ, pred, walkVars, loopVars>>

\* buildEdges, then the initial stack of analyzeReachability.
BuildEdges ==
  /\ phase = "edges"
  /\ succ' = [b \in Starts |-> Successors(b)]
  /\ pred' = [b \in Starts |-> {p \in Starts : b \in ToSet(Successors(p))}]
  /\ pending' = <<Entry>>
  /\ phase' = "reach"
  /\ UNCHANGED <<block, reachable, visited, dfsOrder, frames, postOrder, loopVars>>

--------------------------------------------------------------------------------
(***************************************************************************)
(* analyzeReachability and the preorder walk of buildTraversalOrders.      *)
(***************************************************************************)

\* Mutation: the successors replace the stack.
ReachBlockForgets ==
  /\ phase = "reach"
  /\ pending # <<>>
  /\ LET b == Head(pending)
     IN  IF b \in visited
           THEN /\ pending' = Tail(pending)
                /\ UNCHANGED <<visited, reachable>>
           ELSE /\ visited' = visited \cup {b}
                /\ reachable' = reachable \cup {b}
                /\ pending' = succ[b]
  /\ UNCHANGED <<phase, graphVars, dfsOrder, frames, postOrder, loopVars>>

\* One iteration of the loop of analyzeReachability.
ReachBlock ==
  /\ phase = "reach"
  /\ pending # <<>>
  /\ LET b == Head(pending)
     IN  IF b \in visited
           THEN /\ pending' = Tail(pending)
                /\ UNCHANGED <<visited, reachable>>
           ELSE /\ visited' = visited \cup {b}
                /\ reachable' = reachable \cup {b}
                /\ pending' = succ[b] \o Tail(pending)
  /\ UNCHANGED <<phase, graphVars, dfsOrder, frames, postOrder, loopVars>>

StartPreorder ==
  /\ phase = "reach"
  /\ pending = <<>>
  /\ visited' = {}
  /\ pending' = <<Entry>>
  /\ phase' = "preorder"
  /\ UNCHANGED <<graphVars, reachable, dfsOrder, frames, postOrder, loopVars>>

\* One iteration of the loop that fills depthFirstOrder_.
PreorderBlock ==
  /\ phase = "preorder"
  /\ pending # <<>>
  /\ LET b == Head(pending)
     IN  IF b \in visited
           THEN /\ pending' = Tail(pending)
                /\ UNCHANGED <<visited, dfsOrder>>
           ELSE /\ visited' = visited \cup {b}
                /\ dfsOrder' = Append(dfsOrder, b)
                /\ pending' = succ[b] \o Tail(pending)
  /\ UNCHANGED <<phase, graphVars, reachable, frames, postOrder, loopVars>>

\* Mutation: the entry is not marked as visited.
StartPostorderUnmarked ==
  /\ phase = "preorder"
  /\ pending = <<>>
  /\ visited' = {}
  /\ frames' = <<[address |-> Entry, nextSuccessor |-> 1]>>
  /\ phase' = "postorder"
  /\ UNCHANGED <<graphVars, reachable, pending, dfsOrder, postOrder, loopVars>>

StartPostorder ==
  /\ phase = "preorder"
  /\ pending = <<>>
  /\ visited' = {Entry}
  /\ frames' = <<[address |-> Entry, nextSuccessor |-> 1]>>
  /\ phase' = "postorder"
  /\ UNCHANGED <<graphVars, reachable, pending, dfsOrder, postOrder, loopVars>>

--------------------------------------------------------------------------------
(***************************************************************************)
(* The postorder walk of buildTraversalOrders, with its explicit frames.   *)
(***************************************************************************)

Top == Head(frames)

\* The top frame still has a successor: count it and descend if it is new.
DescendFrame ==
  /\ phase = "postorder"
  /\ frames # <<>>
  /\ Top.nextSuccessor <= Len(succ[Top.address])
  /\ LET s == succ[Top.address][Top.nextSuccessor]
         advanced == <<[Top EXCEPT !.nextSuccessor = @ + 1]>> \o Tail(frames)
     IN  IF s \in visited
           THEN frames' = advanced /\ UNCHANGED visited
           ELSE /\ frames' = <<[address |-> s, nextSuccessor |-> 1]>> \o advanced
                /\ visited' = visited \cup {s}
  /\ UNCHANGED <<phase, graphVars, reachable, pending, dfsOrder, postOrder, loopVars>>

FinishFrame ==
  /\ phase = "postorder"
  /\ frames # <<>>
  /\ Top.nextSuccessor > Len(succ[Top.address])
  /\ postOrder' = Append(postOrder, Top.address)
  /\ frames' = Tail(frames)
  /\ UNCHANGED <<phase, graphVars, reachable, pending, visited, dfsOrder, loopVars>>

\* Mutation: every set starts with its own block only.
InitialDominatorsSmall(b) == {b}

InitialDominators(b) == IF b = Entry THEN {b} ELSE ToSet(dfsOrder)

\* The walk is over; the dominator sets start from the blocks of the depth-first
\* order, the entry from itself.
InitDominators ==
  /\ phase = "postorder"
  /\ frames = <<>>
  /\ dominators' = [b \in ToSet(dfsOrder) |-> InitialDominators(b)]
  /\ changed' = FALSE
  /\ position' = 1
  /\ phase' = "dominators"
  /\ UNCHANGED <<graphVars, walkVars, backEdges>>

--------------------------------------------------------------------------------
(***************************************************************************)
(* analyzeDominatorsAndLoops.                                              *)
(***************************************************************************)

ReachablePreds(b) == pred[b] \cap ToSet(dfsOrder)

\* The intersection over the reachable predecessors, with the block itself.
MeetOverPreds(b) ==
  {b} \cup {d \in UNION {dominators[p] : p \in ReachablePreds(b)} :
              \A p \in ReachablePreds(b) : d \in dominators[p]}

\* One iteration of the for loop over reversePostOrder_.
RefineDominators ==
  /\ phase = "dominators"
  /\ position <= Len(postOrder)
  /\ LET b == ReversePostOrder(position)
     IN  IF b = Entry \/ ReachablePreds(b) = {} \/ MeetOverPreds(b) = dominators[b]
           THEN UNCHANGED <<dominators, changed>>
           ELSE /\ dominators' = [dominators EXCEPT ![b] = MeetOverPreds(b)]
                /\ changed' = TRUE
  /\ position' = position + 1
  /\ UNCHANGED <<phase, graphVars, walkVars, backEdges>>

\* Mutation: "changed" is not reset.
NextPassStillChanged ==
  /\ phase = "dominators"
  /\ position > Len(postOrder)
  /\ changed
  /\ position' = 1
  /\ UNCHANGED <<phase, graphVars, walkVars, dominators, changed, backEdges>>

\* The pass changed a set: while(changed) starts another one.
NextPass ==
  /\ phase = "dominators"
  /\ position > Len(postOrder)
  /\ changed
  /\ position' = 1
  /\ changed' = FALSE
  /\ UNCHANGED <<phase, graphVars, walkVars, dominators, backEdges>>

Dominates(d, b) == b \in DOMAIN dominators /\ d \in dominators[b]

\* Mutation: a block that jumps to itself is no loop.
IsBackEdgeProper(b, c) == b # c /\ Dominates(c, b)

IsBackEdge(b, c) == Dominates(c, b)

\* Mutation: one pass over the blocks is taken for enough.
FindLoopsAfterOnePass ==
  /\ phase = "dominators"
  /\ position > Len(postOrder)
  /\ backEdges' = {e \in Starts \X Starts :
                     /\ e[1] \in reachable
                     /\ e[2] \in Succs(e[1])
                     /\ IsBackEdge(e[1], e[2])}
  /\ phase' = "done"
  /\ UNCHANGED <<graphVars, walkVars, dominators, position, changed>>

\* The fixpoint is reached: collect the back edges, and build returns true.
FindLoops ==
  /\ phase = "dominators"
  /\ position > Len(postOrder)
  /\ ~ changed
  /\ backEdges' = {e \in Starts \X Starts :
                     /\ e[1] \in reachable
                     /\ e[2] \in Succs(e[1])
                     /\ IsBackEdge(e[1], e[2])}
  /\ phase' = "done"
  /\ UNCHANGED <<graphVars, walkVars, dominators, position, changed>>

LoopHeaders == {e[2] : e \in backEdges}

\* reset(), or the reset build starts with, on a graph that was built before.
Reset ==
  /\ phase \in {"done", "failed"}
  /\ phase' = "idle"
  /\ block' = <<>> /\ succ' = <<>> /\ pred' = <<>>
  /\ reachable' = {} /\ pending' = <<>> /\ visited' = {} /\ dfsOrder' = <<>>
  /\ frames' = <<>> /\ postOrder' = <<>>
  /\ dominators' = <<>> /\ position' = 1 /\ changed' = FALSE /\ backEdges' = {}

Build(in) == RejectBlocks(in) \/ IndexBlocks(in)

Walk == ReachBlock \/ StartPreorder \/ PreorderBlock
          \/ StartPostorder \/ DescendFrame \/ FinishFrame

Loops == InitDominators \/ RefineDominators \/ NextPass \/ FindLoops

Next == (\E in \in Inputs : Build(in)) \/ BuildEdges \/ Walk \/ Loops \/ Reset

\* build is one call on one thread: once entered its loops keep being executed.
Spec == Init /\ [][Next]_vars /\ WF_vars(BuildEdges \/ Walk \/ Loops)

--------------------------------------------------------------------------------
(***************************************************************************)
(* Reference definitions, independent of the algorithms above.             *)
(***************************************************************************)

Built == phase \notin {"idle", "edges", "failed"}

\* S contains the entry and every successor of its blocks.
ClosedUnderSuccessors(S) ==
  Entry \in S /\ \A b \in S : Succs(b) \subseteq S

\* b is executed on every path from the entry that the edges allow.
Reaches(b) == \A S \in SUBSET Starts : ClosedUnderSuccessors(S) => b \in S

\* S contains the entry and what can be reached from it without entering d.
ClosedAvoiding(S, d) ==
  Entry \in S /\ \A b \in S : Succs(b) \subseteq S \cup {d}

\* d lies on every path from the entry to b: some set of blocks holds all that can
\* be executed before d and does not hold b.
OnEveryPath(d, b) ==
  \/ d = b
  \/ d = Entry
  \/ \E S \in SUBSET Starts : b \notin S /\ d \notin S /\ ClosedAvoiding(S, d)

--------------------------------------------------------------------------------
(***************************************************************************)
(* Properties.                                                             *)
(***************************************************************************)

TypeOK ==
  /\ phase \in {"idle", "edges", "reach", "preorder", "postorder", "dominators",
                "done", "failed"}
  /\ Starts \subseteq Address
  /\ block \in [Starts -> Block]
  /\ Built => /\ succ \in [Starts -> Seq(Starts)]
              /\ pred \in [Starts -> SUBSET Starts]
  /\ reachable \subseteq Starts
  /\ pending \in Seq(Starts)
  /\ visited \subseteq Starts
  /\ dfsOrder \in Seq(Starts)
  /\ frames \in Seq([address : Starts, nextSuccessor : Nat \ {0}])
  /\ postOrder \in Seq(Starts)
  /\ DOMAIN dominators \subseteq Starts
  /\ dominators \in [DOMAIN dominators -> SUBSET Starts]
  /\ position \in Nat \ {0}
  /\ changed \in BOOLEAN
  /\ backEdges \subseteq Starts \X Starts

(***************************************************************************)
(* After analyzeReachability a block is flagged reachable exactly when it  *)
(* is in every set of blocks that control cannot leave: no executable      *)
(* block is reported unreachable and no dead one reachable.                *)
(***************************************************************************)
ReachabilityExact ==
  phase \in {"preorder", "postorder", "dominators", "done"} =>
    reachable = {b \in Starts : Reaches(b)}

(***************************************************************************)
(* depthFirstOrder_ and reversePostOrder_ list every reachable block once, *)
(* starting with the entry; the dominator loop walks the second and starts *)
(* its sets from the first, so the two separate walks must agree.          *)
(***************************************************************************)
OrdersListReachable ==
  phase \in {"dominators", "done"} =>
    /\ ToSet(dfsOrder) = reachable /\ ToSet(postOrder) = reachable
    /\ Len(dfsOrder) = Len(postOrder)
    /\ \A i, j \in 1 .. Len(postOrder) : postOrder[i] = postOrder[j] => i = j
    /\ dfsOrder[1] = Entry /\ ReversePostOrder(1) = Entry

(***************************************************************************)
(* At every iteration of the fixpoint a block that lies on every path from *)
(* the entry to b is still in b's set: no pass ever removes a dominator.   *)
(***************************************************************************)
NoDominatorLost ==
  phase \in {"dominators", "done"} =>
    \A b \in reachable, d \in Starts :
      d \in reachable /\ OnEveryPath(d, b) => d \in dominators[b]

(***************************************************************************)
(* When the fixpoint stops, the sets hold dominators only.                 *)
(***************************************************************************)
DominatorsSound ==
  phase = "done" =>
    \A b \in reachable : \A d \in dominators[b] : OnEveryPath(d, b)

(***************************************************************************)
(* No dominator is lost while the fixpoint runs, and when it stops there   *)
(* is nothing else in the sets.                                            *)
(***************************************************************************)
DominatorsExact == NoDominatorLost /\ DominatorsSound

(***************************************************************************)
(* A refinement pass only removes blocks from a set, which is why the      *)
(* while(changed) loop stops.                                              *)
(***************************************************************************)
DominatorsOnlyShrink ==
  [][phase = "dominators" /\ phase' = "dominators" =>
       \A b \in reachable : dominators'[b] \subseteq dominators[b]]_vars

PositionOf(b) == CHOOSE i \in 1 .. Len(postOrder) : ReversePostOrder(i) = b

(***************************************************************************)
(* A back edge goes against reverse postorder and an edge that is not one  *)
(* goes with it unless the graph is irreducible, that is, unless the       *)
(* retreating edge enters a cycle at a block that does not dominate its    *)
(* tail.  The two analyses (postorder walk and dominator fixpoint) do not  *)
(* share state, so agreement on loops is not a matter of construction.     *)
(***************************************************************************)
BackEdgesRetreat ==
  phase = "done" =>
    \A e \in backEdges : PositionOf(e[2]) <= PositionOf(e[1])

\* A set of blocks that control can stay in for ever.
IsCycle(C) == C # {} /\ \A b \in C : \E c \in C : c \in Succs(b)

\* A cycle is entered at a block that some path to the end of the edge avoids.
Irreducible ==
  \E b, c \in reachable :
    c \in Succs(b) /\ PositionOf(c) <= PositionOf(b) /\ ~ OnEveryPath(c, b)

(***************************************************************************)
(* Every cycle of a reducible graph runs through a loop header: generate() *)
(* treats a graph with no back edge as acyclic.                            *)
(***************************************************************************)
CyclesHaveHeaders ==
  phase = "done" =>
    Irreducible \/ \A C \in SUBSET reachable : IsCycle(C) => C \cap LoopHeaders # {}

(***************************************************************************)
(* The loops that are found are loops, and no cycle is without one.        *)
(***************************************************************************)
LoopsExact == BackEdgesRetreat /\ CyclesHaveHeaders

(***************************************************************************)
(* The addresses from the first instruction of a block to its last are     *)
(* found in that block by blockContaining, also when blocks leave gaps,    *)
(* come unsorted, or end at the largest address, where the end saturates.  *)
(***************************************************************************)
BlockContainingFinds ==
  Built => \A b \in Starts : \A a \in b .. block[b].last : BlockContaining(a) = {b}

\* Once build has accepted its blocks it returns.
BuildTerminates == (phase = "edges") ~> (phase = "done")

================================================================================
