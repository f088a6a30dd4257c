------------------------- MODULE ControlFlowGraphProofs -------------------------
(***************************************************************************)
(* What ControlFlowGraph::build computes, for every block vector: the type *)
(* invariant, the exactness of the reachability analysis, that both orders *)
(* list each reachable block once, that the dominator fixpoint never loses *)
(* a dominator and ends with dominators only, that the loops found are the *)
(* cycles, and that an address is found in its block.  The inductive       *)
(* invariant has one part per loop of the code.                            *)
(***************************************************************************)
EXTENDS ControlFlowGraph, FiniteSetTheorems, WellFoundedInduction, TLAPS

--------------------------------------------------------------------------------
(***************************************************************************)
(* What appending, concatenating and taking the tail of a sequence do to   *)
(* the set of its elements: worklists and orders are sequences.            *)
(***************************************************************************)

\* The elements by index.
LEMMA ToSetIndexed ==
  ASSUME NEW S, NEW s \in Seq(S)
  PROVE  ToSet(s) = {s[i] : i \in 1 .. Len(s)}
BY DEF ToSet

LEMMA ToSetEmpty == ToSet(<<>>) = {}
BY DEF ToSet

LEMMA ToSetSubset ==
  ASSUME NEW S, NEW s \in Seq(S)
  PROVE  ToSet(s) \subseteq S
BY ToSetIndexed

LEMMA ToSetSingle ==
  ASSUME NEW S, NEW x \in S
  PROVE  <<x>> \in Seq(S) /\ ToSet(<<x>>) = {x}
<1>1. <<x>> \in Seq(S) /\ Len(<<x>>) = 1 /\ <<x>>[1] = x
  OBVIOUS
<1>2. ToSet(<<x>>) = {<<x>>[i] : i \in 1 .. Len(<<x>>)}
  BY <1>1, ToSetIndexed
<1> HIDE DEF ToSet
<1> QED BY <1>1, <1>2

LEMMA ToSetTail ==
  ASSUME NEW S, NEW s \in Seq(S), s # <<>>
  PROVE  /\ Head(s) \in S
         /\ Tail(s) \in Seq(S)
         /\ ToSet(s) = {Head(s)} \cup ToSet(Tail(s))
<1>1. Head(s) \in S /\ Tail(s) \in Seq(S)
  OBVIOUS
<1> DEFINE A == {s[i] : i \in 1 .. Len(s)}
           B == {Tail(s)[i] : i \in 1 .. Len(Tail(s))}
<1>2. A = {Head(s)} \cup B
  OBVIOUS
<1>3. ToSet(s) = A /\ ToSet(Tail(s)) = B
  BY <1>1, ToSetIndexed
<1> QED BY <1>1, <1>2, <1>3

LEMMA ToSetAppend ==
  ASSUME NEW S, NEW s \in Seq(S), NEW x \in S
  PROVE  /\ Append(s, x) \in Seq(S)
         /\ ToSet(Append(s, x)) = ToSet(s) \cup {x}
<1>1. Append(s, x) \in Seq(S)
  OBVIOUS
<1> DEFINE A == {Append(s, x)[i] : i \in 1 .. Len(Append(s, x))}
           B == {s[i] : i \in 1 .. Len(s)}
<1>2. A = B \cup {x}
  OBVIOUS
<1>3. ToSet(Append(s, x)) = A /\ ToSet(s) = B
  BY <1>1, ToSetIndexed
<1> QED BY <1>1, <1>2, <1>3

LEMMA ToSetConcat ==
  ASSUME NEW S, NEW s \in Seq(S), NEW t \in Seq(S)
  PROVE  /\ s \o t \in Seq(S)
         /\ ToSet(s \o t) = ToSet(s) \cup ToSet(t)
<1>1. s \o t \in Seq(S) /\ Len(s \o t) = Len(s) + Len(t)
  OBVIOUS
<1> DEFINE A == {s[i] : i \in 1 .. Len(s)}
           B == {t[i] : i \in 1 .. Len(t)}
           C == {(s \o t)[i] : i \in 1 .. Len(s) + Len(t)}
<1>2. \A i \in 1 .. Len(s) + Len(t) : (s \o t)[i] \in A \cup B
  <2> TAKE i \in 1 .. Len(s) + Len(t)
  <2>1. CASE i <= Len(s)
    BY <2>1
  <2>2. CASE i > Len(s)
    <3>1. (s \o t)[i] = t[i - Len(s)] /\ i - Len(s) \in 1 .. Len(t)
      BY <2>2
    <3> QED BY <3>1
  <2> QED BY <2>1, <2>2
<1>3. \A i \in 1 .. Len(s) : i \in 1 .. Len(s) + Len(t) /\ (s \o t)[i] = s[i]
  BY <1>1
<1>4. \A i \in 1 .. Len(t) :
        Len(s) + i \in 1 .. Len(s) + Len(t) /\ (s \o t)[Len(s) + i] = t[i]
  BY <1>1
<1>5. C = A \cup B
  <2>1. C \subseteq A \cup B
    BY <1>2
  <2>2. A \subseteq C
    BY <1>3
  <2>3. B \subseteq C
    BY <1>4
  <2> QED BY <2>1, <2>2, <2>3
<1>6. ToSet(s \o t) = C /\ ToSet(s) = A /\ ToSet(t) = B
  BY <1>1, ToSetIndexed
<1> QED BY <1>1, <1>5, <1>6

\* Pushing on a stack.
LEMMA ToSetPush ==
  ASSUME NEW S, NEW x \in S, NEW s \in Seq(S)
  PROVE  /\ <<x>> \o s \in Seq(S)
         /\ ToSet(<<x>> \o s) = {x} \cup ToSet(s)
<1>1. <<x>> \in Seq(S) /\ ToSet(<<x>>) = {x}
  BY ToSetSingle
<1> DEFINE t == <<x>>
<1>2. t \in Seq(S) /\ ToSet(t) = {x}
  BY <1>1
<1> HIDE DEF t
<1>3. t \o s \in Seq(S) /\ ToSet(t \o s) = {x} \cup ToSet(s)
  BY <1>2, ToSetConcat
<1> QED BY <1>3 DEF t

\* The empty sequence is the function with the empty domain.
LEMMA EmptyFunction ==
  ASSUME NEW T
  PROVE  DOMAIN <<>> = {} /\ <<>> \in [{} -> T] /\ <<>> \in Seq(T)
<1>1. <<>> \in Seq(T) /\ Len(<<>>) = 0
  OBVIOUS
<1>2. <<>> \in [1 .. Len(<<>>) -> T]
  BY <1>1
<1>3. 1 .. Len(<<>>) = {}
  BY <1>1
<1> QED BY <1>1, <1>2, <1>3

\* Every non-empty set of natural numbers has a least element.
LEMMA LeastElement ==
  ASSUME NEW S \in SUBSET Nat, S # {}
  PROVE  \E m \in S : \A n \in S : m <= n
<1> DEFINE Less == {ss \in Nat \X Nat : ss[1] < ss[2]}
<1>1. IsWellFoundedOn(Less, Nat)
  BY NatLessThanWellFounded, Zenon DEF OpToRel
<1>2. \E m \in S : \A n \in S : ~ (<<n, m>> \in Less)
  <2> HIDE DEF Less
  <2> QED BY <1>1, WFMin
<1>3. \A n, m \in Nat : ~ (<<n, m>> \in Less) => m <= n
  OBVIOUS
<1> QED BY <1>2, <1>3

--------------------------------------------------------------------------------

(***************************************************************************)
(* The inductive invariant.                                                *)
(***************************************************************************)

\* Blocks were indexed, and the predecessor lists mirror the successor lists.
GraphInv ==
  /\ phase \notin {"idle", "failed"} => Starts # {}
  /\ Built => \A b \in Starts : pred[b] = {p \in Starts : b \in Succs(p)}

\* What a loop has not touched yet is still empty.
FreshInv ==
  /\ phase \in {"idle", "failed", "edges"} => visited = {} /\ reachable = {}
  /\ phase \in {"idle", "failed", "edges"} =>
       pending = <<>> /\ frames = <<>> /\ DOMAIN dominators = {} /\ backEdges = {}
  /\ phase \in {"idle", "failed", "edges", "reach"} => dfsOrder = <<>>
  /\ phase \in {"idle", "failed", "edges", "reach", "preorder"} => postOrder = <<>>

\* A walk that has processed the blocks V and still has to look at the blocks P:
\* the entry is among them, successors of processed blocks are among them, and all
\* of them are in every set that control cannot leave.
WalkInv(V, P) ==
  /\ Entry \in V \cup P
  /\ \A b \in V : Succs(b) \subseteq V \cup P
  /\ \A S \in SUBSET Starts : ClosedUnderSuccessors(S) => V \cup P \subseteq S

\* A finished walk.
IsReachSet(V) == V \subseteq Starts /\ WalkInv(V, {})

ReachInv ==
  /\ phase = "reach" => visited = reachable /\ WalkInv(visited, ToSet(pending))
  /\ phase \in {"preorder", "postorder", "dominators", "done"} => IsReachSet(reachable)

PreorderInv ==
  /\ phase = "preorder" =>
       visited = ToSet(dfsOrder) /\ WalkInv(visited, ToSet(pending))
  /\ phase \in {"postorder", "dominators", "done"} => IsReachSet(ToSet(dfsOrder))

Frame == [address : Starts, nextSuccessor : Nat \ {0}]

FrameBlocks(F) == {f.address : f \in F}

\* The successors the frame has counted were visited.
CountedVisited(f, V) ==
  \A k \in 1 .. Len(succ[f.address]) :
    k < f.nextSuccessor => succ[f.address][k] \in V

PostorderInv ==
  /\ phase = "postorder" =>
       /\ visited = FrameBlocks(ToSet(frames)) \cup ToSet(postOrder)
       /\ Entry \in visited
       /\ \A b \in ToSet(postOrder) : Succs(b) \subseteq visited
       /\ \A f \in ToSet(frames) : CountedVisited(f, visited)
       /\ \A S \in SUBSET Starts : ClosedUnderSuccessors(S) => visited \subseteq S
  /\ phase \in {"dominators", "done"} => IsReachSet(ToSet(postOrder))

\* The dominator equation of b holds in the direction the fixpoint establishes.
Settled(b) ==
  b = Entry \/ \A p \in pred[b] \cap reachable : dominators[b] \subseteq dominators[p] \cup {b}

DominatorInv ==
  phase \in {"dominators", "done"} =>
    /\ DOMAIN dominators = reachable
    /\ dominators[Entry] = {Entry}
    /\ \A b \in reachable : b \in dominators[b] /\ dominators[b] \subseteq reachable
    /\ \A b \in reachable : b # Entry => MeetOverPreds(b) \subseteq dominators[b]
    /\ \A b \in reachable, d \in reachable : OnEveryPath(d, b) => d \in dominators[b]
    /\ ~ changed => \A i \in 1 .. Len(postOrder) :
                      i < position => Settled(ReversePostOrder(i))
    /\ phase = "done" => ~ changed /\ position > Len(postOrder)

IInv == TypeOK /\ GraphInv /\ FreshInv /\ ReachInv /\ PreorderInv
          /\ PostorderInv /\ DominatorInv

--------------------------------------------------------------------------------
(***************************************************************************)
(* Facts about the graph.                                                  *)
(***************************************************************************)

LEMMA AddressNat == Address \subseteq Nat /\ NoAddress \notin Address
BY MaxAddressAssumption, NoAddressAssumption DEF Address

LEMMA EntryInStarts ==
  ASSUME Starts \subseteq Address, Starts # {}
  PROVE  Entry \in Starts
<1>1. \E b \in Starts : \A c \in Starts : b <= c
  BY AddressNat, LeastElement, Starts \in SUBSET Nat
<1> QED BY <1>1 DEF Entry

LEMMA SuccessorsType ==
  ASSUME TypeOK, NEW b \in Starts
  PROVE  Successors(b) \in Seq(Starts)
<1>1. FallThrough(b) \in Seq(Starts)
  <2>1. CASE Following(b) = {}
    BY <2>1 DEF FallThrough
  <2>2. CASE Following(b) # {}
    <3>1. (CHOOSE c \in Following(b) : TRUE) \in Starts
      BY <2>2 DEF Following
    <3> QED BY <2>2, <3>1 DEF FallThrough
  <2> QED BY <2>1, <2>2
<1>2. DirectTarget(b) \in Seq(Starts)
  BY DEF DirectTarget
<1>3. DirectTarget(b) \o FallThrough(b) \in Seq(Starts)
  BY <1>1, <1>2
<1> QED BY <1>1, <1>2, <1>3 DEF Successors

LEMMA ReachSetUnique ==
  ASSUME NEW V, NEW W, IsReachSet(V), IsReachSet(W)
  PROVE  V = W
<1>1. ClosedUnderSuccessors(V) /\ ClosedUnderSuccessors(W)
  BY DEF IsReachSet, WalkInv, ClosedUnderSuccessors
<1> QED BY <1>1 DEF IsReachSet, WalkInv

LEMMA ReachSetExact ==
  ASSUME NEW V, IsReachSet(V)
  PROVE  V = {b \in Starts : Reaches(b)}
<1>1. ClosedUnderSuccessors(V) /\ V \in SUBSET Starts
  BY DEF IsReachSet, WalkInv, ClosedUnderSuccessors
<1>2. \A b \in V : b \in Starts /\ Reaches(b)
  BY DEF IsReachSet, WalkInv, Reaches
<1>3. \A b \in Starts : Reaches(b) => b \in V
  BY <1>1 DEF Reaches
<1> QED BY <1>2, <1>3

(***************************************************************************)
(* One iteration of a preorder walk: taking a block off the stack and      *)
(* either dropping it or pushing its successors keeps the walk invariant.  *)
(***************************************************************************)
LEMMA WalkSkips ==
  ASSUME NEW V, NEW P \in Seq(Starts), P # <<>>, Head(P) \in V,
         WalkInv(V, ToSet(P))
  PROVE  WalkInv(V, ToSet(Tail(P)))
<1>1. ToSet(P) = {Head(P)} \cup ToSet(Tail(P))
  BY ToSetTail
<1>2. V \cup ToSet(P) = V \cup ToSet(Tail(P))
  BY <1>1
<1> QED BY <1>2 DEF WalkInv

LEMMA WalkAdvances ==
  ASSUME NEW V, NEW P \in Seq(Starts), P # <<>>,
         succ[Head(P)] \in Seq(Starts),
         WalkInv(V, ToSet(P))
  PROVE  WalkInv(V \cup {Head(P)}, ToSet(succ[Head(P)] \o Tail(P)))
<1> DEFINE h == Head(P)
<1>1. ToSet(P) = {h} \cup ToSet(Tail(P)) /\ Tail(P) \in Seq(Starts)
  BY ToSetTail
<1>2. ToSet(succ[h] \o Tail(P)) = Succs(h) \cup ToSet(Tail(P))
  <2>1. succ[h] \in Seq(Starts) /\ Tail(P) \in Seq(Starts)
    BY <1>1
  <2> HIDE DEF h
  <2>2. ToSet(succ[h] \o Tail(P)) = ToSet(succ[h]) \cup ToSet(Tail(P))
    BY ONLY <2>1, ToSetConcat
  <2> QED BY <2>2 DEF Succs
<1>3. V \cup ToSet(P) \subseteq (V \cup {h}) \cup ToSet(succ[h] \o Tail(P))
  BY <1>1, <1>2
<1>4. Entry \in (V \cup {h}) \cup ToSet(succ[h] \o Tail(P))
  BY <1>3 DEF WalkInv
<1>5. \A b \in V \cup {h} : Succs(b) \subseteq (V \cup {h}) \cup ToSet(succ[h] \o Tail(P))
  BY <1>2, <1>3 DEF WalkInv
<1>6. ASSUME NEW S \in SUBSET Starts, ClosedUnderSuccessors(S)
      PROVE  (V \cup {h}) \cup ToSet(succ[h] \o Tail(P)) \subseteq S
  <2>1. V \cup ToSet(P) \subseteq S
    BY <1>6 DEF WalkInv
  <2>2. Succs(h) \subseteq S
    BY <1>6, <1>1, <2>1 DEF ClosedUnderSuccessors
  <2> QED BY <1>1, <1>2, <2>1, <2>2
<1> QED BY <1>4, <1>5, <1>6 DEF WalkInv

(***************************************************************************)
(* Once the edges are built the graph does not change, and neither does    *)
(* anything that is defined from it.                                       *)
(***************************************************************************)
LEMMA GraphStable ==
  ASSUME UNCHANGED graphVars
  PROVE  /\ Starts' = Starts /\ Entry' = Entry
         /\ \A b : Succs(b)' = Succs(b)
         /\ \A S : ClosedUnderSuccessors(S)' <=> ClosedUnderSuccessors(S)
         /\ \A V, P : WalkInv(V, P)' <=> WalkInv(V, P)
         /\ \A V : IsReachSet(V)' <=> IsReachSet(V)
         /\ \A d, b : OnEveryPath(d, b)' <=> OnEveryPath(d, b)
         /\ \A f, V : CountedVisited(f, V)' <=> CountedVisited(f, V)
BY DEF graphVars, Starts, Entry, Succs, ClosedUnderSuccessors, WalkInv, IsReachSet,
       OnEveryPath, ClosedAvoiding, CountedVisited

LEMMA GraphInvStable ==
  ASSUME GraphInv, UNCHANGED graphVars, phase \notin {"idle", "failed", "edges"}
  PROVE  GraphInv'
BY GraphStable DEF GraphInv, Built, graphVars

--------------------------------------------------------------------------------
(***************************************************************************)
(* Validation and edges.                                                   *)
(***************************************************************************)

LEMMA InitHolds == Init => IInv
<1> SUFFICES ASSUME Init PROVE IInv
  OBVIOUS
<1> USE DEF Init
<1>1. Starts = {}
  BY DEF Starts
<1>2. TypeOK
  <2>1. block \in [Starts -> Block] /\ dominators \in [DOMAIN dominators -> SUBSET Starts]
    BY <1>1, EmptyFunction
  <2>2. pending \in Seq(Starts) /\ frames \in Seq([address : Starts, nextSuccessor : Nat \ {0}])
    BY EmptyFunction
  <2>3. dfsOrder \in Seq(Starts) /\ postOrder \in Seq(Starts) /\ DOMAIN dominators = {}
    BY EmptyFunction
  <2>4. /\ phase = "idle" /\ ~ Built /\ reachable = {} /\ visited = {} /\ backEdges = {}
        /\ position = 1
    BY DEF Built
  <2>5. changed \in BOOLEAN
    BY Zenon
  <2> HIDE DEF Init
  <2> QED BY ONLY <1>1, <2>1, <2>2, <2>3, <2>4, <2>5 DEF TypeOK
<1>3. GraphInv /\ FreshInv /\ ReachInv /\ PreorderInv /\ PostorderInv /\ DominatorInv
  BY DEF GraphInv, Built, FreshInv, ReachInv, PreorderInv, PostorderInv, DominatorInv
<1> QED BY <1>2, <1>3 DEF IInv

LEMMA RejectStep ==
  ASSUME IInv, NEW in \in Inputs, RejectBlocks(in)
  PROVE  IInv'
<1> USE DEF RejectBlocks, graphVars, walkVars, loopVars
<1>1. TypeOK'
  BY DEF IInv, TypeOK, Built, Starts
<1>2. (GraphInv /\ FreshInv /\ ReachInv /\ PreorderInv /\ PostorderInv /\ DominatorInv)'
  BY DEF IInv, GraphInv, Built, FreshInv, ReachInv, PreorderInv, PostorderInv, DominatorInv
<1> QED BY <1>1, <1>2 DEF IInv

LEMMA IndexStep ==
  ASSUME IInv, NEW in \in Inputs, IndexBlocks(in)
  PROVE  IInv'
<1> USE DEF IndexBlocks, walkVars, loopVars
<1>1. in \in Seq(Block) /\ in # <<>>
  BY InputsAssumption DEF Accepted
<1> DEFINE S == {in[i].start : i \in 1 .. Len(in)}
           First(a) == CHOOSE i \in 1 .. Len(in) : in[i].start = a
<1>2. S \subseteq Address /\ S # {}
  <2>1. \A i \in 1 .. Len(in) : in[i] \in Block /\ in[i].start \in Address
    <3>1. \A b \in Block : b.start \in Address
      BY DEF Block
    <3> QED BY <1>1, <3>1
  <2>2. 1 \in 1 .. Len(in)
    BY <1>1
  <2> QED BY <2>1, <2>2
<1>3. \A a \in S : in[First(a)] \in Block
  <2> TAKE a \in S
  <2>1. First(a) \in 1 .. Len(in)
    OBVIOUS
  <2> QED BY <1>1, <2>1
<1>4. block' = [a \in S |-> in[First(a)]]
  OBVIOUS
<1>5. Starts' = S /\ block' \in [S -> Block]
  BY <1>3, <1>4 DEF Starts
<1>6. /\ visited = {} /\ reachable = {} /\ dfsOrder = <<>> /\ postOrder = <<>>
      /\ pending = <<>> /\ frames = <<>> /\ DOMAIN dominators = {} /\ backEdges = {}
  BY DEF IInv, FreshInv
<1>7. TypeOK'
  <2>1. /\ phase' = "edges" /\ ~ Built'
        /\ UNCHANGED <<reachable, pending, visited, dfsOrder, frames, postOrder,
                       dominators, position, changed, backEdges>>
    BY DEF Built
  <2>2. dominators \in [DOMAIN dominators -> SUBSET Starts] /\ DOMAIN dominators = {}
    BY <1>6 DEF IInv, TypeOK
  <2>3. dominators \in [DOMAIN dominators -> SUBSET S]
    BY <2>2
  <2>4. position \in Nat \ {0} /\ changed \in BOOLEAN
    BY DEF IInv, TypeOK
  <2> HIDE DEF S, IndexBlocks
  <2> QED BY <1>2, <1>5, <1>6, <2>1, <2>3, <2>4 DEF TypeOK
<1>8. GraphInv'
  BY <1>2, <1>5 DEF GraphInv, Built
<1>9. (FreshInv /\ ReachInv /\ PreorderInv /\ PostorderInv /\ DominatorInv)'
  BY DEF IInv, FreshInv, ReachInv, PreorderInv, PostorderInv, DominatorInv
<1> QED BY <1>7, <1>8, <1>9 DEF IInv

LEMMA EdgesStep ==
  ASSUME IInv, BuildEdges
  PROVE  IInv'
<1> USE DEF BuildEdges
<1>1. /\ phase = "edges" /\ phase' = "reach" /\ pending' = <<Entry>>
      /\ UNCHANGED <<block, reachable, visited, dfsOrder, frames, postOrder, loopVars>>
  OBVIOUS
<1>2. Starts' = Starts /\ Entry' = Entry
  BY <1>1 DEF Starts, Entry
<1>3. TypeOK /\ Starts # {} /\ visited = {} /\ reachable = {}
  BY <1>1 DEF IInv, GraphInv, FreshInv
<1>4. Entry \in Starts
  BY <1>3, EntryInStarts DEF TypeOK
<1>5. succ' \in [Starts -> Seq(Starts)]
  BY <1>3, SuccessorsType
<1>6. \A b \in Starts : succ'[b] = Successors(b) /\ Succs(b)' = ToSet(Successors(b))
  BY DEF Succs
<1>7. pred' \in [Starts -> SUBSET Starts]
  OBVIOUS
<1>8. <<Entry>> \in Seq(Starts) /\ ToSet(<<Entry>>) = {Entry}
  BY <1>4, ToSetSingle
<1>9. TypeOK'
  <2> HIDE DEF BuildEdges
  <2> QED BY <1>1, <1>2, <1>3, <1>5, <1>7, <1>8 DEF TypeOK, loopVars
<1>10. GraphInv'
  <2>1. \A b \in Starts : pred'[b] = {p \in Starts : b \in ToSet(Successors(p))}
    OBVIOUS
  <2> HIDE DEF BuildEdges
  <2> QED BY <1>1, <1>2, <1>3, <1>6, <2>1 DEF GraphInv
<1>11. ReachInv'
  <2>1. WalkInv(visited, ToSet(pending))'
    <3> HIDE DEF BuildEdges
    <3> QED BY <1>1, <1>2, <1>3, <1>8 DEF WalkInv, ClosedUnderSuccessors
  <2> HIDE DEF BuildEdges
  <2> QED BY <1>1, <1>3, <2>1 DEF ReachInv
<1>12. (FreshInv /\ PreorderInv /\ PostorderInv /\ DominatorInv)'
  <2> HIDE DEF BuildEdges
  <2> QED BY <1>1 DEF IInv, FreshInv, PreorderInv, PostorderInv, DominatorInv
<1> QED BY <1>9, <1>10, <1>11, <1>12 DEF IInv

--------------------------------------------------------------------------------
(***************************************************************************)
(* The two preorder walks.                                                 *)
(***************************************************************************)

LEMMA SuccType ==
  ASSUME TypeOK, Built, NEW b \in Starts
  PROVE  succ[b] \in Seq(Starts)
BY DEF TypeOK

LEMMA ReachBlockStep ==
  ASSUME IInv, ReachBlock
  PROVE  IInv'
<1>1. /\ phase = "reach" /\ phase' = "reach" /\ pending # <<>> /\ Built
      /\ UNCHANGED <<graphVars, dfsOrder, frames, postOrder, loopVars>>
  BY DEF ReachBlock, Built
<1>2. /\ visited = reachable /\ WalkInv(visited, ToSet(pending)) /\ pending \in Seq(Starts)
      /\ visited \subseteq Starts /\ TypeOK
  BY <1>1 DEF IInv, ReachInv, TypeOK
<1>3. Head(pending) \in Starts /\ Tail(pending) \in Seq(Starts)
  BY <1>1, <1>2
<1>4. succ[Head(pending)] \in Seq(Starts)
  BY <1>1, <1>2, <1>3, SuccType
<1>5. /\ visited' = reachable' /\ WalkInv(visited', ToSet(pending'))
      /\ visited' \subseteq Starts /\ pending' \in Seq(Starts)
  <2>1. CASE Head(pending) \in visited
    <3>1. WalkInv(visited, ToSet(Tail(pending)))
      BY <2>1, <1>1, <1>2, WalkSkips
    <3>2. UNCHANGED <<visited, reachable>> /\ pending' = Tail(pending)
      BY <2>1 DEF ReachBlock
    <3> QED BY <1>2, <1>3, <3>1, <3>2
  <2>2. CASE Head(pending) \notin visited
    <3>1. WalkInv(visited \cup {Head(pending)}, ToSet(succ[Head(pending)] \o Tail(pending)))
      BY <1>1, <1>2, <1>4, WalkAdvances
    <3>2. /\ visited' = visited \cup {Head(pending)}
          /\ reachable' = reachable \cup {Head(pending)}
          /\ pending' = succ[Head(pending)] \o Tail(pending)
      BY <2>2 DEF ReachBlock
    <3>3. pending' \in Seq(Starts)
      BY <1>3, <1>4, <3>2, ToSetConcat
    <3> QED BY <1>2, <1>3, <3>1, <3>2, <3>3
  <2> QED BY <2>1, <2>2
<1>6. TypeOK'
  BY <1>1, <1>2, <1>5, GraphStable DEF TypeOK, graphVars, loopVars, Built
<1>7. ReachInv'
  BY <1>1, <1>5, GraphStable DEF ReachInv
<1>8. GraphInv'
  BY <1>1, GraphInvStable DEF IInv
<1>9. (FreshInv /\ PreorderInv /\ PostorderInv /\ DominatorInv)'
  BY <1>1 DEF IInv, FreshInv, PreorderInv, PostorderInv, DominatorInv
<1> QED BY <1>6, <1>7, <1>8, <1>9 DEF IInv

\* The walk is over and the next one starts.
LEMMA WalkStarts ==
  ASSUME TypeOK, Starts # {}
  PROVE  /\ Entry \in Starts /\ <<Entry>> \in Seq(Starts)
         /\ ToSet(<<Entry>>) = {Entry} /\ WalkInv({}, ToSet(<<Entry>>))
<1>1. Entry \in Starts
  BY EntryInStarts DEF TypeOK
<1>2. <<Entry>> \in Seq(Starts) /\ ToSet(<<Entry>>) = {Entry}
  BY <1>1, ToSetSingle
<1>3. WalkInv({}, {Entry})
  BY DEF WalkInv, ClosedUnderSuccessors
<1> QED BY <1>1, <1>2, <1>3

LEMMA StartPreorderStep ==
  ASSUME IInv, StartPreorder
  PROVE  IInv'
<1>1. /\ phase = "reach" /\ phase' = "preorder" /\ Built
      /\ pending = <<>> /\ visited' = {} /\ pending' = <<Entry>>
      /\ UNCHANGED <<graphVars, reachable, dfsOrder, frames, postOrder, loopVars>>
  BY DEF StartPreorder, Built
<1>2. /\ TypeOK /\ Starts # {} /\ dfsOrder = <<>>
      /\ visited = reachable /\ WalkInv(visited, ToSet(pending))
  BY <1>1 DEF IInv, GraphInv, ReachInv, FreshInv
<1>3. WalkInv(reachable, {}) /\ reachable \subseteq Starts
  BY <1>1, <1>2, ToSetEmpty DEF TypeOK
<1>4. TypeOK'
  BY <1>1, <1>2, GraphStable, WalkStarts DEF TypeOK, graphVars, loopVars, Built
<1>5. ReachInv'
  BY <1>1, <1>3, GraphStable DEF ReachInv, IsReachSet
<1>6. PreorderInv'
  <2>1. visited' = ToSet(dfsOrder')
    BY <1>1, <1>2, ToSetEmpty
  <2>2. WalkInv({}, ToSet(<<Entry>>))
    BY <1>2, WalkStarts
  <2> QED BY <1>1, <2>1, <2>2, GraphStable DEF PreorderInv
<1>7. GraphInv'
  BY <1>1, GraphInvStable DEF IInv
<1>8. (FreshInv /\ PostorderInv /\ DominatorInv)'
  BY <1>1 DEF IInv, FreshInv, PostorderInv, DominatorInv
<1> QED BY <1>4, <1>5, <1>6, <1>7, <1>8 DEF IInv

LEMMA PreorderBlockStep ==
  ASSUME IInv, PreorderBlock
  PROVE  IInv'
<1>1. /\ phase = "preorder" /\ phase' = "preorder" /\ pending # <<>> /\ Built
      /\ UNCHANGED <<graphVars, reachable, frames, postOrder, loopVars>>
  BY DEF PreorderBlock, Built
<1>2. /\ visited = ToSet(dfsOrder) /\ WalkInv(visited, ToSet(pending))
      /\ pending \in Seq(Starts) /\ dfsOrder \in Seq(Starts)
      /\ visited \subseteq Starts /\ TypeOK
  BY <1>1 DEF IInv, PreorderInv, TypeOK
<1>3. Head(pending) \in Starts /\ Tail(pending) \in Seq(Starts)
  BY <1>1, <1>2
<1>4. succ[Head(pending)] \in Seq(Starts)
  BY <1>1, <1>2, <1>3, SuccType
<1>5. /\ visited' = ToSet(dfsOrder') /\ WalkInv(visited', ToSet(pending'))
      /\ visited' \subseteq Starts /\ pending' \in Seq(Starts) /\ dfsOrder' \in Seq(Starts)
  <2>1. CASE Head(pending) \in visited
    <3>1. WalkInv(visited, ToSet(Tail(pending)))
      BY <2>1, <1>1, <1>2, WalkSkips
    <3>2. UNCHANGED <<visited, dfsOrder>> /\ pending' = Tail(pending)
      BY <2>1 DEF PreorderBlock
    <3> QED BY <1>2, <1>3, <3>1, <3>2
  <2>2. CASE Head(pending) \notin visited
    <3>1. WalkInv(visited \cup {Head(pending)}, ToSet(succ[Head(pending)] \o Tail(pending)))
      BY <1>1, <1>2, <1>4, WalkAdvances
    <3>2. /\ visited' = visited \cup {Head(pending)}
          /\ dfsOrder' = Append(dfsOrder, Head(pending))
          /\ pending' = succ[Head(pending)] \o Tail(pending)
      BY <2>2 DEF PreorderBlock
    <3>3. pending' \in Seq(Starts)
      BY <1>3, <1>4, <3>2, ToSetConcat
    <3>4. dfsOrder' \in Seq(Starts) /\ ToSet(dfsOrder') = visited \cup {Head(pending)}
      BY <1>2, <1>3, <3>2, ToSetAppend
    <3> QED BY <1>2, <1>3, <3>1, <3>2, <3>3, <3>4
  <2> QED BY <2>1, <2>2
<1>6. TypeOK'
  BY <1>1, <1>2, <1>5, GraphStable DEF TypeOK, graphVars, loopVars, Built
<1>7. PreorderInv'
  BY <1>1, <1>5, GraphStable DEF PreorderInv
<1>8. GraphInv'
  BY <1>1, GraphInvStable DEF IInv
<1>9. (FreshInv /\ ReachInv /\ PostorderInv /\ DominatorInv)'
  BY <1>1, GraphStable DEF IInv, FreshInv, ReachInv, PostorderInv, DominatorInv
<1> QED BY <1>6, <1>7, <1>8, <1>9 DEF IInv

--------------------------------------------------------------------------------
(***************************************************************************)
(* The postorder walk.                                                     *)
(***************************************************************************)

LEMMA StartPostorderStep ==
  ASSUME IInv, StartPostorder
  PROVE  IInv'
<1> DEFINE first == [address |-> Entry, nextSuccessor |-> 1]
<1>1. /\ phase = "preorder" /\ phase' = "postorder" /\ Built /\ pending = <<>>
      /\ visited' = {Entry} /\ frames' = <<first>>
      /\ UNCHANGED <<graphVars, reachable, pending, dfsOrder, postOrder, loopVars>>
  BY DEF StartPostorder, Built
<1>2. /\ TypeOK /\ Starts # {} /\ postOrder = <<>> /\ dfsOrder \in Seq(Starts)
      /\ visited = ToSet(dfsOrder) /\ WalkInv(visited, ToSet(pending))
  BY <1>1 DEF IInv, GraphInv, PreorderInv, FreshInv, TypeOK
<1>3. WalkInv(ToSet(dfsOrder), {}) /\ ToSet(dfsOrder) \subseteq Starts
  BY <1>1, <1>2, ToSetEmpty, ToSetSubset
<1>4. Entry \in Starts /\ first \in Frame
  BY <1>2, WalkStarts DEF Frame
<1>5. <<first>> \in Seq(Frame)
  BY <1>4
<1>6. TypeOK'
  BY <1>1, <1>2, <1>4, <1>5, GraphStable DEF TypeOK, graphVars, loopVars, Built, Frame
<1>7. PreorderInv'
  BY <1>1, <1>3, GraphStable DEF PreorderInv, IsReachSet
<1>8. PostorderInv'
  <2>1. ToSet(frames') = {first}
    BY <1>1, <1>4, ToSetSingle
  <2>2. FrameBlocks(ToSet(frames'))= {Entry}
    BY <2>1 DEF FrameBlocks
  <2>3. ToSet(postOrder') = {}
    BY <1>1, <1>2, ToSetEmpty
  <2>4. \A f \in ToSet(frames') : CountedVisited(f, {Entry})'
    BY <2>1 DEF CountedVisited
  <2>5. \A S \in SUBSET Starts : ClosedUnderSuccessors(S) => {Entry} \subseteq S
    BY DEF ClosedUnderSuccessors
  <2> HIDE DEF first
  <2> QED BY <1>1, <2>2, <2>3, <2>4, <2>5, GraphStable DEF PostorderInv
<1>9. GraphInv'
  BY <1>1, GraphInvStable DEF IInv
<1>10. (FreshInv /\ ReachInv /\ DominatorInv)'
  BY <1>1, GraphStable DEF IInv, FreshInv, ReachInv, DominatorInv
<1> QED BY <1>6, <1>7, <1>8, <1>9, <1>10 DEF IInv

LEMMA FrameBlocksUnion ==
  ASSUME NEW f, NEW F
  PROVE  FrameBlocks({f} \cup F) = {f.address} \cup FrameBlocks(F)
BY DEF FrameBlocks

LEMMA DescendFrameStep ==
  ASSUME IInv, DescendFrame
  PROVE  IInv'
<1> DEFINE h == Top.address
           n == Top.nextSuccessor
           s == succ[h][n]
           next == [address |-> h, nextSuccessor |-> n + 1]
           new == [address |-> s, nextSuccessor |-> 1]
           rest == ToSet(Tail(frames))
<1>1. /\ phase = "postorder" /\ phase' = "postorder" /\ Built /\ frames # <<>>
      /\ n <= Len(succ[h])
      /\ UNCHANGED <<graphVars, reachable, pending, dfsOrder, postOrder, loopVars>>
  BY DEF DescendFrame, Built
<1>2. /\ TypeOK /\ visited = FrameBlocks(ToSet(frames)) \cup ToSet(postOrder)
      /\ \A f \in ToSet(frames) : CountedVisited(f, visited)
      /\ visited \subseteq Starts /\ frames \in Seq(Frame) /\ postOrder \in Seq(Starts)
  BY <1>1 DEF IInv, PostorderInv, TypeOK, Frame
<1>3. /\ Top \in Frame /\ Tail(frames) \in Seq(Frame)
      /\ ToSet(frames) = {Top} \cup rest
  BY <1>1, <1>2, ToSetTail DEF Top
<1>4. /\ h \in Starts /\ n \in Nat \ {0} /\ next \in Frame
      /\ [Top EXCEPT !.nextSuccessor = @ + 1] = next
  BY <1>3 DEF Frame
<1>5. succ[h] \in Seq(Starts) /\ n \in 1 .. Len(succ[h]) /\ s \in Starts
  <2>1. succ[h] \in Seq(Starts)
    BY <1>1, <1>2, <1>4, SuccType
  <2>2. n \in 1 .. Len(succ[h])
    BY <1>1, <1>4, <2>1
  <2> QED BY <2>1, <2>2
<1>6. new \in Frame
  BY <1>5 DEF Frame
<1>7. h \in visited /\ CountedVisited(Top, visited)
  BY <1>2, <1>3 DEF FrameBlocks
<1>8. <<next>> \o Tail(frames) \in Seq(Frame)
      /\ ToSet(<<next>> \o Tail(frames)) = {next} \cup rest
  <2>1. next \in Frame /\ Tail(frames) \in Seq(Frame)
    BY <1>3, <1>4
  <2> HIDE DEF next
  <2> QED BY <2>1, ToSetPush
<1>9. /\ visited' = visited \cup {s} /\ frames' \in Seq(Frame)
      /\ \/ s \in visited /\ ToSet(frames') = {next} \cup rest
         \/ ToSet(frames') = {new} \cup ({next} \cup rest)
  <2>1. CASE s \in visited
    <3>1. visited' = visited /\ frames' = <<next>> \o Tail(frames)
      BY <1>4, <2>1 DEF DescendFrame
    <3> QED BY <1>8, <2>1, <3>1
  <2>2. CASE s \notin visited
    <3>1. visited' = visited \cup {s} /\ frames' = <<new>> \o (<<next>> \o Tail(frames))
      BY <1>4, <2>2 DEF DescendFrame
    <3> DEFINE t == <<next>> \o Tail(frames)
    <3>2. t \in Seq(Frame) /\ ToSet(t) = {next} \cup rest
      BY <1>8
    <3>3. visited' = visited \cup {s} /\ frames' = <<new>> \o t
      BY <3>1
    <3> HIDE DEF new, next, rest, t, s
    <3>4. <<new>> \o t \in Seq(Frame) /\ ToSet(<<new>> \o t) = {new} \cup ({next} \cup rest)
      BY <1>6, <3>2, ToSetPush
    <3> QED BY <3>3, <3>4
  <2> QED BY <2>1, <2>2
<1>10. TypeOK'
  BY <1>1, <1>2, <1>5, <1>9, GraphStable DEF TypeOK, graphVars, loopVars, Built, Frame
<1>11. FrameBlocks(ToSet(frames')) \cup ToSet(postOrder) = visited'
  <2>1. next.address = h /\ new.address = s
    OBVIOUS
  <2> HIDE DEF new, next, rest, s
  <2>2. FrameBlocks({next} \cup rest) = {h} \cup FrameBlocks(rest)
    BY <2>1, FrameBlocksUnion
  <2>3. FrameBlocks(ToSet(frames)) = {h} \cup FrameBlocks(rest)
    BY <1>3, FrameBlocksUnion
  <2>4. FrameBlocks({new} \cup ({next} \cup rest)) = {s} \cup FrameBlocks({next} \cup rest)
    BY <2>1, FrameBlocksUnion
  <2> QED BY <1>2, <1>9, <2>2, <2>3, <2>4
<1>12. \A f \in ToSet(frames') : CountedVisited(f, visited')
  <2>1. \A f \in ToSet(frames) : CountedVisited(f, visited')
    BY <1>2, <1>9 DEF CountedVisited
  <2>2. CountedVisited(next, visited')
    <3> SUFFICES ASSUME NEW k \in 1 .. Len(succ[h]), k < n + 1
                 PROVE  succ[h][k] \in visited'
      BY DEF CountedVisited
    <3>1. CASE k < n
      BY <1>3, <2>1, <3>1 DEF CountedVisited
    <3>2. CASE k = n
      BY <1>9, <3>2
    <3> QED BY <1>4, <1>5, <3>1, <3>2
  <2>3. CountedVisited(new, visited')
    BY DEF CountedVisited
  <2> QED BY <1>3, <1>9, <2>1, <2>2, <2>3
<1>13. ASSUME NEW S \in SUBSET Starts, ClosedUnderSuccessors(S)
       PROVE  visited' \subseteq S
  <2>1. visited \subseteq S
    BY <1>1, <1>13 DEF IInv, PostorderInv
  <2>2. Succs(h) \subseteq S /\ s \in Succs(h)
    BY <1>5, <1>7, <1>13, <2>1, ToSetIndexed DEF ClosedUnderSuccessors, Succs
  <2> QED BY <1>9, <2>1, <2>2
<1>14. PostorderInv'
  <2>1. Entry \in visited /\ \A b \in ToSet(postOrder) : Succs(b) \subseteq visited
    BY <1>1 DEF IInv, PostorderInv
  <2>2. UNCHANGED postOrder
    BY <1>1
  <2>3. (\A f \in ToSet(frames) : CountedVisited(f, visited))'
    BY <1>1, <1>12 DEF CountedVisited, graphVars
  <2>4. Entry \in visited' /\ \A b \in ToSet(postOrder) : Succs(b) \subseteq visited'
    BY <1>9, <2>1
  <2> HIDE DEF s
  <2> QED BY <1>1, <1>11, <1>13, <2>2, <2>3, <2>4, GraphStable DEF PostorderInv
<1>15. GraphInv'
  BY <1>1, GraphInvStable DEF IInv
<1>16. (FreshInv /\ ReachInv /\ PreorderInv /\ DominatorInv)'
  BY <1>1, GraphStable DEF IInv, FreshInv, ReachInv, PreorderInv, DominatorInv
<1> QED BY <1>10, <1>14, <1>15, <1>16 DEF IInv

LEMMA FinishFrameStep ==
  ASSUME IInv, FinishFrame
  PROVE  IInv'
<1> DEFINE h == Top.address
           rest == ToSet(Tail(frames))
<1>1. /\ phase = "postorder" /\ phase' = "postorder" /\ Built /\ frames # <<>>
      /\ Top.nextSuccessor > Len(succ[h])
      /\ postOrder' = Append(postOrder, h) /\ frames' = Tail(frames)
      /\ UNCHANGED <<graphVars, reachable, pending, visited, dfsOrder, loopVars>>
  BY DEF FinishFrame, Built
<1>2. /\ TypeOK /\ visited = FrameBlocks(ToSet(frames)) \cup ToSet(postOrder)
      /\ \A f \in ToSet(frames) : CountedVisited(f, visited)
      /\ \A b \in ToSet(postOrder) : Succs(b) \subseteq visited
      /\ visited \subseteq Starts /\ frames \in Seq(Frame) /\ postOrder \in Seq(Starts)
  BY <1>1 DEF IInv, PostorderInv, TypeOK, Frame
<1>3. /\ Top \in Frame /\ Tail(frames) \in Seq(Frame)
      /\ ToSet(frames) = {Top} \cup rest
  BY <1>1, <1>2, ToSetTail DEF Top
<1>4. h \in Starts /\ Top.nextSuccessor \in Nat
  BY <1>3 DEF Frame
<1>5. succ[h] \in Seq(Starts)
  BY <1>1, <1>2, <1>4, SuccType
<1>6. ToSet(postOrder') = ToSet(postOrder) \cup {h} /\ postOrder' \in Seq(Starts)
  BY <1>1, <1>2, <1>4, ToSetAppend
<1>7. FrameBlocks(ToSet(frames)) = {h} \cup FrameBlocks(rest)
  BY <1>3, FrameBlocksUnion
<1>8. Succs(h) \subseteq visited
  <2>1. CountedVisited(Top, visited)
    BY <1>2, <1>3
  <2>2. \A k \in 1 .. Len(succ[h]) : k < Top.nextSuccessor
    BY <1>1, <1>4, <1>5
  <2>3. \A k \in 1 .. Len(succ[h]) : succ[h][k] \in visited
    BY <2>1, <2>2 DEF CountedVisited
  <2> QED BY <2>3, <1>5, ToSetIndexed DEF Succs
<1>9. TypeOK'
  BY <1>1, <1>2, <1>3, <1>6, GraphStable DEF TypeOK, graphVars, loopVars, Built, Frame
<1>10. PostorderInv'
  <2>1. /\ visited = FrameBlocks(ToSet(frames')) \cup ToSet(postOrder')
        /\ \A b \in ToSet(postOrder') : Succs(b) \subseteq visited
    <3> HIDE DEF h
    <3> QED BY <1>1, <1>2, <1>6, <1>7, <1>8
  <2>2. (\A f \in ToSet(frames) : CountedVisited(f, visited))'
    BY <1>1, <1>2, <1>3 DEF CountedVisited, graphVars
  <2>3. Entry \in visited /\ \A S \in SUBSET Starts : ClosedUnderSuccessors(S) => visited \subseteq S
    BY <1>1 DEF IInv, PostorderInv
  <2>4. /\ phase' = "postorder" /\ UNCHANGED visited /\ UNCHANGED graphVars
        /\ Entry' = Entry /\ Starts' = Starts
        /\ \A b : Succs(b)' = Succs(b)
        /\ \A S : ClosedUnderSuccessors(S)' <=> ClosedUnderSuccessors(S)
    BY <1>1, GraphStable
  <2> HIDE DEF h, rest
  <2> QED BY ONLY <2>1, <2>2, <2>3, <2>4 DEF PostorderInv
<1>11. GraphInv'
  BY <1>1, GraphInvStable DEF IInv
<1>12. (FreshInv /\ ReachInv /\ PreorderInv /\ DominatorInv)'
  BY <1>1, GraphStable DEF IInv, FreshInv, ReachInv, PreorderInv, DominatorInv
<1> QED BY <1>9, <1>10, <1>11, <1>12 DEF IInv

--------------------------------------------------------------------------------
(***************************************************************************)
(* Dominators.                                                             *)
(***************************************************************************)

\* A block on every path to b is on every path to each predecessor of b.
LEMMA PathThroughPred ==
  ASSUME NEW b, NEW p, NEW d, b \in Succs(p), OnEveryPath(d, b), d # b
  PROVE  OnEveryPath(d, p)
<1>1. CASE d = Entry
  BY <1>1 DEF OnEveryPath
<1>2. CASE d # Entry
  <2>1. PICK S \in SUBSET Starts : b \notin S /\ d \notin S /\ ClosedAvoiding(S, d)
    BY <1>2 DEF OnEveryPath
  <2>2. p \notin S
    BY <2>1 DEF ClosedAvoiding
  <2> QED BY <2>1, <2>2 DEF OnEveryPath
<1> QED BY <1>1, <1>2

\* Only the entry is on every path to the entry.
LEMMA EntryDominatesItself ==
  ASSUME NEW d, OnEveryPath(d, Entry)
  PROVE  d = Entry
BY DEF OnEveryPath, ClosedAvoiding

\* The three walks have found the same blocks.
LEMMA WalksAgree ==
  ASSUME IInv, phase \in {"dominators", "done"}
  PROVE  /\ reachable = ToSet(dfsOrder) /\ reachable = ToSet(postOrder)
         /\ IsReachSet(reachable) /\ Entry \in reachable /\ reachable \subseteq Starts
         /\ \A b \in Starts : ReachablePreds(b) = {p \in reachable : b \in Succs(p)}
<1>1. IsReachSet(reachable) /\ IsReachSet(ToSet(dfsOrder)) /\ IsReachSet(ToSet(postOrder))
  BY DEF IInv, ReachInv, PreorderInv, PostorderInv
<1>2. reachable = ToSet(dfsOrder) /\ reachable = ToSet(postOrder)
  BY <1>1, ReachSetUnique
<1>3. Entry \in reachable /\ reachable \subseteq Starts
  BY <1>1 DEF IsReachSet, WalkInv
<1>4. \A b \in Starts : pred[b] = {p \in Starts : b \in Succs(p)}
  BY DEF IInv, GraphInv, Built
<1> QED BY <1>1, <1>2, <1>3, <1>4 DEF ReachablePreds

\* The block the dominator loop is at is a reachable one.
LEMMA CurrentBlock ==
  ASSUME IInv, phase \in {"dominators", "done"}, NEW i \in 1 .. Len(postOrder)
  PROVE  ReversePostOrder(i) \in reachable
<1>1. postOrder \in Seq(Starts) /\ reachable = ToSet(postOrder)
  BY WalksAgree DEF IInv, TypeOK
<1>2. Len(postOrder) + 1 - i \in 1 .. Len(postOrder)
  BY <1>1
<1> QED BY <1>1, <1>2, ToSetIndexed DEF ReversePostOrder

LEMMA InitDominatorsStep ==
  ASSUME IInv, InitDominators
  PROVE  IInv'
<1> USE DEF InitDominators
<1>1. /\ phase = "postorder" /\ phase' = "dominators" /\ Built /\ frames = <<>>
      /\ changed' = FALSE /\ position' = 1
      /\ UNCHANGED <<graphVars, walkVars, backEdges>>
  BY DEF Built
<1>2. TypeOK /\ postOrder \in Seq(Starts)
  BY DEF IInv, TypeOK
<1>3. IsReachSet(ToSet(postOrder))
  <2>1. FrameBlocks(ToSet(frames)) = {}
    BY <1>1, ToSetEmpty DEF FrameBlocks
  <2>2. ToSet(postOrder) = visited
    BY <1>1, <2>1 DEF IInv, PostorderInv
  <2> QED BY <1>1, <2>2 DEF IInv, PostorderInv, IsReachSet, WalkInv, TypeOK
<1>4. reachable = ToSet(dfsOrder) /\ IsReachSet(reachable)
  BY <1>1, ReachSetUnique DEF IInv, ReachInv, PreorderInv
<1>5. Entry \in reachable /\ reachable \subseteq Starts
  BY <1>4 DEF IsReachSet, WalkInv
<1>6. /\ dominators' = [b \in reachable |-> IF b = Entry THEN {b} ELSE reachable]
      /\ DOMAIN dominators' = reachable
      /\ dominators'[Entry] = {Entry}
      /\ \A b \in reachable : b # Entry => dominators'[b] = reachable
  BY <1>4, <1>5 DEF InitialDominators
<1> HIDE DEF InitDominators
<1>7. TypeOK'
  <2>1. dominators' \in [reachable -> SUBSET Starts]
    BY <1>5, <1>6
  <2>2. changed' \in BOOLEAN
    BY <1>1, Zenon
  <2> QED BY <1>1, <1>2, <1>5, <1>6, <2>1, <2>2, GraphStable
          DEF TypeOK, graphVars, walkVars, Built
<1>8. DominatorInv'
  <2>1. \A b \in reachable : b \in dominators'[b] /\ dominators'[b] \subseteq reachable
    BY <1>5, <1>6
  <2>2. \A b, d \in reachable : OnEveryPath(d, b) => d \in dominators'[b]
    BY <1>6, EntryDominatesItself
  <2>3. \A b \in reachable : MeetOverPreds(b)' \subseteq reachable
    BY <1>1, <1>4, <2>1 DEF MeetOverPreds, ReachablePreds, walkVars
  <2>4. \A b \in reachable : b # Entry => MeetOverPreds(b)' \subseteq dominators'[b]
    BY <1>6, <2>3
  <2>5. postOrder' \in Seq(Starts) /\ reachable' = reachable /\ Entry' = Entry
    BY <1>1, <1>2, GraphStable DEF walkVars
  <2>6. \A i \in 1 .. Len(postOrder') : ~ (i < position')
    BY <1>1, <2>5
  <2> QED BY <1>1, <1>6, <2>1, <2>2, <2>4, <2>5, <2>6, GraphStable DEF DominatorInv
<1>9. (ReachInv /\ PreorderInv /\ PostorderInv)'
  BY <1>1, <1>3, GraphStable DEF IInv, ReachInv, PreorderInv, PostorderInv, walkVars
<1>10. GraphInv'
  BY <1>1, GraphInvStable DEF IInv
<1>11. FreshInv'
  BY <1>1 DEF FreshInv
<1> QED BY <1>7, <1>8, <1>9, <1>10, <1>11 DEF IInv

\* Replacing the set of the current block by the meet keeps everything the fixpoint
\* relies on, and only removes blocks.
LEMMA RefineDominatorsStep ==
  ASSUME IInv, RefineDominators
  PROVE  /\ IInv'
         /\ \A b \in reachable : dominators'[b] \subseteq dominators[b]
<1> DEFINE b == ReversePostOrder(position)
           M == MeetOverPreds(b)
<1>1. /\ phase = "dominators" /\ phase' = "dominators" /\ Built
      /\ position <= Len(postOrder) /\ position' = position + 1
      /\ UNCHANGED <<graphVars, walkVars, backEdges>>
  BY DEF RefineDominators, Built
<1>2. /\ TypeOK /\ position \in Nat \ {0} /\ postOrder \in Seq(Starts)
      /\ dominators \in [reachable -> SUBSET Starts] /\ changed \in BOOLEAN
  BY <1>1 DEF IInv, TypeOK, DominatorInv
<1>3. /\ dominators[Entry] = {Entry}
      /\ \A x \in reachable : x \in dominators[x] /\ dominators[x] \subseteq reachable
      /\ \A x \in reachable : x # Entry => MeetOverPreds(x) \subseteq dominators[x]
      /\ \A x, d \in reachable : OnEveryPath(d, x) => d \in dominators[x]
      /\ ~ changed => \A i \in 1 .. Len(postOrder) :
                        i < position => Settled(ReversePostOrder(i))
  BY <1>1 DEF IInv, DominatorInv
<1>4. /\ Entry \in reachable /\ reachable \subseteq Starts
      /\ \A x \in Starts : ReachablePreds(x) = {p \in reachable : x \in Succs(p)}
      /\ \A x \in Starts : ReachablePreds(x) = pred[x] \cap reachable
  BY <1>1, WalksAgree DEF ReachablePreds
<1>5. b \in reachable
  <2>1. position \in 1 .. Len(postOrder)
    BY <1>1, <1>2
  <2> QED BY <1>1, <2>1, CurrentBlock
<1>6. \/ /\ b = Entry \/ ReachablePreds(b) = {} \/ M = dominators[b]
         /\ UNCHANGED <<dominators, changed>>
      \/ /\ b # Entry /\ ReachablePreds(b) # {}
         /\ dominators' = [dominators EXCEPT ![b] = M] /\ changed' = TRUE
  BY DEF RefineDominators
<1> HIDE DEF b
<1>7. /\ Starts' = Starts /\ Entry' = Entry /\ reachable' = reachable
      /\ UNCHANGED <<postOrder, pred, dfsOrder>>
      /\ \A i : ReversePostOrder(i)' = ReversePostOrder(i)
  BY <1>1, GraphStable DEF walkVars, graphVars, ReversePostOrder
<1>8. CASE UNCHANGED <<dominators, changed>>
           /\ (b = Entry \/ ReachablePreds(b) = {} \/ M = dominators[b])
  <2>1. Settled(b)
    <3>1. CASE b = Entry
      BY <3>1 DEF Settled
    <3>2. CASE ReachablePreds(b) = {}
      BY <3>2, <1>4, <1>5 DEF Settled
    <3>3. CASE M = dominators[b]
      <4>1. \A p \in ReachablePreds(b) : M \subseteq dominators[p] \cup {b}
        BY DEF MeetOverPreds
      <4> QED BY <3>3, <4>1, <1>4, <1>5 DEF Settled
    <3> QED BY <1>8, <3>1, <3>2, <3>3
  <2>2. \A i \in 1 .. Len(postOrder) :
          i < position + 1 /\ ~ changed => Settled(ReversePostOrder(i))
    BY <1>2, <1>3, <2>1 DEF b
  <2>3. \A x : Settled(x)' <=> Settled(x)
    BY <1>1, <1>7, <1>8 DEF Settled
  <2>4. \A x : MeetOverPreds(x)' = MeetOverPreds(x)
    BY <1>1, <1>7, <1>8 DEF MeetOverPreds, ReachablePreds
  <2>5. DominatorInv'
    <3>1. (~ changed => \A i \in 1 .. Len(postOrder) :
             i < position => Settled(ReversePostOrder(i)))'
      BY <1>1, <1>7, <1>8, <2>2, <2>3
    <3>2. DOMAIN dominators' = reachable'
      BY <1>2, <1>7, <1>8
    <3>3. (\A x, d \in reachable : OnEveryPath(d, x) => d \in dominators[x])'
      BY <1>1, <1>3, <1>7, <1>8, GraphStable
    <3>4. (\A x \in reachable : x \in dominators[x] /\ dominators[x] \subseteq reachable)'
      BY <1>3, <1>7, <1>8
    <3>5. (\A x \in reachable : x # Entry => MeetOverPreds(x) \subseteq dominators[x])'
      BY <1>3, <1>7, <1>8, <2>4
    <3>6. (dominators[Entry] = {Entry})'
      BY <1>3, <1>7, <1>8
    <3> QED BY <1>1, <3>1, <3>2, <3>3, <3>4, <3>5, <3>6 DEF DominatorInv
  <2>6. TypeOK'
    BY <1>1, <1>2, <1>7, <1>8 DEF TypeOK, graphVars, walkVars, Built
  <2> QED
    <3>1. (ReachInv /\ PreorderInv /\ PostorderInv)'
      BY <1>1, GraphStable DEF IInv, ReachInv, PreorderInv, PostorderInv, walkVars
    <3>2. GraphInv'
      BY <1>1, GraphInvStable DEF IInv
    <3>3. FreshInv'
      BY <1>1 DEF FreshInv
    <3> QED BY <1>8, <2>5, <2>6, <3>1, <3>2, <3>3 DEF IInv
<1>9. CASE b # Entry /\ ReachablePreds(b) # {}
           /\ dominators' = [dominators EXCEPT ![b] = M] /\ changed' = TRUE
  <2>1. M \subseteq dominators[b] /\ M \subseteq reachable /\ b \in M
    <3>1. M \subseteq dominators[b]
      BY <1>3, <1>5, <1>9
    <3>2. b \in M
      BY DEF MeetOverPreds
    <3> HIDE DEF M
    <3> QED BY <1>3, <1>5, <3>1, <3>2
  <2> HIDE DEF M
  <2>2. /\ dominators' \in [reachable -> SUBSET Starts]
        /\ dominators'[b] = M
        /\ \A x \in reachable : x # b => dominators'[x] = dominators[x]
        /\ \A x \in reachable : dominators'[x] \subseteq dominators[x]
    BY <1>2, <1>4, <1>5, <1>9, <2>1
  <2>3. \A x \in reachable : MeetOverPreds(x)' \subseteq MeetOverPreds(x)
    <3>1. \A x \in reachable : ReachablePreds(x)' = ReachablePreds(x)
                               /\ ReachablePreds(x) \subseteq reachable
      BY <1>4, <1>7 DEF ReachablePreds
    <3> QED BY <2>2, <3>1 DEF MeetOverPreds
  <2>4. \A x \in reachable : x # Entry => MeetOverPreds(x)' \subseteq dominators'[x]
    <3>1. ASSUME NEW x \in reachable, x # Entry, x # b
          PROVE  MeetOverPreds(x)' \subseteq dominators'[x]
      BY <1>3, <2>2, <2>3, <3>1
    <3>2. ASSUME NEW x \in reachable, x = b
          PROVE  MeetOverPreds(x)' \subseteq dominators'[x]
      <4>1. MeetOverPreds(x) = M
        BY <3>2 DEF M
      <4> QED BY <2>2, <2>3, <3>2, <4>1
    <3> QED BY <3>1, <3>2
  <2>5. \A x, d \in reachable : OnEveryPath(d, x) => d \in dominators'[x]
    <3>1. ASSUME NEW d \in reachable, OnEveryPath(d, b)
          PROVE  d \in M
      <4>1. CASE d = b
        BY <2>1, <4>1
      <4>2. CASE d # b
        <5>1. \A p \in ReachablePreds(b) : p \in reachable /\ b \in Succs(p)
          BY <1>4, <1>5
        <5>2. \A p \in ReachablePreds(b) : OnEveryPath(d, p)
          BY <3>1, <4>2, <5>1, PathThroughPred
        <5>3. \A p \in ReachablePreds(b) : d \in dominators[p]
          BY <1>3, <5>1, <5>2
        <5> QED BY <1>9, <5>3 DEF M, MeetOverPreds
      <4> QED BY <4>1, <4>2
    <3> QED BY <1>3, <2>2, <3>1
  <2>6. DominatorInv'
    <3>1. DOMAIN dominators' = reachable'
      BY <1>7, <2>2
    <3>2. (\A x, d \in reachable : OnEveryPath(d, x) => d \in dominators[x])'
      BY <1>1, <1>7, <2>5, GraphStable
    <3>3. (\A x \in reachable : x \in dominators[x] /\ dominators[x] \subseteq reachable)'
      BY <1>3, <1>7, <2>1, <2>2
    <3>4. (\A x \in reachable : x # Entry => MeetOverPreds(x) \subseteq dominators[x])'
      BY <1>7, <2>4
    <3>5. (dominators[Entry] = {Entry})'
      BY <1>3, <1>4, <1>7, <1>9, <2>2
    <3> QED BY <1>1, <1>9, <3>1, <3>2, <3>3, <3>4, <3>5 DEF DominatorInv
  <2>7. TypeOK'
    <3>1. changed' \in BOOLEAN
      BY <1>9, Zenon
    <3>2. position' \in Nat \ {0}
      BY <1>1, <1>2
    <3>3. DOMAIN dominators' = reachable /\ dominators' \in [DOMAIN dominators' -> SUBSET Starts]
      BY <2>2
    <3> QED BY <1>1, <1>2, <1>4, <1>7, <3>1, <3>2, <3>3 DEF TypeOK, graphVars, walkVars, Built
  <2> QED
    <3>1. (ReachInv /\ PreorderInv /\ PostorderInv)'
      BY <1>1, GraphStable DEF IInv, ReachInv, PreorderInv, PostorderInv, walkVars
    <3>2. GraphInv'
      BY <1>1, GraphInvStable DEF IInv
    <3>3. FreshInv'
      BY <1>1 DEF FreshInv
    <3> QED BY <2>2, <2>6, <2>7, <3>1, <3>2, <3>3 DEF IInv
<1> QED BY <1>6, <1>8, <1>9

LEMMA NextPassStep ==
  ASSUME IInv, NextPass
  PROVE  IInv'
<1>1. /\ phase = "dominators" /\ phase' = "dominators" /\ Built
      /\ position' = 1 /\ changed' = FALSE
      /\ UNCHANGED <<graphVars, walkVars, dominators, backEdges>>
  BY DEF NextPass, Built
<1>2. TypeOK /\ postOrder \in Seq(Starts)
  BY DEF IInv, TypeOK
<1>3. TypeOK'
  <2>1. changed' \in BOOLEAN
    BY <1>1, Zenon
  <2> QED BY <1>1, <1>2, <2>1, GraphStable DEF TypeOK, graphVars, walkVars, Built
<1>4. DominatorInv'
  <2>1. \A x : MeetOverPreds(x)' = MeetOverPreds(x)
    BY <1>1 DEF MeetOverPreds, ReachablePreds, graphVars, walkVars
  <2>2. postOrder' = postOrder /\ reachable' = reachable
    BY <1>1 DEF walkVars
  <2>3. \A i \in 1 .. Len(postOrder) : ~ (i < position')
    BY <1>1, <1>2
  <2> QED BY <1>1, <2>1, <2>2, <2>3, GraphStable DEF IInv, DominatorInv
<1>5. (ReachInv /\ PreorderInv /\ PostorderInv)'
  BY <1>1, GraphStable DEF IInv, ReachInv, PreorderInv, PostorderInv, walkVars
<1>6. GraphInv'
  BY <1>1, GraphInvStable DEF IInv
<1>7. FreshInv'
  BY <1>1 DEF FreshInv
<1> QED BY <1>3, <1>4, <1>5, <1>6, <1>7 DEF IInv

LEMMA FindLoopsStep ==
  ASSUME IInv, FindLoops
  PROVE  IInv'
<1>1. /\ phase = "dominators" /\ phase' = "done" /\ Built
      /\ position > Len(postOrder) /\ ~ changed
      /\ backEdges' \subseteq Starts \X Starts
      /\ UNCHANGED <<graphVars, walkVars, dominators, position, changed>>
  BY DEF FindLoops, Built
<1>2. TypeOK
  BY DEF IInv
<1>3. TypeOK'
  BY <1>1, <1>2, GraphStable DEF TypeOK, graphVars, walkVars, Built
<1>4. DominatorInv'
  <2>1. \A x : MeetOverPreds(x)' = MeetOverPreds(x)
    BY <1>1 DEF MeetOverPreds, ReachablePreds, graphVars, walkVars
  <2>2. \A x : Settled(x)' <=> Settled(x)
    BY <1>1, GraphStable DEF Settled, graphVars, walkVars
  <2>3. postOrder' = postOrder /\ reachable' = reachable
        /\ \A i : ReversePostOrder(i)' = ReversePostOrder(i)
    BY <1>1 DEF walkVars, ReversePostOrder
  <2> QED BY <1>1, <2>1, <2>2, <2>3, GraphStable DEF IInv, DominatorInv
<1>5. (ReachInv /\ PreorderInv /\ PostorderInv)'
  BY <1>1, GraphStable DEF IInv, ReachInv, PreorderInv, PostorderInv, walkVars
<1>6. GraphInv'
  BY <1>1, GraphInvStable DEF IInv
<1>7. FreshInv'
  BY <1>1 DEF FreshInv
<1> QED BY <1>3, <1>4, <1>5, <1>6, <1>7 DEF IInv

LEMMA ResetStep ==
  ASSUME Reset
  PROVE  IInv'
<1> USE DEF Reset
<1>1. Starts' = {}
  BY DEF Starts
<1>2. TypeOK'
  <2>1. block' \in [Starts' -> Block] /\ DOMAIN dominators' = {}
        /\ dominators' \in [DOMAIN dominators' -> SUBSET Starts']
    BY <1>1, EmptyFunction
  <2>2. pending' \in Seq(Starts') /\ frames' \in Seq([address : Starts', nextSuccessor : Nat \ {0}])
        /\ dfsOrder' \in Seq(Starts') /\ postOrder' \in Seq(Starts')
    BY EmptyFunction
  <2>3. /\ phase' = "idle" /\ ~ Built' /\ reachable' = {} /\ visited' = {} /\ backEdges' = {}
        /\ position' = 1
    BY DEF Built
  <2>4. changed' \in BOOLEAN
    BY Zenon
  <2> HIDE DEF Reset
  <2> QED BY ONLY <1>1, <2>1, <2>2, <2>3, <2>4 DEF TypeOK
<1>3. (GraphInv /\ FreshInv /\ ReachInv /\ PreorderInv /\ PostorderInv /\ DominatorInv)'
  BY EmptyFunction
     DEF GraphInv, Built, FreshInv, ReachInv, PreorderInv, PostorderInv, DominatorInv
<1> QED BY <1>2, <1>3 DEF IInv

LEMMA StutterStep ==
  ASSUME IInv, UNCHANGED vars
  PROVE  IInv'
<1> USE DEF vars, graphVars, walkVars, loopVars
<1>1. TypeOK'
  BY DEF IInv, TypeOK, Built, Starts
<1>2. (GraphInv /\ FreshInv)'
  BY DEF IInv, GraphInv, FreshInv, Built, Starts, Succs
<1>3. (ReachInv /\ PreorderInv /\ PostorderInv)'
  BY GraphStable DEF IInv, ReachInv, PreorderInv, PostorderInv
<1>4. \A x : MeetOverPreds(x)' = MeetOverPreds(x) /\ (Settled(x)' <=> Settled(x))
  BY DEF MeetOverPreds, ReachablePreds, Settled, Entry, Starts
<1>5. DominatorInv'
  <2>1. \A i : ReversePostOrder(i)' = ReversePostOrder(i)
    BY DEF ReversePostOrder
  <2> QED BY <1>4, <2>1, GraphStable DEF IInv, DominatorInv
<1> QED BY <1>1, <1>2, <1>3, <1>5 DEF IInv

--------------------------------------------------------------------------------
(***************************************************************************)
(* The invariant, and the theorems that follow from it.                    *)
(***************************************************************************)

LEMMA Inductive == IInv /\ [Next]_vars => IInv'
<1> SUFFICES ASSUME IInv, [Next]_vars PROVE IInv'
  OBVIOUS
<1>1. CASE \E in \in Inputs : Build(in)
  BY <1>1, RejectStep, IndexStep DEF Build
<1>2. CASE BuildEdges
  BY <1>2, EdgesStep
<1>3. CASE Walk
  BY <1>3, ReachBlockStep, StartPreorderStep, PreorderBlockStep, StartPostorderStep,
     DescendFrameStep, FinishFrameStep DEF Walk
<1>4. CASE Loops
  BY <1>4, InitDominatorsStep, RefineDominatorsStep, NextPassStep, FindLoopsStep DEF Loops
<1>5. CASE Reset
  BY <1>5, ResetStep
<1>6. CASE UNCHANGED vars
  BY <1>6, StutterStep
<1> QED BY <1>1, <1>2, <1>3, <1>4, <1>5, <1>6 DEF Next

LEMMA Invariance == Spec => []IInv
BY InitHolds, Inductive, PTL DEF Spec

\* The state of ControlFlowGraph::build keeps its types in every one of its loops:
\* every successor, order, frame and dominator set holds start addresses of blocks.
THEOREM TypeCorrect == Spec => []TypeOK
<1>1. IInv => TypeOK
  BY DEF IInv
<1> QED BY <1>1, Invariance, PTL

\* analyzeReachability flags exactly the blocks that every set closed under
\* successors contains, for every block vector build accepts.
THEOREM ReachabilityCorrect == Spec => []ReachabilityExact
<1>1. IInv => ReachabilityExact
  BY ReachSetExact DEF IInv, ReachInv, ReachabilityExact
<1> QED BY <1>1, Invariance, PTL

\* No iteration of the fixpoint of analyzeDominatorsAndLoops drops a block that lies
\* on every path from the entry.
THEOREM DominatorsKept == Spec => []NoDominatorLost
<1>1. IInv => NoDominatorLost
  BY DEF IInv, DominatorInv, NoDominatorLost
<1> QED BY <1>1, Invariance, PTL

\* When the fixpoint stops the equations of all reachable blocks are settled, so a
\* block that remains in a set lies on every path: dominates() answers true only then.
THEOREM DominatorsCorrect == Spec => []DominatorsSound
<1>1. IInv => DominatorsSound
  <2> SUFFICES ASSUME IInv, phase = "done", NEW b \in reachable, NEW d \in dominators[b]
               PROVE  OnEveryPath(d, b)
    BY DEF DominatorsSound
  <2>1. /\ reachable = ToSet(postOrder) /\ IsReachSet(reachable) /\ Entry \in reachable
        /\ reachable \subseteq Starts
        /\ \A x \in Starts : ReachablePreds(x) = {p \in reachable : x \in Succs(p)}
    BY WalksAgree
  <2>2. /\ postOrder \in Seq(Starts) /\ position \in Nat
        /\ position > Len(postOrder) /\ dominators[Entry] = {Entry}
        /\ \A x \in reachable : x \in dominators[x]
        /\ \A i \in 1 .. Len(postOrder) : i < position => Settled(ReversePostOrder(i))
    BY DEF IInv, TypeOK, DominatorInv
  <2>3. \A x \in reachable : Settled(x)
    <3> TAKE x \in reachable
    <3>1. PICK i \in 1 .. Len(postOrder) : postOrder[i] = x
      BY <2>1, <2>2, ToSetIndexed
    <3>2. /\ Len(postOrder) + 1 - i \in 1 .. Len(postOrder)
          /\ Len(postOrder) + 1 - i < position
          /\ ReversePostOrder(Len(postOrder) + 1 - i) = x
      BY <2>2, <3>1 DEF ReversePostOrder
    <3> QED BY <2>2, <3>2
  <2>4. CASE d = b \/ d = Entry
    BY <2>4 DEF OnEveryPath
  <2>5. CASE d # b /\ d # Entry
    <3> DEFINE S == {x \in reachable : d \notin dominators[x]}
    <3>1. S \in SUBSET Starts /\ b \notin S /\ d \notin S
      BY <2>1, <2>2
    <3>2. Entry \in S
      BY <2>1, <2>2, <2>5
    <3>3. ASSUME NEW x \in S, NEW y \in Succs(x), y # d
          PROVE  y \in S
      <4>1. x \in reachable /\ y \in reachable /\ y \in Starts
        BY <2>1 DEF IsReachSet, WalkInv
      <4>2. CASE y = Entry
        BY <3>2, <4>2
      <4>3. CASE y # Entry
        <5>1. x \in pred[y] \cap reachable
          BY <2>1, <4>1 DEF IInv, GraphInv, Built
        <5>2. dominators[y] \subseteq dominators[x] \cup {y}
          BY <2>3, <4>1, <4>3, <5>1 DEF Settled
        <5> QED BY <3>3, <4>1, <5>2
      <4> QED BY <4>2, <4>3
    <3>4. ClosedAvoiding(S, d)
      BY <3>2, <3>3 DEF ClosedAvoiding
    <3> QED BY <3>1, <3>4 DEF OnEveryPath
  <2> QED BY <2>4, <2>5
<1> QED BY <1>1, Invariance, PTL

(***************************************************************************)
(* At every iteration the sets hold all dominators, and only those when    *)
(* the fixpoint stops: the result does not depend on the order of blocks.  *)
(***************************************************************************)
THEOREM DominatorsComputed == Spec => []DominatorsExact
<1>1. NoDominatorLost /\ DominatorsSound => DominatorsExact
  BY DEF DominatorsExact
<1> QED BY <1>1, DominatorsKept, DominatorsCorrect, PTL

\* A step inside the fixpoint never adds a block to a dominator set.
THEOREM DominatorsDescend == Spec => DominatorsOnlyShrink
<1>1. IInv /\ [Next]_vars => [phase = "dominators" /\ phase' = "dominators" =>
        \A b \in reachable : dominators'[b] \subseteq dominators[b]]_vars
  <2> SUFFICES ASSUME IInv, Next, phase = "dominators", phase' = "dominators"
               PROVE  \A b \in reachable : dominators'[b] \subseteq dominators[b]
    OBVIOUS
  <2>1. CASE RefineDominators
    BY <2>1, RefineDominatorsStep
  <2>2. CASE ~ RefineDominators
    <3>1. NextPass
      BY <2>2 DEF Next, Build, RejectBlocks, IndexBlocks, BuildEdges, Walk, ReachBlock,
                  StartPreorder, PreorderBlock, StartPostorder, DescendFrame, FinishFrame,
                  Loops, InitDominators, FindLoops, Reset
    <3> QED BY <3>1 DEF NextPass
  <2> QED BY <2>1, <2>2
<1> QED BY <1>1, Invariance, PTL DEF Spec, DominatorsOnlyShrink

--------------------------------------------------------------------------------
(***************************************************************************)
(* The two orders.  IInv says which blocks they list; that each is listed  *)
(* once and the entry at its end is a matter of the stacks.                *)
(***************************************************************************)

NoRepeats(s) == \A i, j \in 1 .. Len(s) : s[i] = s[j] => i = j

\* The frames on the stack are of different blocks, none of them finished, and the
\* bottom one is the entry's: it is the last to finish.
StackInv ==
  /\ \A i, j \in 1 .. Len(frames) : frames[i].address = frames[j].address => i = j
  /\ \A i \in 1 .. Len(frames) : frames[i].address \notin ToSet(postOrder)
  /\ frames # <<>> => frames[Len(frames)].address = Entry
  /\ frames = <<>> => postOrder # <<>> /\ postOrder[Len(postOrder)] = Entry

OrdersInv ==
  /\ NoRepeats(dfsOrder) /\ NoRepeats(postOrder)
  /\ phase = "preorder" /\ dfsOrder = <<>> => pending = <<Entry>>
  /\ dfsOrder # <<>> => dfsOrder[1] = Entry
  /\ phase = "postorder" => StackInv
  /\ phase \in {"dominators", "done"} =>
       postOrder # <<>> /\ postOrder[Len(postOrder)] = Entry

LEMMA NoRepeatsEmpty == NoRepeats(<<>>)
BY DEF NoRepeats

LEMMA NoRepeatsAppend ==
  ASSUME NEW S, NEW s \in Seq(S), NEW x \in S, NoRepeats(s), x \notin ToSet(s)
  PROVE  NoRepeats(Append(s, x))
<1>1. \A i \in 1 .. Len(s) : s[i] # x
  BY ToSetIndexed
<1>2. Len(Append(s, x)) = Len(s) + 1
  OBVIOUS
<1>3. \A i \in 1 .. Len(s) + 1 :
        Append(s, x)[i] = IF i = Len(s) + 1 THEN x ELSE s[i]
  OBVIOUS
<1>4. \A i \in 1 .. Len(s) + 1 : i # Len(s) + 1 => i \in 1 .. Len(s)
  OBVIOUS
<1> QED BY <1>1, <1>2, <1>3, <1>4 DEF NoRepeats

\* A sequence without repetitions is as long as the set of its elements is large.
LEMMA NoRepeatsLength ==
  ASSUME NEW S, NEW s \in Seq(S), NEW t \in Seq(S),
         NoRepeats(s), NoRepeats(t), ToSet(s) = ToSet(t)
  PROVE  Len(s) = Len(t)
<1>1. ASSUME NEW u \in Seq(S), NoRepeats(u)
      PROVE  Cardinality(ToSet(u)) = Len(u)
  <2>1. u \in [1 .. Len(u) -> ToSet(u)] /\ Len(u) \in Nat
    BY ToSetIndexed
  <2>2. u \in Injection(1 .. Len(u), ToSet(u))
    BY <1>1, <2>1 DEF Injection, IsInjective, NoRepeats
  <2>3. u \in Surjection(1 .. Len(u), ToSet(u))
    BY <2>1, ToSetIndexed DEF Surjection
  <2>4. ExistsBijection(1 .. Len(u), ToSet(u))
    BY <2>2, <2>3 DEF ExistsBijection, Bijection
  <2> QED BY <2>1, <2>4, FS_CountingElements
<1> QED BY <1>1

\* What the orders need of the invariant.
LEMMA OrdersContext ==
  ASSUME IInv
  PROVE  /\ dfsOrder \in Seq(Starts) /\ postOrder \in Seq(Starts) /\ frames \in Seq(Frame)
         /\ phase = "preorder" => visited = ToSet(dfsOrder)
         /\ phase = "postorder" =>
              visited = FrameBlocks(ToSet(frames)) \cup ToSet(postOrder)
         /\ phase \in {"idle", "failed", "edges", "reach"} => dfsOrder = <<>>
         /\ phase \in {"idle", "failed", "edges", "reach", "preorder"} => postOrder = <<>>
BY DEF IInv, TypeOK, Frame, PreorderInv, PostorderInv, FreshInv

\* A step outside the two walks.
LEMMA OrdersOutside ==
  ASSUME IInv, OrdersInv, UNCHANGED <<dfsOrder, postOrder>>,
         phase' \notin {"preorder", "postorder"},
         dfsOrder = <<>> \/ UNCHANGED graphVars,
         phase' \in {"dominators", "done"} =>
           phase \in {"dominators", "done"} /\ UNCHANGED graphVars
  PROVE  OrdersInv'
<1>1. UNCHANGED graphVars => Entry' = Entry
  BY GraphStable
<1> QED BY <1>1 DEF OrdersInv, NoRepeats

LEMMA OrdersPreorderBlock ==
  ASSUME IInv, OrdersInv, PreorderBlock
  PROVE  OrdersInv'
<1>1. /\ phase = "preorder" /\ phase' = "preorder" /\ pending # <<>>
      /\ UNCHANGED graphVars /\ UNCHANGED postOrder
  BY DEF PreorderBlock
<1>2. Entry' = Entry /\ dfsOrder \in Seq(Starts) /\ visited = ToSet(dfsOrder)
  BY <1>1, GraphStable, OrdersContext
<1>3. Head(pending) \in Starts
  BY <1>1 DEF IInv, TypeOK
<1>4. CASE Head(pending) \in visited
  <2>1. dfsOrder' = dfsOrder /\ dfsOrder # <<>>
    BY <1>2, <1>4, ToSetEmpty DEF PreorderBlock
  <2> QED BY <1>1, <1>2, <2>1 DEF OrdersInv, NoRepeats
<1>5. CASE Head(pending) \notin visited
  <2>1. dfsOrder' = Append(dfsOrder, Head(pending))
    BY <1>5 DEF PreorderBlock
  <2>2. NoRepeats(dfsOrder)'
    <3>1. NoRepeats(Append(dfsOrder, Head(pending)))
      BY <1>2, <1>3, <1>5, NoRepeatsAppend DEF OrdersInv
    <3> QED BY <2>1, <3>1 DEF NoRepeats
  <2>3. dfsOrder' # <<>> /\ dfsOrder'[1] = Entry
    <3>1. CASE dfsOrder = <<>>
      <4>1. Head(pending) = Entry
        BY <1>1, <3>1 DEF OrdersInv
      <4> QED BY <2>1, <3>1, <4>1, <1>2
    <3>2. CASE dfsOrder # <<>>
      <4>1. dfsOrder[1] = Entry
        BY <3>2 DEF OrdersInv
      <4>2. Len(dfsOrder) \in Nat /\ Len(dfsOrder) # 0
        BY <1>2, <3>2
      <4> QED BY <1>2, <2>1, <4>1, <4>2
    <3> QED BY <3>1, <3>2
  <2>4. NoRepeats(postOrder)'
    BY <1>1 DEF OrdersInv, NoRepeats
  <2> QED BY <1>1, <1>2, <2>2, <2>3, <2>4 DEF OrdersInv
<1> QED BY <1>4, <1>5

LEMMA OrdersStartPreorder ==
  ASSUME IInv, OrdersInv, StartPreorder
  PROVE  OrdersInv'
<1>1. /\ phase = "reach" /\ phase' = "preorder" /\ pending' = <<Entry>>
      /\ UNCHANGED <<graphVars, dfsOrder, postOrder>>
  BY DEF StartPreorder
<1>2. Entry' = Entry
  BY <1>1, GraphStable
<1> QED BY <1>1, <1>2 DEF OrdersInv, NoRepeats

LEMMA OrdersStartPostorder ==
  ASSUME IInv, OrdersInv, StartPostorder
  PROVE  OrdersInv'
<1> DEFINE first == [address |-> Entry, nextSuccessor |-> 1]
<1>1. /\ phase = "preorder" /\ phase' = "postorder" /\ frames' = <<first>>
      /\ UNCHANGED <<graphVars, dfsOrder, postOrder>>
  BY DEF StartPostorder
<1>2. Entry' = Entry /\ postOrder = <<>> /\ ToSet(postOrder') = {}
  BY <1>1, GraphStable, OrdersContext, ToSetEmpty
<1>3. frames' # <<>> /\ Len(frames') = 1 /\ frames'[1].address = Entry
  BY <1>1
<1>4. StackInv'
  BY <1>2, <1>3 DEF StackInv
<1> QED BY <1>1, <1>2, <1>4 DEF OrdersInv, NoRepeats

LEMMA OrdersDescendFrame ==
  ASSUME IInv, OrdersInv, DescendFrame
  PROVE  OrdersInv'
<1> DEFINE h == Top.address
           n == Top.nextSuccessor
           s == succ[h][n]
           next == [Top EXCEPT !.nextSuccessor = @ + 1]
           new == [address |-> s, nextSuccessor |-> 1]
           advanced == <<next>> \o Tail(frames)
<1>1. /\ phase = "postorder" /\ phase' = "postorder" /\ frames # <<>>
      /\ UNCHANGED graphVars /\ UNCHANGED <<dfsOrder, postOrder>>
  BY DEF DescendFrame
<1>2. /\ Entry' = Entry /\ StackInv /\ frames \in Seq(Frame)
      /\ visited = FrameBlocks(ToSet(frames)) \cup ToSet(postOrder)
  BY <1>1, GraphStable, OrdersContext DEF OrdersInv
<1>3. Top \in Frame /\ Top = frames[1] /\ Tail(frames) \in Seq(Frame)
  BY <1>1, <1>2 DEF Top
<1>4. next \in Frame /\ next.address = h
  BY <1>3 DEF Frame
<1>5. /\ advanced \in Seq(Frame) /\ Len(advanced) = Len(frames) /\ Len(frames) \in Nat \ {0}
      /\ \A i \in 1 .. Len(frames) : advanced[i].address = frames[i].address
  <2>1. Len(frames) \in Nat \ {0} /\ Len(Tail(frames)) = Len(frames) - 1
    BY <1>1, <1>2
  <2>2. \A i \in 1 .. Len(frames) - 1 : Tail(frames)[i] = frames[i + 1]
    BY <1>1, <1>2
  <2> HIDE DEF next
  <2>3. advanced \in Seq(Frame) /\ Len(advanced) = Len(frames) /\ advanced[1] = next
    BY <1>3, <1>4, <2>1
  <2>4. \A i \in 2 .. Len(frames) : advanced[i] = Tail(frames)[i - 1]
    BY <1>3, <1>4, <2>1
  <2>5. \A i \in 2 .. Len(frames) : advanced[i] = frames[i]
    BY <2>1, <2>2, <2>4
  <2> QED BY <1>3, <1>4, <2>1, <2>3, <2>5
<1>6. UNCHANGED postOrder /\ ToSet(postOrder') = ToSet(postOrder)
  BY <1>1
<1>7. StackInv'
  <2>1. CASE s \in visited
    <3>1. frames' = advanced
      BY <2>1 DEF DescendFrame
    <3> HIDE DEF advanced, s, next
    <3>2. frames' # <<>>
      BY <1>5, <3>1
    <3> QED BY <1>2, <1>5, <1>6, <3>1, <3>2 DEF StackInv
  <2>2. CASE s \notin visited
    <3>1. frames' = <<new>> \o advanced
      BY <2>2 DEF DescendFrame
    <3>2. \A i \in 1 .. Len(frames) : frames[i].address # s /\ frames[i].address \in visited
      BY <1>2, <2>2, ToSetIndexed DEF FrameBlocks
    <3>3. s \notin ToSet(postOrder) /\ new.address = s
      BY <1>2, <2>2
    <3> HIDE DEF advanced, s, next, new
    <3>4. /\ Len(frames') = Len(frames) + 1 /\ frames'[1] = new
          /\ \A i \in 1 .. Len(frames) : frames'[i + 1] = advanced[i]
      BY <1>5, <3>1
    <3>5. /\ frames'[1].address = s
          /\ \A i \in 2 .. Len(frames) + 1 :
               /\ i - 1 \in 1 .. Len(frames)
               /\ frames'[i].address = frames[i - 1].address
      <4>1. \A i \in 2 .. Len(frames) + 1 : i - 1 \in 1 .. Len(frames) /\ (i - 1) + 1 = i
        BY <1>5
      <4> QED BY <1>5, <3>3, <3>4, <4>1
    <3>6. \A i, j \in 1 .. Len(frames) + 1 :
            frames'[i].address = frames'[j].address => i = j
      <4> SUFFICES ASSUME NEW i \in 1 .. Len(frames) + 1, NEW j \in 1 .. Len(frames) + 1,
                          frames'[i].address = frames'[j].address
                   PROVE  i = j
        OBVIOUS
      <4>1. (i = 1 \/ i \in 2 .. Len(frames) + 1) /\ (j = 1 \/ j \in 2 .. Len(frames) + 1)
        BY <1>5
      <4>2. CASE i # 1 /\ j # 1
        <5>1. i - 1 = j - 1
          BY <1>2, <3>5, <4>1, <4>2 DEF StackInv
        <5> QED BY <4>1, <4>2, <5>1, <1>5
      <4> QED BY <3>2, <3>5, <4>1, <4>2
    <3>7. \A i \in 1 .. Len(frames) + 1 : frames'[i].address \notin ToSet(postOrder)
      <4>1. \A i \in 1 .. Len(frames) + 1 : i = 1 \/ i \in 2 .. Len(frames) + 1
        BY <1>5
      <4> QED BY <1>2, <3>3, <3>5, <4>1 DEF StackInv
    <3>8. frames'[Len(frames) + 1].address = Entry /\ frames' # <<>>
      <4>1. Len(frames) + 1 \in 2 .. Len(frames) + 1 /\ (Len(frames) + 1) - 1 = Len(frames)
        BY <1>5
      <4>2. frames' # <<>>
        BY <1>5, <3>4
      <4> QED BY <1>1, <1>2, <3>5, <4>1, <4>2 DEF StackInv
    <3> QED BY <1>2, <1>6, <3>4, <3>6, <3>7, <3>8 DEF StackInv
  <2> QED BY <2>1, <2>2
<1> HIDE DEF s, next, new, advanced
<1> QED BY <1>1, <1>2, <1>7 DEF OrdersInv, NoRepeats

LEMMA OrdersFinishFrame ==
  ASSUME IInv, OrdersInv, FinishFrame
  PROVE  OrdersInv'
<1> DEFINE h == Top.address
<1>1. /\ phase = "postorder" /\ phase' = "postorder" /\ frames # <<>>
      /\ postOrder' = Append(postOrder, h) /\ frames' = Tail(frames)
      /\ UNCHANGED graphVars /\ UNCHANGED dfsOrder
  BY DEF FinishFrame
<1>2. /\ Entry' = Entry /\ StackInv /\ frames \in Seq(Frame) /\ postOrder \in Seq(Starts)
      /\ NoRepeats(postOrder)
  BY <1>1, GraphStable, OrdersContext DEF OrdersInv
<1>3. Top \in Frame /\ Top = frames[1] /\ Len(frames) \in Nat \ {0} /\ h \in Starts
  <2>1. Top \in Frame /\ Top = frames[1] /\ Len(frames) \in Nat \ {0}
    BY <1>1, <1>2 DEF Top
  <2> QED BY <2>1 DEF Frame
<1>4. /\ Len(frames') = Len(frames) - 1
      /\ \A i \in 1 .. Len(frames) - 1 : frames'[i] = frames[i + 1]
  BY <1>1, <1>2
<1>5. 1 \in 1 .. Len(frames) /\ h \notin ToSet(postOrder)
  BY <1>2, <1>3 DEF StackInv
<1>6. ToSet(postOrder') = ToSet(postOrder) \cup {h}
  BY <1>1, <1>2, <1>3, ToSetAppend
<1>7. NoRepeats(postOrder)'
  <2>1. NoRepeats(Append(postOrder, h))
    BY <1>2, <1>3, <1>5, NoRepeatsAppend
  <2> QED BY <1>1, <2>1 DEF NoRepeats
<1>8. \A i \in 1 .. Len(frames) - 1 : i + 1 \in 1 .. Len(frames) /\ i + 1 # 1
  BY <1>3
<1>9. (\A i, j \in 1 .. Len(frames) : frames[i].address = frames[j].address => i = j)'
  <2> SUFFICES ASSUME NEW i \in 1 .. Len(frames) - 1, NEW j \in 1 .. Len(frames) - 1,
                      frames'[i].address = frames'[j].address
               PROVE  i = j
    BY <1>4
  <2>1. i + 1 = j + 1
    BY <1>2, <1>4, <1>8 DEF StackInv
  <2> QED BY <1>3, <2>1
<1>10. \A i \in 1 .. Len(frames') : frames'[i].address \notin ToSet(postOrder')
  BY <1>2, <1>3, <1>4, <1>5, <1>6, <1>8 DEF StackInv
<1>11. frames' # <<>> => frames'[Len(frames')].address = Entry
  <2>1. frames' # <<>> => Len(frames) - 1 \in 1 .. Len(frames) - 1 /\ (Len(frames) - 1) + 1 = Len(frames)
    BY <1>1, <1>2, <1>3
  <2> QED BY <1>1, <1>2, <1>4, <2>1 DEF StackInv
<1>12. postOrder' # <<>> /\ postOrder'[Len(postOrder')] = h
  BY <1>1, <1>2, <1>3
<1>13. frames' = <<>> => h = Entry
  <2>1. frames' = <<>> => Len(frames) = 1
    BY <1>3, <1>4
  <2> QED BY <1>1, <1>2, <1>3, <2>1 DEF StackInv
<1>14. StackInv'
  BY <1>2, <1>9, <1>10, <1>11, <1>12, <1>13 DEF StackInv
<1> HIDE DEF h
<1> QED BY <1>1, <1>2, <1>7, <1>14 DEF OrdersInv, NoRepeats

LEMMA OrdersInitDominators ==
  ASSUME IInv, OrdersInv, InitDominators
  PROVE  OrdersInv'
<1>1. /\ phase = "postorder" /\ phase' = "dominators" /\ frames = <<>>
      /\ UNCHANGED <<graphVars, dfsOrder, postOrder>>
  BY DEF InitDominators, walkVars
<1>2. Entry' = Entry /\ postOrder # <<>> /\ postOrder[Len(postOrder)] = Entry
  BY <1>1, GraphStable DEF OrdersInv, StackInv
<1> QED BY <1>1, <1>2 DEF OrdersInv, NoRepeats

LEMMA OrdersStutter ==
  ASSUME OrdersInv, UNCHANGED vars
  PROVE  OrdersInv'
<1>1. Entry' = Entry /\ UNCHANGED <<phase, pending, dfsOrder, frames, postOrder>>
  BY GraphStable DEF vars, walkVars
<1> QED BY <1>1 DEF OrdersInv, StackInv, NoRepeats

LEMMA OrdersInductive == IInv /\ OrdersInv /\ [Next]_vars => OrdersInv'
<1> SUFFICES ASSUME IInv, OrdersInv, [Next]_vars PROVE OrdersInv'
  OBVIOUS
<1> USE DEF walkVars
<1>1. CASE \E in \in Inputs : Build(in)
  <2>1. /\ phase = "idle" /\ phase' \in {"failed", "edges"}
        /\ UNCHANGED <<dfsOrder, postOrder>>
    BY <1>1 DEF Build, RejectBlocks, IndexBlocks
  <2> QED BY <2>1, OrdersContext, OrdersOutside
<1>2. CASE BuildEdges
  <2>1. phase = "edges" /\ phase' = "reach" /\ UNCHANGED <<dfsOrder, postOrder>>
    BY <1>2 DEF BuildEdges
  <2> QED BY <2>1, OrdersContext, OrdersOutside
<1>3. CASE ReachBlock
  <2>1. phase' = "reach" /\ UNCHANGED <<dfsOrder, postOrder>> /\ UNCHANGED graphVars
    BY <1>3 DEF ReachBlock
  <2> QED BY <2>1, OrdersOutside
<1>4. CASE StartPreorder
  BY <1>4, OrdersStartPreorder
<1>5. CASE PreorderBlock
  BY <1>5, OrdersPreorderBlock
<1>6. CASE StartPostorder
  BY <1>6, OrdersStartPostorder
<1>7. CASE DescendFrame
  BY <1>7, OrdersDescendFrame
<1>8. CASE FinishFrame
  BY <1>8, OrdersFinishFrame
<1>9. CASE InitDominators
  BY <1>9, OrdersInitDominators
<1>10. CASE RefineDominators \/ NextPass \/ FindLoops
  <2>1. /\ phase = "dominators" /\ phase' \in {"dominators", "done"}
        /\ UNCHANGED <<dfsOrder, postOrder>> /\ UNCHANGED graphVars
    BY <1>10 DEF RefineDominators, NextPass, FindLoops
  <2> QED BY <2>1, OrdersOutside
<1>11. CASE Reset
  <2>1. phase' = "idle" /\ dfsOrder' = <<>> /\ postOrder' = <<>>
    BY <1>11 DEF Reset
  <2> QED BY <2>1, NoRepeatsEmpty DEF OrdersInv, NoRepeats
<1>12. CASE UNCHANGED vars
  BY <1>12, OrdersStutter
<1> QED BY <1>1, <1>2, <1>3, <1>4, <1>5, <1>6, <1>7, <1>8, <1>9, <1>10, <1>11, <1>12
        DEF Next, Walk, Loops

\* Both orders list each reachable block once and begin with the entry, for every
\* block vector build accepts, although they come from two separate walks.
THEOREM OrdersCorrect == Spec => []OrdersListReachable
<1>1. Init => OrdersInv
  BY NoRepeatsEmpty DEF Init, OrdersInv
<1>2. Spec => []OrdersInv
  BY <1>1, Invariance, OrdersInductive, PTL DEF Spec
<1>3. IInv /\ OrdersInv => OrdersListReachable
  <2> SUFFICES ASSUME IInv, OrdersInv, phase \in {"dominators", "done"}
               PROVE  /\ ToSet(dfsOrder) = reachable /\ ToSet(postOrder) = reachable
                      /\ Len(dfsOrder) = Len(postOrder)
                      /\ NoRepeats(postOrder)
                      /\ dfsOrder[1] = Entry /\ ReversePostOrder(1) = Entry
    BY DEF OrdersListReachable, NoRepeats
  <2>1. ToSet(dfsOrder) = reachable /\ ToSet(postOrder) = reachable /\ Entry \in reachable
    BY WalksAgree
  <2>2. dfsOrder \in Seq(Starts) /\ postOrder \in Seq(Starts)
    BY OrdersContext
  <2>3. NoRepeats(dfsOrder) /\ NoRepeats(postOrder)
    BY DEF OrdersInv
  <2>4. Len(dfsOrder) = Len(postOrder)
    BY <2>1, <2>2, <2>3, NoRepeatsLength
  <2>5. dfsOrder # <<>>
    BY <2>1, ToSetEmpty
  <2>6. dfsOrder[1] = Entry /\ postOrder[Len(postOrder)] = Entry
    BY <2>5 DEF OrdersInv
  <2>7. ReversePostOrder(1) = postOrder[Len(postOrder)]
    BY <2>2 DEF ReversePostOrder
  <2> QED BY <2>1, <2>3, <2>4, <2>6, <2>7
<1> QED BY <1>2, <1>3, Invariance, PTL

--------------------------------------------------------------------------------
(***************************************************************************)
(* Loops.  The stack of the postorder walk is a path of the graph from the *)
(* entry, so a block that is on every path to the one that finishes is on  *)
(* the stack below it and finishes later.                                  *)
(***************************************************************************)

StackIsPath ==
  \A i \in 1 .. Len(frames) - 1 : frames[i].address \in Succs(frames[i + 1].address)

FinishLater ==
  \A i, j \in 1 .. Len(postOrder) : OnEveryPath(postOrder[j], postOrder[i]) => i <= j

LoopsInv ==
  /\ phase = "postorder" => StackIsPath
  /\ phase \in {"postorder", "dominators", "done"} => FinishLater
  /\ phase = "done" => \A b \in reachable, c \in Starts :
                         <<b, c>> \in backEdges <=> c \in Succs(b) /\ IsBackEdge(b, c)
  /\ phase = "done" => \A e \in backEdges : e[1] \in reachable

LEMMA LoopsStartPostorder ==
  ASSUME IInv, StartPostorder
  PROVE  LoopsInv'
<1>1. phase = "preorder" /\ phase' = "postorder" /\ Len(frames') = 1 /\ postOrder' = postOrder
  BY DEF StartPostorder
<1>2. Len(postOrder') = 0
  BY <1>1, OrdersContext
<1>3. StackIsPath' /\ FinishLater'
  BY <1>1, <1>2 DEF StackIsPath, FinishLater
<1> QED BY <1>1, <1>3 DEF LoopsInv

\* A descent pushes a successor of the top.
LEMMA LoopsDescendFrame ==
  ASSUME IInv, OrdersInv, LoopsInv, DescendFrame
  PROVE  LoopsInv'
<1> DEFINE h == Top.address
           n == Top.nextSuccessor
           s == succ[h][n]
           next == [Top EXCEPT !.nextSuccessor = @ + 1]
           new == [address |-> s, nextSuccessor |-> 1]
           advanced == <<next>> \o Tail(frames)
<1>1. /\ phase = "postorder" /\ phase' = "postorder" /\ frames # <<>> /\ Built
      /\ n <= Len(succ[h]) /\ UNCHANGED graphVars /\ UNCHANGED postOrder
  BY DEF DescendFrame, Built
<1>2. frames \in Seq(Frame) /\ StackIsPath /\ FinishLater /\ TypeOK
  BY <1>1, OrdersContext DEF LoopsInv, IInv
<1>3. Top \in Frame /\ Top = frames[1] /\ Tail(frames) \in Seq(Frame)
  BY <1>1, <1>2 DEF Top
<1>4. next \in Frame /\ next.address = h /\ h \in Starts /\ n \in Nat \ {0}
  BY <1>3 DEF Frame
<1>5. s \in Succs(h) /\ new.address = s
  <2>1. succ[h] \in Seq(Starts)
    BY <1>1, <1>2, <1>4, SuccType
  <2>2. n \in 1 .. Len(succ[h])
    BY <1>1, <1>4, <2>1
  <2> QED BY <2>1, <2>2, ToSetIndexed DEF Succs
<1>6. /\ advanced \in Seq(Frame) /\ Len(advanced) = Len(frames) /\ Len(frames) \in Nat \ {0}
      /\ \A i \in 1 .. Len(frames) : advanced[i].address = frames[i].address
  <2>1. Len(frames) \in Nat \ {0} /\ Len(Tail(frames)) = Len(frames) - 1
    BY <1>1, <1>2
  <2>2. \A i \in 1 .. Len(frames) - 1 : Tail(frames)[i] = frames[i + 1]
    BY <1>1, <1>2
  <2> HIDE DEF next
  <2>3. advanced \in Seq(Frame) /\ Len(advanced) = Len(frames) /\ advanced[1] = next
    BY <1>3, <1>4, <2>1
  <2>4. \A i \in 2 .. Len(frames) : advanced[i] = Tail(frames)[i - 1]
    BY <1>3, <1>4, <2>1
  <2>5. \A i \in 2 .. Len(frames) : advanced[i] = frames[i]
    BY <2>1, <2>2, <2>4
  <2> QED BY <1>3, <1>4, <2>1, <2>3, <2>5
<1>7. StackIsPath'
  <2>1. \A b : Succs(b)' = Succs(b)
    BY <1>1, GraphStable
  <2>2. CASE s \in visited
    <3>1. frames' = advanced
      BY <2>2 DEF DescendFrame
    <3> HIDE DEF advanced, s, next
    <3> QED BY <1>2, <1>6, <2>1, <3>1 DEF StackIsPath
  <2>3. CASE s \notin visited
    <3>1. frames' = <<new>> \o advanced
      BY <2>3 DEF DescendFrame
    <3> HIDE DEF advanced, s, next, new, h
    <3>2. /\ Len(frames') = Len(frames) + 1 /\ frames'[1] = new
          /\ \A i \in 1 .. Len(frames) : frames'[i + 1] = advanced[i]
      BY <1>6, <3>1
    <3>3. \A i \in 1 .. Len(frames) : frames'[i + 1].address = frames[i].address
      BY <1>6, <3>2
    <3> SUFFICES ASSUME NEW i \in 1 .. Len(frames)
                 PROVE  frames'[i].address \in Succs(frames'[i + 1].address)
      BY <1>6, <2>1, <3>2 DEF StackIsPath
    <3>4. CASE i = 1
      <4>1. frames'[i + 1].address = h
        BY <1>3, <1>6, <3>3, <3>4 DEF h
      <4> QED BY <1>5, <3>2, <3>4, <4>1
    <3>5. CASE i # 1
      <4>1. i - 1 \in 1 .. Len(frames) - 1 /\ i - 1 \in 1 .. Len(frames) /\ (i - 1) + 1 = i
        BY <1>6, <3>5
      <4>2. frames[i - 1].address \in Succs(frames[i].address)
        BY <1>2, <4>1 DEF StackIsPath
      <4>3. frames'[i].address = frames[i - 1].address
        BY <3>3, <4>1
      <4>4. frames'[i + 1].address = frames[i].address
        BY <3>3
      <4> QED BY <4>2, <4>3, <4>4
    <3> QED BY <3>4, <3>5
  <2> QED BY <2>2, <2>3
<1>8. FinishLater'
  BY <1>1, <1>2, GraphStable DEF FinishLater
<1> HIDE DEF s, next, new, advanced
<1> QED BY <1>1, <1>7, <1>8 DEF LoopsInv

\* A finished block is not on every path to the top of the stack: the blocks of the
\* stack are a path there, and it avoids the finished ones.
LEMMA StackAvoidsFinished ==
  ASSUME frames \in Seq(Frame), frames # <<>>, StackInv, StackIsPath,
         NEW d \in ToSet(postOrder)
  PROVE  ~ OnEveryPath(d, frames[1].address)
<1>1. Len(frames) \in Nat /\ 1 \in 1 .. Len(frames) /\ Len(frames) \in 1 .. Len(frames)
  OBVIOUS
<1>2. \A i \in 1 .. Len(frames) : frames[i].address # d
  BY DEF StackInv
<1>3. d # Entry /\ d # frames[1].address
  BY <1>1, <1>2 DEF StackInv
<1> SUFFICES ASSUME NEW S \in SUBSET Starts, frames[1].address \notin S, d \notin S,
                    ClosedAvoiding(S, d)
             PROVE  FALSE
  BY <1>3 DEF OnEveryPath
<1> DEFINE In == {i \in 1 .. Len(frames) : frames[i].address \in S}
<1>4. Len(frames) \in In
  BY <1>1 DEF StackInv, ClosedAvoiding
<1>5. In \in SUBSET Nat /\ In # {}
  BY <1>1, <1>4
<1>6. PICK m \in In : \A i \in In : m <= i
  <2> HIDE DEF In
  <2> QED BY <1>5, LeastElement
<1>7. m # 1
  BY <1>6
<1>8. m - 1 \in 1 .. Len(frames) - 1 /\ m - 1 \in 1 .. Len(frames) /\ (m - 1) + 1 = m
  BY <1>1, <1>6, <1>7
<1>9. m - 1 \notin In
  BY <1>6, <1>8
<1>10. frames[m - 1].address \in Succs(frames[m].address)
  BY <1>8 DEF StackIsPath
<1>11. frames[m - 1].address \in S \cup {d}
  BY <1>6, <1>10 DEF ClosedAvoiding
<1> QED BY <1>2, <1>8, <1>9, <1>11

LEMMA LoopsFinishFrame ==
  ASSUME IInv, OrdersInv, LoopsInv, FinishFrame
  PROVE  LoopsInv'
<1> DEFINE h == Top.address
<1>1. /\ phase = "postorder" /\ phase' = "postorder" /\ frames # <<>>
      /\ postOrder' = Append(postOrder, h) /\ frames' = Tail(frames)
      /\ UNCHANGED graphVars
  BY DEF FinishFrame
<1>2. /\ StackInv /\ StackIsPath /\ FinishLater
      /\ frames \in Seq(Frame) /\ postOrder \in Seq(Starts)
  BY <1>1, OrdersContext DEF OrdersInv, LoopsInv
<1>3. h = frames[1].address /\ Len(frames) \in Nat \ {0} /\ h \in Starts
  <2>1. Top \in Frame /\ Top = frames[1] /\ Len(frames) \in Nat \ {0}
    BY <1>1, <1>2 DEF Top
  <2> QED BY <2>1 DEF Frame
<1>4. /\ Len(frames') = Len(frames) - 1
      /\ \A i \in 1 .. Len(frames) - 1 : frames'[i] = frames[i + 1]
  BY <1>1, <1>2
<1>5. StackIsPath'
  <2> SUFFICES ASSUME NEW i \in 1 .. Len(frames) - 2
               PROVE  frames'[i].address \in Succs(frames'[i + 1].address)
    BY <1>1, <1>3, <1>4, GraphStable DEF StackIsPath
  <2>1. i \in 1 .. Len(frames) - 1 /\ i + 1 \in 1 .. Len(frames) - 1
    BY <1>3
  <2>2. frames[i + 1].address \in Succs(frames[(i + 1) + 1].address)
    BY <1>2, <2>1 DEF StackIsPath
  <2> QED BY <1>4, <2>1, <2>2
<1>6. FinishLater'
  <2>1. /\ Len(postOrder) \in Nat /\ Len(postOrder') = Len(postOrder) + 1
        /\ postOrder'[Len(postOrder) + 1] = h
        /\ \A i \in 1 .. Len(postOrder) : postOrder'[i] = postOrder[i]
    BY <1>1, <1>2, <1>3
  <2>2. \A d, b : OnEveryPath(d, b)' <=> OnEveryPath(d, b)
    BY <1>1, GraphStable
  <2> HIDE DEF h
  <2> SUFFICES ASSUME NEW i \in 1 .. Len(postOrder) + 1, NEW j \in 1 .. Len(postOrder) + 1,
                      OnEveryPath(postOrder'[j], postOrder'[i])
               PROVE  i <= j
    BY <2>1, <2>2 DEF FinishLater
  <2>3. CASE j = Len(postOrder) + 1
    BY <2>1, <2>3
  <2>4. CASE j # Len(postOrder) + 1 /\ i # Len(postOrder) + 1
    <3>1. i \in 1 .. Len(postOrder) /\ j \in 1 .. Len(postOrder)
      BY <2>1, <2>4
    <3> QED BY <1>2, <2>1, <3>1 DEF FinishLater
  <2>5. CASE j # Len(postOrder) + 1 /\ i = Len(postOrder) + 1
    <3>1. j \in 1 .. Len(postOrder)
      BY <2>1, <2>5
    <3>2. postOrder[j] \in ToSet(postOrder)
      BY <1>2, <3>1, ToSetIndexed
    <3>3. ~ OnEveryPath(postOrder[j], h)
      BY <1>1, <1>2, <1>3, <3>2, StackAvoidsFinished
    <3> QED BY <2>1, <2>5, <3>1, <3>3
  <2> QED BY <2>3, <2>4, <2>5
<1> QED BY <1>1, <1>5, <1>6 DEF LoopsInv

\* A step on a graph whose orders are complete, before the loops are looked for.
LEMMA LoopsOutside ==
  ASSUME LoopsInv, UNCHANGED graphVars, UNCHANGED postOrder,
         phase \in {"postorder", "dominators"}, phase' = "dominators"
  PROVE  LoopsInv'
<1>1. FinishLater
  BY DEF LoopsInv
<1>2. FinishLater'
  BY <1>1, GraphStable DEF FinishLater
<1> QED BY <1>2 DEF LoopsInv

LEMMA LoopsFindLoops ==
  ASSUME IInv, LoopsInv, FindLoops
  PROVE  LoopsInv'
<1>1. /\ phase = "dominators" /\ phase' = "done"
      /\ UNCHANGED <<graphVars, walkVars, dominators>>
      /\ backEdges' = {e \in Starts \X Starts :
                         /\ e[1] \in reachable
                         /\ e[2] \in Succs(e[1])
                         /\ IsBackEdge(e[1], e[2])}
  BY DEF FindLoops
<1>2. FinishLater /\ reachable \subseteq Starts
  BY <1>1 DEF LoopsInv, IInv, TypeOK
<1>3. FinishLater'
  BY <1>1, <1>2, GraphStable DEF FinishLater, walkVars
<1>4. /\ UNCHANGED reachable /\ Starts' = Starts /\ \A b : Succs(b)' = Succs(b)
      /\ \A b, c : IsBackEdge(b, c)' <=> IsBackEdge(b, c)
  BY <1>1, GraphStable DEF walkVars, IsBackEdge, Dominates
<1>5. \A b \in reachable, c \in Starts :
        <<b, c>> \in backEdges' <=> c \in Succs(b) /\ IsBackEdge(b, c)
  BY <1>1, <1>2
<1>6. \A e \in backEdges' : e[1] \in reachable
  BY <1>1
<1> QED BY <1>1, <1>3, <1>4, <1>5, <1>6 DEF LoopsInv

LEMMA LoopsStutter ==
  ASSUME LoopsInv, UNCHANGED vars
  PROVE  LoopsInv'
<1>1. UNCHANGED <<phase, reachable, frames, postOrder, dominators, backEdges>>
  BY DEF vars, walkVars, loopVars
<1>2. UNCHANGED graphVars
  BY DEF vars
<1>3. /\ StackIsPath' <=> StackIsPath
      /\ FinishLater' <=> FinishLater
      /\ Starts' = Starts /\ \A b : Succs(b)' = Succs(b)
      /\ \A b, c : IsBackEdge(b, c)' <=> IsBackEdge(b, c)
  BY <1>1, <1>2, GraphStable DEF StackIsPath, FinishLater, IsBackEdge, Dominates
<1> QED BY <1>1, <1>3 DEF LoopsInv

LEMMA LoopsInductive == IInv /\ OrdersInv /\ LoopsInv /\ [Next]_vars => LoopsInv'
<1> SUFFICES ASSUME IInv, OrdersInv, LoopsInv, [Next]_vars PROVE LoopsInv'
  OBVIOUS
<1>1. CASE (\E in \in Inputs : Build(in)) \/ BuildEdges \/ ReachBlock \/ StartPreorder
             \/ PreorderBlock \/ Reset
  <2>1. phase' \notin {"postorder", "dominators", "done"}
    BY <1>1 DEF Build, RejectBlocks, IndexBlocks, BuildEdges, ReachBlock, StartPreorder,
                PreorderBlock, Reset
  <2> QED BY <2>1 DEF LoopsInv
<1>2. CASE StartPostorder
  BY <1>2, LoopsStartPostorder
<1>3. CASE DescendFrame
  BY <1>3, LoopsDescendFrame
<1>4. CASE FinishFrame
  BY <1>4, LoopsFinishFrame
<1>5. CASE InitDominators \/ RefineDominators \/ NextPass
  <2>1. /\ phase \in {"postorder", "dominators"} /\ phase' = "dominators"
        /\ UNCHANGED graphVars /\ UNCHANGED postOrder
    BY <1>5 DEF InitDominators, RefineDominators, NextPass, walkVars
  <2> QED BY <2>1, LoopsOutside
<1>6. CASE FindLoops
  BY <1>6, LoopsFindLoops
<1>7. CASE UNCHANGED vars
  BY <1>7, LoopsStutter
<1> QED BY <1>1, <1>2, <1>3, <1>4, <1>5, <1>6, <1>7 DEF Next, Walk, Loops

\* The position of a block in the reverse order.
LEMMA PositionOfFinished ==
  ASSUME postOrder \in Seq(Starts), NoRepeats(postOrder), NEW k \in 1 .. Len(postOrder)
  PROVE  PositionOf(postOrder[k]) = Len(postOrder) + 1 - k
<1> DEFINE n == Len(postOrder)
           Is(i) == ReversePostOrder(i) = postOrder[k]
<1>1. n \in Nat /\ n + 1 - k \in 1 .. n /\ n + 1 - (n + 1 - k) = k
  OBVIOUS
<1>2. Is(n + 1 - k)
  BY <1>1 DEF ReversePostOrder
<1>3. ASSUME NEW i \in 1 .. n, Is(i)
      PROVE  i = n + 1 - k
  <2>1. n + 1 - i \in 1 .. n /\ postOrder[n + 1 - i] = postOrder[k]
    BY <1>1, <1>3 DEF ReversePostOrder
  <2>2. n + 1 - i = k
    BY <2>1 DEF NoRepeats
  <2> QED BY <1>1, <2>2
<1>4. (CHOOSE i \in 1 .. n : Is(i)) = n + 1 - k
  <2> HIDE DEF Is
  <2> QED BY <1>1, <1>2, <1>3
<1> QED BY <1>4 DEF PositionOf

\* Every back edge goes against reverse postorder, and every cycle of a reducible
\* graph runs through a loop header, for every block vector build accepts: the
\* postorder walk and the dominator fixpoint agree on what a loop is.
THEOREM LoopsCorrect == Spec => []LoopsExact
<1>1. Init => LoopsInv
  BY DEF Init, LoopsInv
<1>2. Init => OrdersInv
  BY NoRepeatsEmpty DEF Init, OrdersInv
<1>3. Spec => [](OrdersInv /\ LoopsInv)
  BY <1>1, <1>2, Invariance, OrdersInductive, LoopsInductive, PTL DEF Spec
<1>4. IInv /\ OrdersInv /\ LoopsInv /\ DominatorsExact => LoopsExact
  <2> SUFFICES ASSUME IInv, OrdersInv, LoopsInv, DominatorsExact, phase = "done"
               PROVE  BackEdgesRetreat /\ CyclesHaveHeaders
    BY DEF LoopsExact, BackEdgesRetreat, CyclesHaveHeaders
  <2>1. reachable = ToSet(postOrder) /\ reachable \subseteq Starts
    BY WalksAgree
  <2>2. postOrder \in Seq(Starts) /\ NoRepeats(postOrder) /\ FinishLater
    BY OrdersContext DEF OrdersInv, LoopsInv
  <2>3. Len(postOrder) \in Nat
    BY <2>2
  <2>4. \A b \in reachable : \E k \in 1 .. Len(postOrder) :
          postOrder[k] = b /\ PositionOf(b) = Len(postOrder) + 1 - k
    <3> TAKE b \in reachable
    <3>1. PICK k \in 1 .. Len(postOrder) : postOrder[k] = b
      BY <2>1, <2>2, ToSetIndexed
    <3> QED BY <2>2, <3>1, PositionOfFinished
  <2>5. /\ DOMAIN dominators = reachable
        /\ \A b \in reachable : dominators[b] \subseteq reachable
    BY DEF IInv, DominatorInv
  <2>6. BackEdgesRetreat
    <3> SUFFICES ASSUME NEW e \in backEdges PROVE PositionOf(e[2]) <= PositionOf(e[1])
      BY DEF BackEdgesRetreat
    <3>1. e = <<e[1], e[2]>> /\ e[1] \in reachable /\ e[2] \in Starts
      BY DEF IInv, TypeOK, LoopsInv
    <3>2. e[2] \in dominators[e[1]]
      BY <3>1 DEF LoopsInv, IsBackEdge, Dominates
    <3>3. OnEveryPath(e[2], e[1]) /\ e[2] \in reachable
      BY <2>5, <3>1, <3>2 DEF DominatorsExact, DominatorsSound
    <3>4. PICK i \in 1 .. Len(postOrder) :
            postOrder[i] = e[1] /\ PositionOf(e[1]) = Len(postOrder) + 1 - i
      BY <2>4, <3>1
    <3>5. PICK j \in 1 .. Len(postOrder) :
            postOrder[j] = e[2] /\ PositionOf(e[2]) = Len(postOrder) + 1 - j
      BY <2>4, <3>3
    <3>6. i <= j
      BY <2>2, <3>3, <3>4, <3>5 DEF FinishLater
    <3> QED BY <2>3, <3>4, <3>5, <3>6
  <2>7. CyclesHaveHeaders
    <3> SUFFICES ASSUME ~ Irreducible, NEW C \in SUBSET reachable, IsCycle(C)
                 PROVE  C \cap LoopHeaders # {}
      BY DEF CyclesHaveHeaders
    <3> DEFINE K == {k \in 1 .. Len(postOrder) : postOrder[k] \in C}
    <3>1. K \in SUBSET Nat /\ K # {}
      <4>1. PICK b \in C : b \in reachable
        BY DEF IsCycle
      <4>2. PICK k \in 1 .. Len(postOrder) : postOrder[k] = b
        BY <2>4, <4>1
      <4>3. k \in K
        BY <4>1, <4>2
      <4> QED BY <2>3, <4>3
    <3>2. PICK k \in K : \A l \in K : k <= l
      <4> HIDE DEF K
      <4> QED BY <3>1, LeastElement
    <3>3. k \in 1 .. Len(postOrder) /\ postOrder[k] \in C
      BY <3>2
    <3>4. PICK c \in C : c \in Succs(postOrder[k])
      BY <3>3 DEF IsCycle
    <3>5. PICK l \in 1 .. Len(postOrder) :
            postOrder[l] = c /\ PositionOf(c) = Len(postOrder) + 1 - l
      BY <2>4
    <3>6. k <= l
      BY <3>2, <3>5
    <3>7. PositionOf(postOrder[k]) = Len(postOrder) + 1 - k
      BY <2>2, <3>3, PositionOfFinished
    <3>8. PositionOf(c) <= PositionOf(postOrder[k])
      BY <2>3, <3>3, <3>5, <3>6, <3>7
    <3>9. OnEveryPath(c, postOrder[k])
      BY <3>3, <3>4, <3>8 DEF Irreducible
    <3>10. c \in dominators[postOrder[k]]
      BY <2>1, <3>3, <3>9 DEF DominatorsExact, NoDominatorLost
    <3>11. <<postOrder[k], c>> \in backEdges
      BY <2>1, <2>5, <3>3, <3>4, <3>10 DEF LoopsInv, IsBackEdge, Dominates
    <3>12. c \in LoopHeaders
      <4> DEFINE e == <<postOrder[k], c>>
      <4>1. e \in backEdges /\ e[2] = c
        BY <3>11
      <4> HIDE DEF e
      <4> QED BY <4>1 DEF LoopHeaders
    <3> QED BY <3>12
  <2> QED BY <2>6, <2>7
<1> QED BY <1>3, <1>4, Invariance, DominatorsComputed, PTL

--------------------------------------------------------------------------------
(***************************************************************************)
(* blockContaining, for blocks like those that BasicBlockBuilder makes.    *)
(***************************************************************************)

\* The last instruction of a block starts before its end, unless the end saturates, and
\* before the next block.
FromBuilder(in) ==
  /\ \A i \in 1 .. Len(in) :
       /\ in[i].last \in Address /\ in[i].start <= in[i].last
       /\ in[i].last < in[i].end \/ (in[i].last = in[i].end /\ in[i].end = MaxAddress)
  /\ \A i, j \in 1 .. Len(in) : in[i].start < in[j].start => in[i].last < in[j].start

\* What the index then holds.
IndexInv ==
  \A b \in Starts :
    /\ b \in Nat /\ block[b].last \in Nat /\ block[b].end \in Nat
    /\ block[b].last <= block[b].end
    /\ \A c \in Starts : b < c => block[b].last < c

LEMMA IndexInit == Init => IndexInv
BY EmptyFunction DEF Init, IndexInv, Starts

LEMMA IndexBlocksKeeps ==
  ASSUME NEW in \in Inputs, FromBuilder(in), IndexBlocks(in)
  PROVE  IndexInv'
<1>1. in \in Seq(Block)
  BY InputsAssumption
<1> DEFINE S == {in[i].start : i \in 1 .. Len(in)}
           At(a) == CHOOSE i \in 1 .. Len(in) : in[i].start = a
<1>2. \A a \in S : At(a) \in 1 .. Len(in) /\ in[At(a)].start = a
  OBVIOUS
<1>3. \A i \in 1 .. Len(in) :
        /\ in[i].start \in Nat /\ in[i].last \in Nat /\ in[i].end \in Nat
        /\ in[i].last <= in[i].end
  <2> TAKE i \in 1 .. Len(in)
  <2>1. PICK b \in Block : b = in[i]
    BY <1>1
  <2>2. b.start \in Nat /\ b.end \in Nat
    BY AddressNat DEF Block
  <2>3. b.last \in Nat /\ (b.last < b.end \/ b.last = b.end)
    BY <2>1, AddressNat DEF FromBuilder
  <2> QED BY <2>1, <2>2, <2>3
<1>4. Starts' = S /\ \A a \in S : block'[a] = in[At(a)]
  BY DEF IndexBlocks, Starts
<1> HIDE DEF S, At
<1>5. \A a, c \in S : a < c => in[At(a)].last < c
  BY <1>2 DEF FromBuilder
<1> QED BY <1>2, <1>3, <1>4, <1>5 DEF IndexInv

LEMMA IndexStepKeeps ==
  ASSUME \A in \in Inputs : Accepted(in) => FromBuilder(in), IndexInv, [Next]_vars
  PROVE  IndexInv'
<1>1. CASE UNCHANGED block
  BY <1>1 DEF IndexInv, Starts
<1>2. CASE \E in \in Inputs : IndexBlocks(in)
  BY <1>2, IndexBlocksKeeps DEF IndexBlocks
<1>3. CASE Reset
  BY <1>3, EmptyFunction DEF Reset, IndexInv, Starts
<1>4. CASE BuildEdges \/ Walk \/ Loops
  BY <1>1, <1>4
     DEF BuildEdges, Walk, Loops, ReachBlock, StartPreorder, PreorderBlock, StartPostorder,
         DescendFrame, FinishFrame, InitDominators, RefineDominators, NextPass, FindLoops,
         graphVars
<1>5. CASE (\E in \in Inputs : RejectBlocks(in)) \/ UNCHANGED vars
  BY <1>1, <1>5 DEF RejectBlocks, vars, graphVars
<1> QED BY <1>2, <1>3, <1>4, <1>5 DEF Next, Build

LEMMA Found ==
  ASSUME IndexInv, NEW b \in Starts, NEW a \in b .. block[b].last
  PROVE  BlockContaining(a) = {b}
<1>1. /\ b \in Nat /\ a \in Nat /\ b <= a /\ a <= block[b].last
      /\ block[b].last \in Nat /\ block[b].end \in Nat /\ block[b].last <= block[b].end
  BY DEF IndexInv
<1>2. a < block[b].end \/ (a = block[b].end /\ block[b].last = block[b].end)
  BY <1>1
<1>3. \A c \in Starts : c \in Nat /\ (c <= a => c <= b)
  BY <1>1 DEF IndexInv
<1>4. b \in BlockContaining(a)
  BY <1>1, <1>2, <1>3 DEF BlockContaining
<1>5. \A c \in BlockContaining(a) : c = b
  BY <1>1, <1>3 DEF BlockContaining
<1> QED BY <1>4, <1>5

\* Of any blocks that do not overlap, blockContaining finds the one that an address lies
\* in, up to the largest address.
THEOREM BlocksFound ==
  ASSUME \A in \in Inputs : Accepted(in) => FromBuilder(in)
  PROVE  Spec => []BlockContainingFinds
<1>1. IndexInv /\ [Next]_vars => IndexInv'
  BY IndexStepKeeps
<1>2. IndexInv => BlockContainingFinds
  BY Found DEF BlockContainingFinds
<1> QED BY <1>1, <1>2, IndexInit, PTL DEF Spec

================================================================================
