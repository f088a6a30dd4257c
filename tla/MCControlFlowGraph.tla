--------------------------- MODULE MCControlFlowGraph ---------------------------
(***************************************************************************)
(* Graphs of up to four blocks for ControlFlowGraph: every combination of  *)
(* terminators and in-function targets, among them irreducible graphs,     *)
(* nested and overlapping loops, dead blocks and self loops.  The blocks   *)
(* occupy the last addresses, so the last one has a saturated end.         *)
(***************************************************************************)
EXTENDS ControlFlowGraph, TLC

\* A one-instruction block at address a.
MCBlock(a, kind, target) ==
  [start |-> a, end |-> InstructionEnd([address |-> a, size |-> 1]),
   first |-> a, last |-> a, kind |-> kind, target |-> target]

\* Inside the graph a branch to the next block has the successors of a Normal
\* terminator, so those targets are left to the small graphs below.
MCTerminators(targets) ==
  [kind : {"ConditionalJump", "UnconditionalJump"}, target : targets]
    \cup [kind : {"Return", "Normal"}, target : {NoAddress}]

\* Terminators whose target is unknown, outside the function, or no branch at all.
MCOddTerminators ==
  [kind : {"ConditionalJump", "UnconditionalJump"}, target : {0, NoAddress}]
    \cup [kind : {"IndirectJump", "Invalid"}, target : {NoAddress}]
    \cup [kind : {"Call"}, target : {2}]

MCGraphs(base, n, terminators) ==
  {[i \in 1 .. n |-> MCBlock(base + i - 1, f[i].kind, f[i].target)] :
     f \in [1 .. n -> terminators]}

\* Nothing follows the last block, so its conditional jumps are left out as well,
\* and the entry is not a return.
MCFourBlocks ==
  {g \in MCGraphs(2, 4, MCTerminators(2 .. 5)) :
     /\ \A i \in 1 .. 4 : g[i].target # g[i].start + 1
     /\ g[1].kind # "Return"
     /\ g[4].kind \in {"UnconditionalJump", "Return"}}

MCMalformed ==
  LET good == MCBlock(2, "Return", NoAddress)
  IN  {<<>>,
       <<good, [good EXCEPT !.kind = "Normal"]>>,
       <<[good EXCEPT !.first = NoAddress, !.last = NoAddress]>>,
       <<good, [MCBlock(3, "Return", NoAddress) EXCEPT !.first = 4]>>,
       <<[good EXCEPT !.end = 1]>>}

MCUnsorted ==
  {<<MCBlock(4, "UnconditionalJump", 2), MCBlock(2, "ConditionalJump", 4),
     MCBlock(3, "Return", NoAddress)>>}

\* Blocks of several instructions, with and without a gap between them.
MCLongBlocks ==
  {<<[MCBlock(second, "UnconditionalJump", 0) EXCEPT !.last = last, !.end = 5],
     [MCBlock(0, "ConditionalJump", second) EXCEPT !.last = 1, !.end = 2]>> :
     second \in {2, 3}, last \in {4, 5}}

MCInputs ==
  MCFourBlocks
    \cup MCGraphs(4, 2, MCTerminators({4, 5}) \cup MCOddTerminators)
    \cup MCGraphs(3, 3, MCTerminators({3, 4}) \cup MCOddTerminators)
    \cup MCMalformed \cup MCUnsorted \cup MCLongBlocks

================================================================================
