------------------------------ MODULE MCPseudocode ------------------------------
(***************************************************************************)
(* Every graph of up to four blocks with all terminators and targets, and  *)
(* graphs of five and six blocks with branches forward.                    *)
(***************************************************************************)
EXTENDS Pseudocode, TLC

Block(kind, target) == [kind |-> kind, target |-> target]

\* Block 0 is an address outside the function.
MCBlocks(n) ==
  {Block("ConditionalJump", t) : t \in 0 .. n} \cup {Block("UnconditionalJump", t) : t \in 0 .. n}
    \cup {Block("Return", NoTarget), Block("Normal", NoTarget), Block("IndirectJump", NoTarget)}

MCSmall == UNION {[1 .. n -> MCBlocks(n)] : n \in 1 .. 3}

Jumps(kind, targets) == {Block(kind, t) : t \in targets}

End == {Block("Return", NoTarget), Block("Normal", NoTarget)}

\* Branches to any block, with a first block that does not return and an end or a jump
\* in the last one.
MCFour ==
  {g \in [1 .. 4 -> Jumps("ConditionalJump", 0 .. 4) \cup Jumps("UnconditionalJump", {0, 2, 3, 4}) \cup End] :
     /\ g[1].kind = "ConditionalJump"
     /\ g[4].kind # "ConditionalJump"
     /\ \A b \in 2 .. 4 : g[b] # Block("UnconditionalJump", b) /\ g[b] # Block("ConditionalJump", 0)}

\* Forward branches only.
MCForward(n) ==
  {g \in [1 .. n -> Jumps("ConditionalJump", 3 .. n) \cup Jumps("UnconditionalJump", 4 .. n) \cup End] :
     /\ g[1].kind = "ConditionalJump" /\ g[n] \in End
     /\ \A b \in 1 .. n - 1 : /\ g[b].kind \in {"ConditionalJump", "UnconditionalJump"} => g[b].target > b + 1
                              /\ g[b].kind # "Normal"}

MCGraphs == MCSmall \cup MCFour \cup MCForward(5) \cup MCForward(6)

================================================================================
