--------------------------- MODULE BasicBlockBuilder ---------------------------
(***************************************************************************)
(* BasicBlockBuilder::build: one pass over the instructions collects the   *)
(* leaders, a second one cuts the stream in front of every leader.         *)
(***************************************************************************)
EXTENDS BasicBlocks

CONSTANT Streams   \* the instruction streams a function can disassemble to

ASSUME StreamsAssumption ==
  \A is \in Streams : is \in Seq(Instruction) /\ IsInstructionStream(is)

VARIABLES
  phase,          \* "scan", "cut" or "done"
  instructions,   \* the argument of build
  index,          \* position of the loop of the current phase
  leaders,        \* addresses at which a block starts
  from,           \* first instruction of "current", 0 when current is empty
  blocks          \* the blocks finished so far, in order

vars == <<phase, instructions, index, leaders, from, blocks>>

Init ==
  /\ instructions \in Streams
  /\ phase  = IF instructions = <<>> THEN "done" ELSE "scan"
  /\ index  = 1
  /\ leaders = IF instructions = <<>> THEN {} ELSE {instructions[1].address}
  /\ from   = 0
  /\ blocks = <<>>

InstructionAddresses == {instructions[i].address : i \in 1 .. Len(instructions)}

TargetLeader(i) ==
  IF IsDirectBranch(instructions[i].kind)
    THEN {instructions[i].directTarget} \cap InstructionAddresses
    ELSE {}

\* Mutation: a return does not end a block.
FollowingLeaderJumpsOnly(i) ==
  IF /\ TerminatesBasicBlock(instructions[i].kind) /\ instructions[i].kind # "Return"
     /\ i < Len(instructions)
    THEN {instructions[i + 1].address}
    ELSE {}

FollowingLeader(i) ==
  IF TerminatesBasicBlock(instructions[i].kind) /\ i < Len(instructions)
    THEN {instructions[i + 1].address}
    ELSE {}

\* One iteration of the loop that collects the leaders.
ScanInstruction ==
  /\ phase = "scan"
  /\ leaders' = leaders \cup TargetLeader(index) \cup FollowingLeader(index)
  /\ IF index = Len(instructions)
       THEN phase' = "cut" /\ index' = 1
       ELSE index' = index + 1 /\ UNCHANGED phase
  /\ UNCHANGED <<instructions, from, blocks>>

StartsBlock(i) == from # 0 /\ instructions[i].address \in leaders

\* Mutation: the leader is still put into the block it should end.
FinishBlockLate(i) ==
  Append(blocks, BlockOf(instructions, from, IF i > Len(instructions) THEN i - 1 ELSE i))

\* finishBlock in front of instruction i.
FinishBlock(i) == Append(blocks, BlockOf(instructions, from, i - 1))

\* One iteration of the loop that cuts: a leader first finishes the block that
\* is being collected, then the instruction is added to the current block.
CutInstruction ==
  /\ phase = "cut"
  /\ index <= Len(instructions)
  /\ blocks' = IF StartsBlock(index) THEN FinishBlock(index) ELSE blocks
  /\ from'  = IF from = 0 \/ StartsBlock(index) THEN index ELSE from
  /\ index' = index + 1
  /\ UNCHANGED <<phase, instructions, leaders>>

\* The block that is still open when the stream ends.
FinishLastBlock ==
  /\ phase = "cut"
  /\ index = Len(instructions) + 1
  /\ blocks' = FinishBlock(index)
  /\ from'   = 0
  /\ phase'  = "done"
  /\ UNCHANGED <<instructions, index, leaders>>

Next == ScanInstruction \/ CutInstruction \/ FinishLastBlock

Spec == Init /\ [][Next]_vars

--------------------------------------------------------------------------------
(***************************************************************************)
(* Properties.                                                             *)
(***************************************************************************)

Covers(b, i) == b.start <= instructions[i].address /\ instructions[i].address <= b.last

(***************************************************************************)
(* While the stream is being cut, the finished blocks hold exactly the     *)
(* instructions already passed and not in the open block, each in one      *)
(* block, and the blocks are in address order: nothing is lost, duplicated *)
(* or moved across a cut (the stream-cutting loop of build).               *)
(***************************************************************************)
BlocksPartitionPrefix ==
  /\ \A k \in 1 .. Len(blocks) - 1 : blocks[k].last < blocks[k + 1].start
  /\ \A i \in 1 .. Len(instructions) :
       LET passed == i < index /\ (from = 0 \/ i < from)
       IN  (\E k \in 1 .. Len(blocks) : Covers(blocks[k], i)) <=> (phase # "scan" /\ passed)

(***************************************************************************)
(* Control enters a finished block only at its start and leaves it only at *)
(* its end: no terminator and no direct-branch target of the stream lies   *)
(* strictly inside, which is what makes a block basic and what the edges   *)
(* of the control-flow graph rely on.                                      *)
(***************************************************************************)
SingleEntrySingleExit ==
  \A k \in 1 .. Len(blocks), i, j \in 1 .. Len(instructions) :
    Covers(blocks[k], j) =>
      /\ TerminatesBasicBlock(instructions[j].kind) =>
           instructions[j].address = blocks[k].last
      /\ (/\ IsDirectBranch(instructions[i].kind)
          /\ instructions[i].directTarget = instructions[j].address) =>
           instructions[j].address = blocks[k].start

(***************************************************************************)
(* A block is cut only where it must be: at the end of the build a block   *)
(* that is not the first either follows a terminator or is the target of   *)
(* a direct branch.                                                        *)
(***************************************************************************)
MaximalBlocks ==
  phase = "done" =>
    \A k \in 2 .. Len(blocks) :
      \/ TerminatesBasicBlock(blocks[k - 1].kind)
      \/ \E i \in 1 .. Len(instructions) :
           /\ IsDirectBranch(instructions[i].kind)
           /\ instructions[i].directTarget = blocks[k].start

(***************************************************************************)
(* The blocks are basic and as long as basic blocks can be.                *)
(***************************************************************************)
BlocksAreBasic == SingleEntrySingleExit /\ MaximalBlocks

================================================================================
