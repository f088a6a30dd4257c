------------------------------ MODULE BasicBlocks ------------------------------
(***************************************************************************)
(* The data that the disassembler, the basic-block builder and the         *)
(* control-flow graph exchange: decoded instructions and basic blocks.     *)
(* Operand text, opcode bytes and registers play no part in control flow   *)
(* and are left out; an instruction keeps its address, the number of its   *)
(* bytes, its kind and its direct target.                                  *)
(***************************************************************************)
EXTENDS Naturals, Sequences

CONSTANTS
  MaxAddress,   \* the largest address of the machine, 2^64 - 1 in the code
  NoAddress     \* an empty optional<uint64_t>

ASSUME MaxAddressAssumption == MaxAddress \in Nat
ASSUME NoAddressAssumption  == NoAddress \notin Nat

Address == 0 .. MaxAddress

InstructionKind ==
  {"Normal", "Call", "Return", "ConditionalJump", "UnconditionalJump",
   "IndirectJump", "Invalid"}

Instruction ==
  [address : Address, size : Nat, kind : InstructionKind,
   directTarget : Address \cup {NoAddress}]

(***************************************************************************)
(* A block as ControlFlowGraph::build receives it.  "first" is the address *)
(* of its first instruction (NoAddress when it has none), "last", "kind"   *)
(* and "target" those of its final instruction, the terminator.            *)
(***************************************************************************)
Block ==
  [start : Address, end : Address, first : Address \cup {NoAddress},
   last : Address \cup {NoAddress}, kind : InstructionKind,
   target : Address \cup {NoAddress}]

(***************************************************************************)
(* The address one past an instruction.  An empty byte vector counts as    *)
(* one byte and the sum saturates instead of wrapping.                     *)
(***************************************************************************)
InstructionEnd(i) ==
  LET byteCount == IF i.size = 0 THEN 1 ELSE i.size
  IN  IF i.address + byteCount > MaxAddress THEN MaxAddress
                                            ELSE i.address + byteCount

TerminatesBasicBlock(kind) ==
  kind \in {"Return", "ConditionalJump", "UnconditionalJump", "IndirectJump"}

IsDirectBranch(kind) == kind \in {"ConditionalJump", "UnconditionalJump"}

(***************************************************************************)
(* The block made of the instructions is[i .. j].                          *)
(***************************************************************************)
BlockOf(is, i, j) ==
  [start  |-> is[i].address,
   end    |-> InstructionEnd(is[j]),
   first  |-> is[i].address,
   last   |-> is[j].address,
   kind   |-> is[j].kind,
   target |-> is[j].directTarget]

(***************************************************************************)
(* The disassembler is a linear sweep: every instruction has at least one  *)
(* byte and begins where the previous one ended (code under test streams   *)
(* may leave gaps, but addresses always increase).                         *)
(***************************************************************************)
IsInstructionStream(is) ==
  \A i \in 1 .. Len(is) :
    /\ is[i].size > 0
    /\ \A j \in 1 .. i - 1 : is[j].address + is[j].size <= is[i].address

================================================================================
