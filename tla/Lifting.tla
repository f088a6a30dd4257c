-------------------------------- MODULE Lifting --------------------------------
(***************************************************************************)
(* AbiAnalyzer::analyze and IRLifter: what one pass over the instructions  *)
(* of a function takes for its parameters and stack variables, and the     *)
(* operation and values each instruction is lifted to.                     *)
(*                                                                         *)
(* Registers are families (al, ax and eax are rax) and widths are left     *)
(* out.  An operand is <<"register", r>>, <<"immediate", c>>, or           *)
(* <<"memory", d>> for [rbp + d].  A name, in the IR and in the recovered  *)
(* code, is a pair of a kind and a register or number: <<"arg", 0>> is     *)
(* arg0, <<"local", 4>> is local_4, <<"result", 0>> is result.             *)
(***************************************************************************)
EXTENDS Integers, Sequences, FiniteSets, SequencesExt

CONSTANTS
  Registers,           \* register families
  FrameRegisters,      \* rbp, rsp, rip and rflags
  ParameterRegisters,  \* systemVParameterRegisters, in order
  CallClobbered,       \* systemVCallClobberedRegisters
  NoRegister,          \* an IR value without registerId
  NoOffset             \* an IR value without stackOffset

ASSUME RegistersAssumption ==
  /\ FrameRegisters \subseteq Registers
  /\ ParameterRegisters \in Seq(Registers)
  /\ CallClobbered \subseteq Registers
  /\ ToSet(ParameterRegisters) \subseteq CallClobbered
  /\ {"rax", "rdx"} \subseteq CallClobbered
  /\ FrameRegisters \cap CallClobbered = {}
  /\ Len(ParameterRegisters) <= 6
  /\ NoRegister \notin Registers

--------------------------------------------------------------------------------
(***************************************************************************)
(* What an instruction reads and writes.  The operands of lea are the base *)
(* and the index of its address.                                           *)
(***************************************************************************)

Arithmetic == {"add", "sub", "xor", "and", "or", "shl", "imul"}

IsRegister(operand) == operand[1] = "register"

Operands == ({"register"} \X Registers) \cup ({"immediate", "memory"} \X Int)

OperandCount(code) ==
  IF code \in Arithmetic \cup {"mov", "movzx", "cmp", "test", "cmov"} THEN 2
  ELSE IF code \in {"lea", "imul3"} THEN 3
  ELSE IF code \in {"neg", "mul", "idiv", "push", "pop", "set"} THEN 1 ELSE 0

OperandsWritten(i) ==
  IF i.code \in Arithmetic \cup {"mov", "movzx", "lea", "neg", "set", "cmov", "imul3", "pop"}
  THEN {i.operands[1]} ELSE IF i.code = "unknown" THEN i.written ELSE {}

Codes ==
  Arithmetic \cup {"mov", "movzx", "lea", "neg", "set", "cmov", "imul3", "pop", "push", "cmp", "test",
                   "mul", "idiv", "cdq", "call", "ret", "jcc", "jmp", "nop", "frame", "unknown"}

\* "unknown" is the code of every instruction that is not lifted, and "frame" that of
\* the push, pop and mov that set up and leave the frame of rbp.  What the decoder marks
\* as read and written is kept where the operands above do not say it: "read" for
\* unknown instructions, indirect calls and jumps, "written" for unknown instructions.
\* What is written is a register or memory, and an address is made of registers.
DecodedInstructions ==
  {i \in [code : Codes, condition : STRING, operands : Seq(Operands), target : Nat,
          read : SUBSET Operands, written : SUBSET Operands] :
     /\ Len(i.operands) = OperandCount(i.code)
     /\ \A o \in OperandsWritten(i) : o[1] # "immediate"
     /\ i.code = "lea" => \A k \in 2 .. 3 : IsRegister(i.operands[k])}

RegistersAmong(operands) == {o[2] : o \in {p \in operands : IsRegister(p)}}

\* The operands the decoder marks as read.  The idiom that sets a register to zero
\* (isSelfXor) reads nothing.
OperandsRead(i) ==
  CASE i.code \in {"mov", "movzx"} -> {i.operands[2]}
    [] i.code = "lea" -> {i.operands[2], i.operands[3]}
    [] i.code = "xor" /\ i.operands[1] = i.operands[2] -> {}
    [] i.code \in Arithmetic \cup {"cmp", "test", "cmov"} -> {i.operands[1], i.operands[2]}
    [] i.code = "imul3" -> {i.operands[2], i.operands[3]}
    [] i.code \in {"neg", "mul", "idiv", "push"} -> {i.operands[1]}
    [] i.code \in {"unknown", "call", "jmp"} -> i.read
    [] OTHER -> {}

\* registersRead and registersWritten of the decoder, beyond the operands.
ImplicitlyRead(i) ==
  CASE i.code \in {"mul", "cdq"} -> {"rax"}
    [] i.code = "idiv"          -> {"rax", "rdx"}
    [] OTHER                    -> {}

ImplicitlyWritten(i) == IF i.code \in {"mul", "idiv", "cdq"} THEN {"rax", "rdx"} ELSE {}

RegistersRead(i) == RegistersAmong(OperandsRead(i)) \cup ImplicitlyRead(i)

RegistersWritten(i) == RegistersAmong(OperandsWritten(i)) \cup ImplicitlyWritten(i)

MemoryOperands(i) ==
  {o[2] : o \in {p \in ToSet(i.operands) \cup i.read \cup i.written : p[1] = "memory"}}

--------------------------------------------------------------------------------
(***************************************************************************)
(* AbiAnalyzer.                                                            *)
(***************************************************************************)

ParameterIndex(r) == (CHOOSE k \in DOMAIN ParameterRegisters : ParameterRegisters[k] = r) - 1

StackParameterIndex(offset) == 6 + (offset - 16) \div 8

\* A parameter register that is read while no instruction listed before it has
\* written it is a parameter.
AbiAnalysis(instructions) ==
  LET Overwritten(i) == RegistersWritten(i) \cup (IF i.code = "call" THEN CallClobbered ELSE {})
      offsets == UNION {MemoryOperands(i) : i \in ToSet(instructions)}
  IN  [registers |->
         {r \in ToSet(ParameterRegisters) :
            \E k \in DOMAIN instructions :
              /\ r \in RegistersRead(instructions[k])
              /\ \A j \in 1 .. k - 1 : r \notin Overwritten(instructions[j])},
       stackParameters |-> {d \in offsets : d >= 16},
       stackVariables |-> {d \in offsets : d < 0},
       returnsValue |-> /\ \E i \in ToSet(instructions) : i.code = "ret"
                        /\ \E i \in ToSet(instructions) :
                             "rax" \in RegistersWritten(i) \/ i.code = "call"]

--------------------------------------------------------------------------------
(***************************************************************************)
(* IRLifter.                                                               *)
(***************************************************************************)

IRValue(kind, name, register, offset) ==
  [kind |-> kind, name |-> name, register |-> register, offset |-> offset]

\* registerValue: as a source, the register of a parameter is that parameter.
RegisterValue(r, abi, destination) ==
  IF r \in abi.registers /\ ~destination
  THEN IRValue("Parameter", <<"arg", ParameterIndex(r)>>, r, NoOffset)
  ELSE IRValue("Register", <<"register", r>>, r, NoOffset)

ImmediateValue(c) == IRValue("Immediate", <<"constant", c>>, NoRegister, NoOffset)

MemoryValue(d, abi) ==
  IF d \in abi.stackVariables THEN IRValue("StackVariable", <<"local", -d>>, NoRegister, d)
  ELSE IF d \in abi.stackParameters
       THEN IRValue("Parameter", <<"arg", StackParameterIndex(d)>>, NoRegister, d)
       ELSE IRValue("Memory", <<"memory", d>>, NoRegister, NoOffset)

OperandValue(o, abi, destination) ==
  CASE o[1] = "register"  -> RegisterValue(o[2], abi, destination)
    [] o[1] = "immediate" -> ImmediateValue(o[2])
    [] o[1] = "memory"    -> MemoryValue(o[2], abi)

ReturnRegisterValue == IRValue("Register", <<"register", "rax">>, "rax", NoOffset)

NoValue == IRValue("Unknown", <<"constant", 0>>, NoRegister, NoOffset)

Lifted(opcode, destination, operands) ==
  [opcode |-> opcode, destination |-> destination, operands |-> operands]

\* The memory that push and pop name, whatever rsp is.
TopValue == IRValue("Memory", <<"top", 0>>, NoRegister, NoOffset)

BinaryOpcode ==
  [add |-> "+", sub |-> "-", xor |-> "^", and |-> "&", or |-> "|", shl |-> "<<", imul |-> "*"]

MoveOpcode(i) ==
  IF i.operands[1][1] = "memory" THEN "Store"
  ELSE IF i.operands[2][1] = "memory" THEN "Load" ELSE "Assign"

LiftMove(i, abi) ==
  Lifted(MoveOpcode(i), OperandValue(i.operands[1], abi, TRUE),
         <<OperandValue(i.operands[2], abi, FALSE)>>)

LiftLea(i, abi) ==
  Lifted("+", OperandValue(i.operands[1], abi, TRUE),
         [k \in 1 .. 2 |-> OperandValue(i.operands[k + 1], abi, FALSE)])

\* With one operand the product is that of rax, with three the first is written only.
LiftMultiply(i, abi) ==
  LET Source(k) == OperandValue(i.operands[k], abi, FALSE)
      Target    == OperandValue(i.operands[1], abi, TRUE)
  IN  CASE i.code = "mul"   -> Lifted("*", ReturnRegisterValue, <<ReturnRegisterValue, Source(1)>>)
        [] i.code = "imul"  -> Lifted("*", Target, <<Source(1), Source(2)>>)
        [] i.code = "imul3" -> Lifted("*", Target, <<Source(2), Source(3)>>)

LiftConditionalSelect(i, abi) ==
  Lifted("ConditionalSelect", OperandValue(i.operands[1], abi, TRUE),
         IF i.code = "set" THEN <<ImmediateValue(1), ImmediateValue(0)>>
         ELSE <<OperandValue(i.operands[2], abi, FALSE), OperandValue(i.operands[1], abi, FALSE)>>)

Transfers == {"call", "ret", "jcc", "jmp"}

\* The first part of liftInstruction goes by the kind of the instruction.
LiftTransfer(i, abi) ==
  CASE i.code = "call" -> Lifted("Call", ReturnRegisterValue, <<>>)
    [] i.code = "ret"  -> Lifted("Return", NoValue,
                                 IF abi.returnsValue THEN <<ReturnRegisterValue>> ELSE <<>>)
    [] i.code = "jcc"  -> Lifted("ConditionalJump", NoValue, <<>>)
    [] i.code = "jmp"  -> Lifted("Jump", NoValue, <<>>)

\* liftInstruction: the destination and the sources of each instruction.
Lift(i, abi) ==
  LET Source(k) == OperandValue(i.operands[k], abi, FALSE)
      Target    == OperandValue(i.operands[1], abi, TRUE)
  IN  CASE i.code = "mov"   -> LiftMove(i, abi)
        [] i.code = "lea"   -> LiftLea(i, abi)
        [] i.code \in {"mul", "imul", "imul3"} -> LiftMultiply(i, abi)
        [] i.code \in Arithmetic \ {"imul"} ->
             Lifted(BinaryOpcode[i.code], Target, <<Source(1), Source(2)>>)
        [] i.code = "idiv"  -> Lifted("/", ReturnRegisterValue, <<ReturnRegisterValue, Source(1)>>)
        [] i.code = "push"  -> Lifted("Store", TopValue, <<Source(1)>>)
        [] i.code = "pop"   -> Lifted("Load", Target, <<TopValue>>)
        [] i.code = "movzx" -> Lifted("Cast", Target, <<Source(2)>>)
        [] i.code = "neg"   -> Lifted("Negate", Target, <<Source(1)>>)
        [] i.code \in {"cmp", "test"} -> Lifted("Compare", NoValue, <<Source(1), Source(2)>>)
        [] i.code \in {"set", "cmov"} -> LiftConditionalSelect(i, abi)
        [] i.code \in Transfers -> LiftTransfer(i, abi)
        [] i.code = "nop"   -> Lifted("Nop", NoValue, <<>>)
        [] OTHER            -> Lifted("Unknown", NoValue, <<>>)

================================================================================
