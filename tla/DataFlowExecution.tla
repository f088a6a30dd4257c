--------------------------- MODULE DataFlowExecution ---------------------------
(***************************************************************************)
(* The function and the code recovered for it run side by side, along the  *)
(* path that the machine takes.  Values are terms over what registers and  *)
(* memory hold at the start and over what calls return, so that two equal  *)
(* terms are equal numbers whatever the inputs are.  Unknown is what the   *)
(* machine's convention leaves open (an incoming register that carries no  *)
(* argument, one a call has destroyed) and what the recovered code does    *)
(* not claim to know.                                                      *)
(***************************************************************************)
EXTENDS DataFlow

CONSTANTS
  Offsets,    \* the displacements of the slots that are used
  MaxSteps    \* bound on the instructions of an execution

\* What a function stores on the stack does not overlap: a parameter has eight bytes.
ASSUME OffsetsAssumption ==
  /\ Offsets \subseteq Int /\ NoOffset \notin Offsets
  /\ \A d \in Offsets : d >= 16 => d % 8 = 0
  /\ \A p \in Programs : \A b \in DOMAIN p : \A k \in DOMAIN p[b] : MemoryOperands(p[b][k]) \subseteq Offsets

VARIABLES
  at,          \* <<block, instruction>>
  steps,       \* instructions executed
  register,    \* the machine: registers, slots, flags
  slot,
  flags,
  stack,       \* what has been pushed
  clobbered,   \* registers that a call destroyed and nothing has written since
  hidden,      \* registers whose contents no name of the recovered code stands for
  depth,       \* of the stack at the last push
  values,      \* the recovered code: values of the names assigned so far
  lapses,      \* lapses of the instructions executed
  observed     \* pairs of what the last instruction shows: machine, recovered code

machineVars == <<at, steps, register, slot, flags, stack, clobbered, hidden, depth>>
executionVars == <<dataFlowVars, machineVars, values, lapses, observed>>

Unknown == <<"unknown", 0>>
Zero == <<"constant", 0>>

\* Operations on values.
Term(operation, left, right) ==
  CASE Unknown \in {left, right} -> Unknown
    [] Unknown \notin {left, right} /\ left = right /\ operation \in {"^", "-"} -> Zero
    [] Unknown \notin {left, right} /\ left = right /\ operation \in {"&", "|"} -> left
    [] OTHER -> <<operation, left, right>>

--------------------------------------------------------------------------------
(***************************************************************************)
(* The machine.                                                            *)
(***************************************************************************)

\* A register that can carry an argument may do so, whatever the analysis has found.
InitialRegister(r) ==
  IF r \in ToSet(ParameterRegisters) THEN <<"initial", ParameterIndex(r)>> ELSE Unknown

InitialSlot(d) == IF d >= 16 THEN <<"initial", StackParameterIndex(d)>> ELSE <<"slot", d>>

OperandTerm(o) ==
  CASE o[1] = "register"  -> register[o[2]]
    [] o[1] = "immediate" -> <<"constant", o[2]>>
    [] o[1] = "memory"    -> slot[o[2]]

\* What is divided: both registers, or rax alone where rdx only extends its sign.
Dividend ==
  IF register["rdx"] = Term("signs", register["rax"], Zero)
  THEN register["rax"] ELSE Term("wide", register["rdx"], register["rax"])

\* The value an instruction computes; an operation of a register with itself that is
\* always zero does not depend on the register.
Computed(i) ==
  LET Operand(k) == OperandTerm(i.operands[k])
      Operation  == BinaryOpcode[i.code]
  IN  CASE i.code = "mov"   -> Operand(2)
        [] i.code = "movzx" -> Term("cast", Operand(2), Zero)
        [] i.code = "neg"   -> Term("neg", Operand(1), Zero)
        [] i.code \in {"lea", "imul3"} ->
             Term(IF i.code = "lea" THEN "+" ELSE "*", Operand(2), Operand(3))
        [] i.code = "pop"   -> IF stack = <<>> THEN Unknown ELSE Last(stack)
        [] i.code \in Arithmetic ->
             IF i.code \in {"xor", "sub"} /\ i.operands[1] = i.operands[2]
             THEN Zero ELSE Term(Operation, Operand(1), Operand(2))

\* Flags are those of a difference or of a result.
Difference(left, right) == <<"difference", left, right>>
ResultFlags(result) == <<"result", result, Zero>>

FlagsAfter(i) ==
  CASE i.code \in {"cmp", "sub"} -> Difference(OperandTerm(i.operands[1]), OperandTerm(i.operands[2]))
    [] i.code = "test" -> ResultFlags(Term("&", OperandTerm(i.operands[1]), OperandTerm(i.operands[2])))
    [] i.code \in {"add", "xor", "and", "or", "neg"} -> ResultFlags(Computed(i))
    [] i.code \in {"shl", "imul", "imul3", "mul", "idiv", "call", "unknown"} ->
         Difference(Unknown, Unknown)
    [] OTHER -> flags

ConditionHolds(condition) ==
  CASE condition = "e" -> Term("==", flags[2], flags[3])
    [] condition = "l" -> Term("<", flags[2], flags[3])
    [] condition = "s" -> Term("<", IF flags[1] = "difference" THEN Term("-", flags[2], flags[3])
                                                               ELSE flags[2], Zero)
    [] OTHER -> Unknown

Select(condition, whenTrue, whenFalse) ==
  IF Unknown \in {condition, whenTrue, whenFalse} THEN Unknown
  ELSE <<"select", condition, <<whenTrue, whenFalse>> >>

Returned == <<"returned", steps>>

\* What an instruction that is not lifted leaves in a register or in memory.
Unlifted(o) == <<"unlifted", <<steps, o>> >>

\* What is written to the destination of an instruction.
Written(i) ==
  CASE i.code = "set"  -> Select(ConditionHolds(i.condition), <<"constant", 1>>, Zero)
    [] i.code = "cmov" -> Select(ConditionHolds(i.condition), OperandTerm(i.operands[2]), OperandTerm(i.operands[1]))
    [] OTHER -> Computed(i)

\* Products and quotients fill rax and rdx; cdq only extends the sign of rax.
ImplicitResult(i, r) ==
  LET Half(low, high) == IF r = "rax" THEN low ELSE high
      Of(operation, left) == Term(operation, left, OperandTerm(i.operands[1]))
  IN  CASE i.code = "mul"  -> Half(Of("*", register["rax"]), Of("high", register["rax"]))
        [] i.code = "idiv" -> Half(Of("/", Dividend), Of("%", Dividend))
        [] i.code = "cdq"  -> Half(register["rax"], Term("signs", register["rax"], Zero))

RegistersAfter(i) ==
  [r \in Registers |->
     CASE i.code = "unknown" /\ <<"register", r>> \in i.written -> Unlifted(<<"register", r>>)
       [] i.code # "unknown" /\ OperandsWritten(i) = {<<"register", r>>} -> Written(i)
       [] r \in ImplicitlyWritten(i) -> ImplicitResult(i, r)
       [] i.code = "call" /\ r = "rax" -> Returned
       [] i.code = "call" /\ r \in CallClobbered \ {"rax"} -> Unknown
       [] OTHER -> register[r]]

SlotsAfter(i) ==
  [d \in Offsets |->
     CASE i.code = "unknown" /\ <<"memory", d>> \in i.written -> Unlifted(<<"memory", d>>)
       [] i.code # "unknown" /\ OperandsWritten(i) = {<<"memory", d>>} -> Written(i)
       [] OTHER -> slot[d]]

\* What lies where rsp points to is not known any more when rsp has been moved.
StackAfter(i) ==
  IF i.code = "frame" \/ "rsp" \in RegistersWritten(i) THEN <<>>
  ELSE CASE i.code = "push" -> Append(stack, OperandTerm(i.operands[1]))
         [] i.code = "pop" /\ stack # <<>> -> Front(stack)
         [] OTHER -> stack

ClobberedAfter(i) ==
  (IF i.code = "call" THEN CallClobbered \ {"rax"} ELSE clobbered) \ RegistersWritten(i)

\* What the IR names is not hidden: rax is the destination of a product or quotient.
\* The recovery passes over what is written to a frame register, or by an instruction
\* that is not lifted.
HiddenAfter(i) ==
  CASE i.code = "call" -> hidden \ CallClobbered
    [] i.code = "unknown" -> hidden \cup RegistersWritten(i)
    [] ImplicitlyWritten(i) # {} -> hidden \cup {"rdx"}
    [] OTHER -> (hidden \ RegistersWritten(i)) \cup (RegistersWritten(i) \cap FrameRegisters)

--------------------------------------------------------------------------------
(***************************************************************************)
(* The recovered code.                                                     *)
(***************************************************************************)

\* A name that has not been assigned: an argument or a local variable has the value
\* of its register or slot, a register or a condition in the text is not known, and a
\* variable without an initializer is not initialised.
InitialValue(name) ==
  CASE name[1] = "arg"    -> <<"initial", name[2]>>
    [] name[1] = "local"  -> <<"slot", -name[2]>>
    [] name[1] = "memory" -> InitialSlot(name[2])
    [] name[1] \in {"register", "condition"} -> Unknown
    [] OTHER -> name

ValueOf(name, env) == IF name \in DOMAIN env THEN env[name] ELSE InitialValue(name)

\* The value of a text: of each of its symbols, up to the last.
Evaluate(text, env) ==
  LET value[k \in DOMAIN text] ==
        IF text[k].operation = "name" THEN ValueOf(text[k].name, env)
        ELSE Term(text[k].operation, value[k - text[k].back], value[k - 1])
  IN  value[Len(text)]

Denotes(text) == Evaluate(text, values)

StatementAt(b, k) == blocks[b][k].statement

ValuesAfter(statement) ==
  CASE statement.kind = "assignment" ->
         Put(values, statement.destination, Denotes(statement.expression))
    [] statement.kind = "conditional" ->
         Put(values, statement.destination,
             Select(Denotes(statement.expression), Denotes(statement.arguments[1]),
                    Denotes(statement.arguments[2])))
    [] statement.kind = "call" -> Put(values, statement.destination, Returned)
    [] OTHER -> values

Declared ==
  LET initialised == {k \in DOMAIN variables : variables[k].initializer # <<>>}
  IN  [name \in {variables[k].name : k \in initialised} |->
         InitialValue(variables[CHOOSE k \in initialised : variables[k].name = name].initializer)]

\* What an instruction shows of the machine and of the recovered code: the arguments
\* of a call, the result of a return, the condition of a branch, and every slot.
ArgumentPairs(statement) ==
  {<<register[ParameterRegisters[k]], Denotes(statement.arguments[k])>> :
     k \in {j \in DOMAIN statement.arguments : statement.arguments[j] # NoText}}

SlotName(d) ==
  CASE d \in abi.stackVariables  -> <<"local", -d>>
    [] d \in abi.stackParameters -> <<"arg", StackParameterIndex(d)>>
    [] OTHER -> <<"memory", d>>

Shown(i, statement) ==
  {<<SlotsAfter(i)[d], ValueOf(SlotName(d), ValuesAfter(statement))>> : d \in Offsets}
    \cup CASE statement.kind = "call" -> ArgumentPairs(statement)
           [] statement.kind = "return" /\ abi.returnsValue ->
                {<<register["rax"], Denotes(statement.expression)>>}
           [] statement.kind = "branch" -> {<<ConditionHolds(i.condition), Denotes(statement.expression)>>}
           [] OTHER -> {}

\* The registers whose contents the recovered code states.  Of an instruction that it
\* passes over it states nothing.
RegistersUsed(i, statement) ==
  CASE i.code = "call" -> {ParameterRegisters[k] :
                             k \in {j \in DOMAIN statement.arguments : statement.arguments[j] # NoText}}
    [] i.code = "ret" -> IF abi.returnsValue THEN {"rax"} ELSE {}
    [] i.code \in {"mul", "idiv"} -> {"rax"} \cup RegistersAmong(OperandsRead(i))
    [] \/ i.code \in {"unknown", "jmp"}
       \/ RegistersAmong(OperandsWritten(i)) \cap FrameRegisters # {} -> {}
    [] OTHER -> RegistersAmong(OperandsRead(i))

\* Lapses that depend on the path: the only block is executed again; an instruction
\* uses a register whose contents nothing names, or divides what rdx holds; it pops
\* what was not pushed last; it is not lifted and writes memory.
PathLapses(i, statement) ==
  {l \in {"loop", "unnamed", "stack", "unlifted"} :
     CASE l = "loop"     -> ~Materialize /\ at[2] # steps + 1
       [] l = "unnamed"  -> \/ RegistersUsed(i, statement) \cap hidden # {}
                            \/ "rbp" \in hidden /\ MemoryOperands(i) # {}
                            \/ i.code = "idiv" /\ Dividend # register["rax"]
       [] l = "stack"    -> i.code = "pop" /\ (stack = <<>> \/ Len(stack) # depth)
       [] l = "unlifted" -> i.code = "unknown" /\ \E o \in i.written : ~IsRegister(o)}

--------------------------------------------------------------------------------

ExecutionInit ==
  /\ DataFlowInit
  /\ at = <<1, 1>> /\ steps = 0
  /\ register = [r \in Registers |-> Unknown] /\ slot = [d \in Offsets |-> InitialSlot(d)]
  /\ flags = Difference(Unknown, Unknown) /\ stack = <<>>
  /\ clobbered = {} /\ hidden = {} /\ depth = 0
  /\ values = <<>> /\ lapses = {} /\ observed = {}

RecoverStep ==
  /\ DataFlowNext
  /\ UNCHANGED <<machineVars, values, lapses, observed>>

\* All blocks have been recovered, and the function is called.  A register that is not
\* found to be a parameter has no name, also when it carries one.
Start ==
  /\ stage = "recover"
  /\ AtBlock \notin DOMAIN program
  /\ stage' = "execute"
  /\ register' = [r \in Registers |-> InitialRegister(r)]
  /\ hidden' = ToSet(ParameterRegisters) \ abi.registers
  /\ values' = Declared
  /\ UNCHANGED <<program, abi, state, variables, blocks, at, steps, slot, flags, stack, clobbered, depth,
                 lapses, observed>>

\* Where execution goes on.  Values are symbolic, so that both ways of a branch are
\* open; behind the last block the function ends.
Following(i) ==
  CASE i.code = "jmp" -> {<<i.target, 1>>}
    [] i.code = "jcc" -> {<<i.target, 1>>, <<at[1] + 1, 1>>}
    [] i.code \notin {"jmp", "jcc"} /\ at[2] < Len(program[at[1]]) -> {<<at[1], at[2] + 1>>}
    [] OTHER -> {<<at[1] + 1, 1>>}

Execute ==
  /\ stage = "execute"
  /\ steps < MaxSteps
  /\ LET i == program[at[1]][at[2]]
         entry == blocks[at[1]][at[2]]
     IN  /\ register' = RegistersAfter(i)
         /\ slot' = SlotsAfter(i)
         /\ flags' = FlagsAfter(i)
         /\ stack' = StackAfter(i)
         /\ clobbered' = ClobberedAfter(i)
         /\ hidden' = HiddenAfter(i)
         /\ depth' = IF i.code = "push" THEN Len(stack') ELSE depth
         /\ values' = ValuesAfter(entry.statement)
         /\ lapses' = lapses \cup entry.lapses \cup PathLapses(i, entry.statement)
         /\ observed' = Shown(i, entry.statement)
         /\ at' \in Following(i)
         /\ stage' = IF i.code = "ret" \/ at'[1] \notin DOMAIN program THEN "stopped" ELSE stage
  /\ steps' = steps + 1
  /\ UNCHANGED <<program, abi, state, variables, blocks>>

ExecutionNext == RecoverStep \/ Start \/ Execute

ExecutionSpec == ExecutionInit /\ [][ExecutionNext]_executionVars

--------------------------------------------------------------------------------
(***************************************************************************)
(* Properties.                                                             *)
(***************************************************************************)

Agree(pair) == Unknown \in {pair[1], pair[2]} \/ pair[1] = pair[2]

\* As long as no text has been used that the lapses name, the recovered code computes
\* what the function computes: each argument of a call, the result, the conditions of
\* branches and every variable on the stack, whatever blocks were executed and in
\* whatever order the recovery met them (DataFlowAnalyzer::analyze).
RecoveredCodeExact == lapses = {} => \A pair \in observed : Agree(pair)

\* The same without an exception: what is recovered is what the function computes.
RecoveredAlways == \A pair \in observed : Agree(pair)

\* While a function of one block is executed for the first time, no argument of a call
\* is a register that an earlier call destroyed and nothing has written since: the
\* values of parameter registers are dropped after a call, and offered again only when
\* they are written.
ArgumentsAreLive ==
  stage = "execute" /\ program[at[1]][at[2]].code = "call" /\ ~Materialize
    /\ at[2] = steps + 1 =>
    \A k \in DOMAIN ParameterRegisters :
      ParameterRegisters[k] \in clobbered => StatementAt(at[1], at[2]).arguments[k] = NoText

================================================================================
