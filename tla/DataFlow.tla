-------------------------------- MODULE DataFlow --------------------------------
(***************************************************************************)
(* DataFlowAnalyzer::analyze: the values of registers and stack slots are  *)
(* followed through a function as texts of source code, one instruction    *)
(* per step, in the order of the addresses.  In a function of one block a  *)
(* register stands for the expression that was last written to it; in a    *)
(* function of several, every register that is written is a variable.      *)
(*                                                                         *)
(* A text is the sequence of its names and operations, each operation      *)
(* behind its operands.  What the recovery itself never knows is kept      *)
(* beside its state and read by no action: which cached texts mention a    *)
(* name that has been assigned since ("stale") and, for each instruction,  *)
(* the ways in which the texts it uses may no longer be what the machine   *)
(* holds ("lapses").                                                       *)
(***************************************************************************)
EXTENDS Lifting

CONSTANT Programs   \* functions: sequences of blocks, which are sequences of instructions

ASSUME ProgramsAssumption ==
  /\ Programs \subseteq Seq(Seq(DecodedInstructions))
  /\ \A p \in Programs : p # <<>> /\ \A b \in DOMAIN p : p[b] # <<>>

VARIABLES
  program,     \* the function
  stage,       \* "abi", "recover", then "execute" and "stopped"
  abi,         \* AbiAnalysisResult
  state,       \* RecoveryState, and the comparison of the block
  variables,   \* DataFlowAnalysis::variables
  blocks       \* DataFlowAnalysis::blocks: per instruction a statement and its lapses

dataFlowVars == <<program, stage, abi, state, variables, blocks>>

Instructions(p) == FlattenSeq(p)

\* materializeRegisters
Materialize == Len(program) > 1

--------------------------------------------------------------------------------
(***************************************************************************)
(* Texts.                                                                  *)
(***************************************************************************)

Symbol(operation, name, back) == [operation |-> operation, name |-> name, back |-> back]

Text(name) == <<Symbol("name", name, 0)>>

Constant(c) == Text(<<"constant", c>>)

\* condition_<address>, for a condition the recovery does not know.
UnknownCondition == Text(<<"condition", 0>>)

NoText == <<>>

\* The right operand ends before the operation, the left one as many symbols back as
\* "back" says.
Apply(operation, left, right) ==
  left \o right \o <<Symbol(operation, <<"constant", 0>>, Len(right) + 1)>>

NamesIn(text) == {text[k].name : k \in {j \in DOMAIN text : text[j].operation = "name"}}

\* binaryOperator
BinaryOperators == {"+", "-", "*", "/", "^", "&", "|", "<<"}

\* binaryExpression
Binary(left, operation, right) ==
  IF operation \in {"^", "-"} /\ left = right THEN Constant(0)
                                              ELSE Apply(operation, left, right)

Cast(text) == Apply("cast", text, Constant(0))
Negation(text) == Apply("neg", text, Constant(0))

--------------------------------------------------------------------------------
(***************************************************************************)
(* Where the text of a value comes from, in the order valueText looks: the *)
(* variable of a register, its expression, the name of a local variable,   *)
(* what was last stored to a stack parameter, or the name in the IR.       *)
(***************************************************************************)

Place(s, value) ==
  CASE value.register \in DOMAIN s.registerVariables -> "variable"
    [] value.register \notin DOMAIN s.registerVariables
         /\ value.register \in DOMAIN s.registerValues -> "expression"
    [] value.register \notin DOMAIN s.registerVariables \cup DOMAIN s.registerValues
         /\ value.kind # "StackVariable" /\ value.offset \in DOMAIN s.stackValues -> "slot"
    [] OTHER -> "name"

ValueText(s, value) ==
  CASE Place(s, value) = "variable"   -> Text(s.registerVariables[value.register])
    [] Place(s, value) = "expression" -> s.registerValues[value.register]
    [] Place(s, value) = "slot"       -> s.stackValues[value.offset]
    [] Place(s, value) = "name"       ->
         IF value.name[1] = "constant" THEN Constant(value.name[2]) ELSE Text(value.name)

\* leaExpression goes by the names of the registers, so that a register without a
\* value has its own name even if it is a parameter.
RegisterText(s, value) == ValueText(s, [value EXCEPT !.name = <<"register", value.register>>])

\* A register has a variable, which is what its text is, and a newer expression.
Shadowed(s, r) == ~Materialize /\ r \in DOMAIN s.registerVariables \cap DOMAIN s.registerValues

ValueLapses(s, b, value) ==
  {l \in {"shadowed", "overwritten", "other block"} :
     CASE l = "shadowed"    -> Shadowed(s, value.register)
       [] l = "overwritten" -> \/ Place(s, value) = "expression" /\ <<"register", value.register>> \in s.stale
                               \/ Place(s, value) = "slot" /\ <<"slot", value.offset>> \in s.stale
       [] l = "other block" -> Place(s, value) = "slot" /\ s.storedIn[value.offset] # b}

--------------------------------------------------------------------------------
(***************************************************************************)
(* Caches.  When a name is assigned, the cached texts that mention it are  *)
(* stale from then on.                                                     *)
(***************************************************************************)

Put(f, key, value) == [k \in DOMAIN f \cup {key} |-> IF k = key THEN value ELSE f[k]]

Without(f, keys) == [k \in DOMAIN f \ keys |-> f[k]]

Assigned(s, name) ==
  [s EXCEPT !.stale =
     @ \cup {<<"register", r>> : r \in {q \in DOMAIN s.registerValues : name \in NamesIn(s.registerValues[q])}}
       \cup {<<"slot", d>> : d \in {e \in DOMAIN s.stackValues : name \in NamesIn(s.stackValues[e])}}
       \cup {<<"comparison", 0>> : c \in {c \in {s.comparison} : name \in NamesIn(c.left) \cup NamesIn(c.right)}}]

NoComparison == [known |-> FALSE, left |-> NoText, right |-> NoText, isBitTest |-> FALSE, current |-> FALSE]

Compared(s, left, right, isBitTest) ==
  [s EXCEPT !.comparison = [known |-> TRUE, left |-> left, right |-> right,
                            isBitTest |-> isBitTest, current |-> TRUE],
            !.stale = @ \ {<<"comparison", 0>>}]

--------------------------------------------------------------------------------
(***************************************************************************)
(* Statements and variables.  An outcome of a step of the recovery is the  *)
(* next state, the variables declared so far, the statement and lapses.    *)
(***************************************************************************)

Statement(kind, destination, expression, arguments) ==
  [kind |-> kind, destination |-> destination, expression |-> expression, arguments |-> arguments]

NoStatement == Statement("none", <<"constant", 0>>, NoText, <<>>)

Outcome(s, declared, statement, lapses) ==
  [state |-> s, variables |-> declared, statement |-> statement, lapses |-> lapses]

DeclaredNames(declared) == {declared[k].name : k \in DOMAIN declared}

Declare(declared, name, initializer) == Append(declared, [name |-> name, initializer |-> initializer])

\* The first tempN from nextTemporary on that is no variable yet, and its N.
FreshTemporary(s, declared) ==
  CHOOSE n \in s.nextTemporary .. s.nextTemporary + Len(declared) :
    /\ <<"temp", n>> \notin DeclaredNames(declared)
    /\ \A m \in s.nextTemporary .. n - 1 : <<"temp", m>> \in DeclaredNames(declared)

\* "result" if wanted and free, else the next temporary.
NewName(s, declared, wantResult) ==
  IF wantResult /\ <<"result", 0>> \notin DeclaredNames(declared)
  THEN [name |-> <<"result", 0>>, next |-> s.nextTemporary]
  ELSE [name |-> <<"temp", FreshTemporary(s, declared)>>, next |-> FreshTemporary(s, declared) + 1]

\* appendAssignment
Assignment(s, declared, name, text, lapses) ==
  IF Text(name) = text THEN Outcome(s, declared, NoStatement, lapses)
  ELSE Outcome(Assigned(s, name), declared, Statement("assignment", name, text, <<>>), lapses)

\* writeValue
Write(s, declared, b, destination, text, lapses) ==
  LET r == destination.register
      d == destination.offset
      stored == [s EXCEPT !.stackValues = Put(@, d, text), !.storedIn = Put(@, d, b),
                          !.stale = @ \ {<<"slot", d>>}]
      available == [s EXCEPT !.availableRegisters = @ \cup {r}]
  IN  CASE r \in FrameRegisters -> Outcome(s, declared, NoStatement, lapses)
        [] r # NoRegister /\ r \notin FrameRegisters /\ Materialize ->
             Assignment(available, declared, s.registerVariables[r], text, lapses)
        [] r # NoRegister /\ r \notin FrameRegisters /\ ~Materialize ->
             Outcome([available EXCEPT !.registerValues = Put(@, r, text),
                                       !.stale = @ \ {<<"register", r>>}],
                     declared, NoStatement, lapses)
        [] r = NoRegister ->
             Assignment(IF d = NoOffset THEN s ELSE stored, declared, destination.name, text, lapses)

--------------------------------------------------------------------------------
(***************************************************************************)
(* Conditions pair a comparison with the flags an instruction tests.       *)
(***************************************************************************)

\* testExpression
TestText(c) == IF c.left = c.right THEN c.left ELSE Apply("&", c.left, c.right)

\* conditionExpression
ConditionText(s, condition) ==
  LET c == s.comparison
      Compare(operation) == IF c.isBitTest THEN Apply(operation, TestText(c), Constant(0))
                                           ELSE Apply(operation, c.left, c.right)
  IN  CASE c.known /\ condition = "e" -> Compare("==")
        [] c.known /\ condition = "l" -> Compare("<")
        [] c.known /\ condition = "s" -> Apply("<", TestText(c), Constant(0))
        [] OTHER -> UnknownCondition

\* The sign of a comparison is printed as that of "left & right", whether the
\* instruction was a test or not.
ConditionLapses(s, condition) ==
  {l \in {"flags", "overwritten", "sign"} :
     /\ ConditionText(s, condition) # UnknownCondition
     /\ CASE l = "flags"       -> ~s.comparison.current
          [] l = "overwritten" -> <<"comparison", 0>> \in s.stale
          [] l = "sign"        -> condition = "s" /\ ~s.comparison.isBitTest}

\* writeConditionalValue
WriteConditional(s, declared, b, destination, condition, choices, lapses) ==
  LET r == destination.register
      d == destination.offset
      new == NewName(s, declared, r = "rax")
      Select(t, names, name) ==
        Outcome(t, names, Statement("conditional", name, condition, choices), lapses)
  IN  CASE r \in FrameRegisters -> Outcome(s, declared, NoStatement, lapses)
        [] r # NoRegister /\ r \notin FrameRegisters ->
             LET known == r \in DOMAIN s.registerVariables
                 name  == IF known THEN s.registerVariables[r] ELSE new.name
                 t     == Assigned(s, name)
             IN  Select([t EXCEPT !.registerVariables = Put(@, r, name),
                                  !.nextTemporary = IF known THEN @ ELSE new.next,
                                  !.availableRegisters = @ \cup {r},
                                  !.registerValues = Without(@, {r}),
                                  !.stale = @ \ {<<"register", r>>}],
                        IF known THEN declared ELSE Declare(declared, name, <<>>), name)
        [] r = NoRegister ->
             LET t == Assigned(s, destination.name)
             IN  Select(IF d = NoOffset THEN t
                        ELSE [t EXCEPT !.stackValues = Put(@, d, Text(destination.name)),
                                       !.storedIn = Put(@, d, b),
                                       !.stale = @ \ {<<"slot", d>>}],
                        declared, destination.name)

--------------------------------------------------------------------------------
(***************************************************************************)
(* Calls.                                                                  *)
(***************************************************************************)

Argument(s, r) ==
  CASE r \in s.availableRegisters /\ r \in DOMAIN s.registerVariables -> Text(s.registerVariables[r])
    [] r \in s.availableRegisters /\ r \in DOMAIN s.registerValues \ DOMAIN s.registerVariables ->
         s.registerValues[r]
    [] OTHER -> NoText

Arguments(s) == [k \in DOMAIN ParameterRegisters |-> Argument(s, ParameterRegisters[k])]

ArgumentLapses(s, b) ==
  UNION {ValueLapses(s, b, IRValue("Register", <<"register", r>>, r, NoOffset)) :
           r \in ToSet(ParameterRegisters) \cap s.availableRegisters}

\* Mutation: what the call may have destroyed is kept.
KeepClobbered(s) == s

\* The loop over callClobberedRegisters.
DropClobbered(s) ==
  IF Materialize THEN s
  ELSE [s EXCEPT !.availableRegisters = @ \ CallClobbered,
                 !.registerValues = Without(@, CallClobbered),
                 !.stale = @ \ {<<"register", r>> : r \in CallClobbered}]

\* callResultName and the case of a call.
Call(s, declared, b, arguments) ==
  LET new    == NewName(s, declared, s.nextCallResult = 0)
      known  == Materialize /\ "rax" \in DOMAIN s.registerVariables
      name   == IF known THEN s.registerVariables["rax"] ELSE new.name
      t      == DropClobbered(Assigned(s, name))
      u      == [t EXCEPT !.availableRegisters = @ \cup {"rax"},
                          !.nextTemporary = IF known THEN @ ELSE new.next,
                          !.nextCallResult = IF known THEN @ ELSE @ + 1]
  IN  Outcome(IF Materialize THEN u ELSE [u EXCEPT !.registerValues = Put(@, "rax", Text(name))],
              IF known THEN declared ELSE Declare(declared, name, <<>>),
              Statement("call", name, NoText, arguments), ArgumentLapses(s, b))

--------------------------------------------------------------------------------
(***************************************************************************)
(* recoverInstruction.                                                     *)
(***************************************************************************)

\* Any other instruction that writes the flags leaves the comparison as it was.
FlagsWritten(s, i) ==
  IF i.code \in Arithmetic \cup {"imul3", "mul", "idiv", "call", "unknown"} THEN [s EXCEPT !.comparison.current = FALSE] ELSE s

RecoverCompare(s, declared, b, i, sources) ==
  Outcome(Compared(s, ValueText(s, sources[1]), ValueText(s, sources[2]), i.code = "test"),
          declared, NoStatement, UNION {ValueLapses(s, b, sources[k]) : k \in 1 .. 2})

RecoverNegation(s, declared, b, ir, lapses) ==
  LET text == Negation(ValueText(s, ir.operands[1]))
  IN  Write(Compared(s, text, Constant(0), FALSE), declared, b, ir.destination, text, lapses)

Recover(s, declared, b, i) ==
  LET ir == Lift(i, abi)
      Value(k) == ValueText(s, ir.operands[k])
      lapses == UNION {ValueLapses(s, b, ir.operands[k]) : k \in DOMAIN ir.operands}
      Put1(text) == Write(s, declared, b, ir.destination, text, lapses)
      Emit(statement, l) == Outcome(s, declared, statement, l)
  IN  CASE i.code = "frame" -> Emit(NoStatement, {})
        [] i.code = "lea"   -> Put1(Binary(RegisterText(s, ir.operands[1]), "+", RegisterText(s, ir.operands[2])))
        [] ir.opcode \in BinaryOperators /\ i.code # "lea" -> Put1(Binary(Value(1), ir.opcode, Value(2)))
        [] ir.opcode \in {"Assign", "Store", "Load"} -> Put1(Value(1))
        [] ir.opcode = "Cast"    -> Put1(Cast(Value(1)))
        [] ir.opcode = "Negate"  -> RecoverNegation(s, declared, b, ir, lapses)
        [] ir.opcode = "Compare" -> RecoverCompare(s, declared, b, i, ir.operands)
        [] ir.opcode = "ConditionalSelect" ->
             WriteConditional(s, declared, b, ir.destination, ConditionText(s, i.condition),
                              <<Value(1), Value(2)>>, lapses \cup ConditionLapses(s, i.condition))
        [] ir.opcode = "Call"    -> Call(s, declared, b, Arguments(s))
        [] ir.opcode = "Return"  ->
             Emit(Statement("return", <<"constant", 0>>, IF abi.returnsValue THEN Value(1) ELSE NoText, <<>>), lapses)
        [] ir.opcode = "ConditionalJump" ->
             Emit(Statement("branch", <<"constant", 0>>, ConditionText(s, i.condition), <<>>),
                  ConditionLapses(s, i.condition))
        [] ir.opcode = "Unknown" /\ i.code # "frame" ->
             Emit(Statement("unsupported", <<"constant", 0>>, NoText, <<>>), {})
        [] OTHER -> Emit(NoStatement, {})

--------------------------------------------------------------------------------
(***************************************************************************)
(* analyze.                                                                *)
(***************************************************************************)

EmptyState ==
  [registerValues |-> <<>>, stackValues |-> <<>>, registerVariables |-> <<>>,
   availableRegisters |-> {}, nextTemporary |-> 0, nextCallResult |-> 0,
   comparison |-> NoComparison, stale |-> {}, storedIn |-> <<>>]

DataFlowInit ==
  /\ program \in Programs
  /\ stage = "abi"
  /\ abi = AbiAnalysis(<<>>)
  /\ state = EmptyState
  /\ variables = <<>>
  /\ blocks = <<>>

AnalyzeAbi ==
  /\ stage = "abi"
  /\ abi' = AbiAnalysis(Instructions(program))
  /\ stage' = "prepare"
  /\ UNCHANGED <<program, state, variables, blocks>>

\* Mutation: the variable of a parameter register starts without its value.
Uninitialized(r) == <<>>

Initializer(r) == IF r \in abi.registers THEN <<"arg", ParameterIndex(r)>> ELSE <<>>

\* One instruction of prepareRegisterVariables.
PrepareVariable(outcome, i) ==
  LET s   == outcome.state
      r   == Lift(i, abi).destination.register
      new == NewName(s, outcome.variables, r = "rax" /\ abi.returnsValue)
  IN  IF r \in {NoRegister} \cup FrameRegisters \cup DOMAIN s.registerVariables
      THEN outcome
      ELSE Outcome([s EXCEPT !.registerVariables = Put(@, r, new.name), !.nextTemporary = new.next],
                   Declare(outcome.variables, new.name, Initializer(r)), NoStatement, {})

\* All of them, in the order of the addresses.
PrepareVariables(start) ==
  LET instructions == Instructions(program)
      outcome[n \in 0 .. Len(instructions)] ==
        IF n = 0 THEN start ELSE PrepareVariable(outcome[n - 1], instructions[n])
  IN  outcome[Len(instructions)]

Prepare ==
  /\ stage = "prepare"
  /\ LET s == [EmptyState EXCEPT !.registerValues = [r \in abi.registers |-> Text(<<"arg", ParameterIndex(r)>>)],
                                 !.availableRegisters = abi.registers]
         start == Outcome(s, <<>>, NoStatement, {})
         ready == IF Materialize THEN PrepareVariables(start) ELSE start
     IN  state' = ready.state /\ variables' = ready.variables
  /\ stage' = "recover"
  /\ UNCHANGED <<program, abi, blocks>>

\* The block whose instructions are being recovered.
AtBlock ==
  IF blocks # <<>> /\ Len(blocks[Len(blocks)]) < Len(program[Len(blocks)])
  THEN Len(blocks) ELSE Len(blocks) + 1

RecoverInstruction ==
  /\ stage = "recover"
  /\ AtBlock \in DOMAIN program
  /\ LET b       == AtBlock
         before  == IF b \in DOMAIN blocks THEN blocks[b] ELSE <<>>
         i       == program[b][Len(before) + 1]
         s       == IF before = <<>> THEN [state EXCEPT !.comparison = NoComparison,
                                                        !.stale = @ \ {<<"comparison", 0>>}]
                                     ELSE state
         outcome == Recover(s, variables, b, i)
         done    == Append(before, [statement |-> outcome.statement, lapses |-> outcome.lapses])
     IN  /\ state' = FlagsWritten(outcome.state, i)
         /\ variables' = outcome.variables
         /\ blocks' = IF before = <<>> THEN Append(blocks, done) ELSE [blocks EXCEPT ![b] = done]
  /\ UNCHANGED <<program, stage, abi>>

DataFlowNext == AnalyzeAbi \/ Prepare \/ RecoverInstruction

================================================================================
