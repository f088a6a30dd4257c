SPECIFICATION ExecutionSpec
CONSTANTS
  Registers <- MCRegisters
  FrameRegisters = {"rbp", "rsp"}
  ParameterRegisters <- MCParameterRegisters
  CallClobbered = {"rax", "rdi", "rsi", "rdx"}
  NoRegister = NoRegister
  NoOffset = NoOffset
  Programs <- MCPrograms
  Offsets <- MCOffsets
  MaxSteps = 10
INVARIANTS
  RecoveredCodeExact
  ArgumentsAreLive
CHECK_DEADLOCK FALSE
