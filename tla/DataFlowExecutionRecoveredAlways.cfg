SPECIFICATION ExecutionSpec
CONSTANTS
  Registers <- MCRegisters
  FrameRegisters = {"rbp", "rsp"}
  ParameterRegisters <- MCParameterRegisters
  CallClobbered = {"rax", "rdi", "rsi", "rdx"}
  NoRegister = NoRegister
  NoOffset = NoOffset
  Programs <- MCNotRecovered
  Offsets <- MCOffsets
  MaxSteps = 16
INVARIANT
  RecoveredAlways
CHECK_DEADLOCK FALSE
