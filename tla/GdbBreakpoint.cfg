SPECIFICATION FairSpec
CONSTANTS
  NInsns = 3
  Faulting = {}
  Commands <- StepBreak
  MaxCommands = 3
  MaxNoise = 0
  MaxInterrupts = 0
PROPERTY BreakpointReported
