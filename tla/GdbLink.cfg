SPECIFICATION FairSpec
CONSTANTS
  NInsns = 3
  Faulting = {3}
  Commands <- Sound
  MaxCommands = 3
  MaxNoise = 2
  MaxInterrupts = 2
INVARIANTS TypeOK InStep OneInsnPerTrap ViewCurrent
PROPERTY CommandAnswered
CHECK_DEADLOCK FALSE
