SPECIFICATION Spec
CONSTANTS
  Names = {"quiet", "stat", "gdb"}
  Decl <- TheDecl
  Lines <- TheLines
  IntMod = 512
  Page = 4
  Memory = 24
  Elfs <- TheElfs
  PhdrRoom = 64
  StackTop = 512
  Envs <- TheEnvs
  Auxs <- TheAuxs
INVARIANTS TypeOK OptionsMeant ImageLoaded StackOK
