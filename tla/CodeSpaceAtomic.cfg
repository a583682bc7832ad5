SPECIFICATION Spec
CONSTANTS
  Harts = {h1, h2}
  Addrs = {0}
  Regs = {0, 1, 2, 3, 4, 5}
  WordMod = 4
  Inputs <- AllInputs
  Longs <- SomeLongs
  Programs <- AllPrograms
  Breakable <- TheSequence
PROPERTIES AtomicSpec SameAsOriginal
SYMMETRY Symmetry
