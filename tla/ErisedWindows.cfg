SPECIFICATION Spec
CONSTANTS
  Elfs <- TheElfs
  Mine <- TheElf
  Cores = {2}
  MaxRuns = 2
  Dec <- TheDec
  Bins = 3
INVARIANTS CountersDisjoint LocalInCode BinsCover LostOnlyIfRaced
PROPERTIES OneInsnPerClick CrashOnlyAtEnds
