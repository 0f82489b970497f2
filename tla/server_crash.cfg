SPECIFICATION AloneSpec
CONSTANTS
  Names = {c, d}
  Workers = {w1, w2}
  Background = bg
  Main = main
  NoProc = NoProc
  NoName = NoName
  Absent = Absent
  Ops = {"create", "drop", "upsert", "snapshot"}
  MaxGens = 3
  MaxWrites = 2
  Gens <- MCGens
  Writes <- MCWrites
  Oversize = {2}
  IoFaults = TRUE
  Crashes = TRUE
  Shutdowns = FALSE
INVARIANTS DirtyCoversUnsaved NoTruncatedSnapshot CreatedSurvives
PROPERTY ImplementsStore
SYMMETRY FullSymmetry
