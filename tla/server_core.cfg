SPECIFICATION Spec
CONSTANTS
  Names = {c}
  Workers = {w1, w2, w3}
  Background = bg
  Main = main
  NoProc = NoProc
  NoName = NoName
  Absent = Absent
  Ops = {"create", "upsert", "delete", "snapshot"}
  MaxGens = 1
  MaxWrites = 2
  Gens <- MCGens
  Writes <- MCWrites
  Oversize = {}
  IoFaults = FALSE
  Crashes = TRUE
  Shutdowns = TRUE
SYMMETRY WorkerSymmetry
INVARIANTS DirtyCoversUnsaved TornOnlyWhileWriting CleanShutdownKeepsAcked
