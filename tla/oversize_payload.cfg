SPECIFICATION Spec
CONSTANTS
  Names = {c}
  Workers = {w1}
  Background = bg
  Main = main
  NoProc = NoProc
  NoName = NoName
  Absent = Absent
  Ops = {"create", "upsert"}
  MaxGens = 1
  MaxWrites = 2
  Gens <- MCGens
  Writes <- MCWrites
  Oversize = {1}
  IoFaults = FALSE
  Crashes = FALSE
  Shutdowns = TRUE
INVARIANT CleanShutdownKeepsAcked
