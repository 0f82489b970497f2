SPECIFICATION Spec
CONSTANTS
  Names = {c}
  Workers = {w1}
  Background = bg
  Main = main
  NoProc = NoProc
  NoName = NoName
  Absent = Absent
  Ops = {"create", "drop", "upsert"}
  MaxGens = 1
  MaxWrites = 1
  Gens <- MCGens
  Writes <- MCWrites
  Oversize = {}
  IoFaults = FALSE
  Crashes = TRUE
  Shutdowns = FALSE
INVARIANT DroppedStaysDropped
