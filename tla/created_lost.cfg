SPECIFICATION Spec
CONSTANTS
  Names = {c}
  Workers = {w1, w2}
  Background = bg
  Main = main
  NoProc = NoProc
  NoName = NoName
  Absent = Absent
  Ops = {"create", "drop"}
  MaxGens = 2
  MaxWrites = 1
  Gens <- MCGens
  Writes <- MCWrites
  Oversize = {}
  IoFaults = FALSE
  Crashes = TRUE
  Shutdowns = FALSE
INVARIANT CreatedSurvives
