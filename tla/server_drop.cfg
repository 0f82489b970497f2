SPECIFICATION Spec
CONSTANTS
  Names = {c, d}
  Workers = {w1, w2, w3}
  Background = bg
  Main = main
  NoProc = NoProc
  NoName = NoName
  Absent = Absent
  Ops = {"create", "drop"}
  MaxGens = 3
  MaxWrites = 1
  Gens <- MCGens
  Writes <- MCWrites
  Oversize = {}
  IoFaults = FALSE
  Crashes = TRUE
  Shutdowns = FALSE
INVARIANT DroppedStaysDropped
PROPERTY RegisteredNeverReplaced
