SPECIFICATION FairSpec
CONSTANTS
  Names = {c, d}
  Workers = {w1, w2}
  Background = bg
  Main = main
  NoProc = NoProc
  NoName = NoName
  Absent = Absent
  Ops = {"create", "upsert", "delete"}
  MaxGens = 2
  MaxWrites = 2
  Gens <- MCGens
  Writes <- MCWrites
  Oversize = {2}
  IoFaults = FALSE
  Crashes = FALSE
  Shutdowns = TRUE
PROPERTIES RequestsFinish WritesReachDisk ShutdownEnds
