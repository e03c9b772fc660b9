SPECIFICATION Spec
CONSTANTS
  p1 = p1 p2 = p2 r1 = r1 r2 = r2
  Proc = {p1, p2}
  CommandsOf <- Any_CommandsOf
  Toml <- Some_Toml
  Leftover <- Some_Leftover
  Run = {r1, r2} FirstRun = r1 MaxJobs = 1 BigRun = {r2} PerPage = 1
  MaxN = 3 ImageGb = 8 Vcpus = 2 Others = 1 Quota = 6
CHECK_DEADLOCK FALSE
INVARIANTS TypeOK ReadyIsComplete QuietUpFits WatchesAFleet
PROPERTIES ListsEachRunOnce
