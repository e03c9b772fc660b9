SPECIFICATION PromptSpec
CONSTANTS
  v1 = v1 v2 = v2
  p1 = p1 p2 = p2 p3 = p3
  d1 = d1 d2 = d2 d3 = d3
  r1 = r1 r2 = r2
  Vm = {v1}
  Proc = {p1}
  Dir = {d1}
  Repo = {r1}
  DirOf <- Together_DirOf
  RepoOf <- OneHost_RepoOf
  MayRun <- AnyCommand
  NoVm = NoVm NoDir = NoDir NoRepo = NoRepo NoProc = NoProc
SYMMETRY VmSymmetry
CHECK_DEADLOCK FALSE
INVARIANTS KilledUpLeavesFenced
