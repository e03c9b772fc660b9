SPECIFICATION Spec
CONSTANTS
  b1 = b1 b2 = b2 b3 = b3 o1 = o1
  r1 = r1 r2 = r2
  kA = kA kB = kB
  Image = {b1, b2, b3, o1}
  Baker = {b1, b2, b3}
  Repo = {r1, r2}
  Key = {kA, kB}
  RepoFor <- TwoAndOne_RepoFor
  KeyFor <- Disagree_KeyFor
  NoKey = NoKey NoImage = NoImage
CHECK_DEADLOCK FALSE
INVARIANTS NameIsForTheRepo
