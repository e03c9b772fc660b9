SPECIFICATION Spec
CONSTANTS
  a1 = a1 a2 = a2 b1 = b1 old = old
  r1 = r1 r2 = r2
  p1 = p1 p2 = p2 p3 = p3
  Document = {a1, a2, b1, old}
  Current = {a1, a2, b1}
  Repo = {r1, r2}
  RepoIn <- OneSlug_RepoIn
  Proc = {p1, p2, p3}
  RepoFor <- OneSlug_RepoFor
  NoDocument = NoDocument Torn = Torn NoProc = NoProc
CHECK_DEADLOCK FALSE
INVARIANTS TypeOK HolderKnowsFile HolderOwnsFile
PROPERTIES ImplementsRegister
