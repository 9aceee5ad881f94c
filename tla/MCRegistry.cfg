CONSTANTS
  root = root
  pack = pack
  math = math
  names = names
  t1 = t1
  t2 = t2
  t3 = t3
  Nodes = {root, pack, math, names}
  NodeParent <- MCNodeParent
  Label <- MCLabel
  Services = {math, names}
  Children <- MCChildren
  Types = {t1, t2, t3}
  Handlers = {h1, h2}
  Undefined = Undefined
  HasListener = FALSE
  Calls = {c1, c2}
  Root = Root
  None = None
SPECIFICATION Spec
INVARIANT TypeOK
INVARIANT ServedAsDeclared
PROPERTY HandlerStays
CHECK_DEADLOCK FALSE
