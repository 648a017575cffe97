\* Four names: a move under a grandchild, and lists long enough for a
\* removal from their middle.
SPECIFICATION Spec
CONSTANTS
  Names = {a, b, c, d}
  NoParent = NoParent
INVARIANTS TypeOK LinksAgree Acyclic
PROPERTY ImplementsHierarchy
CHECK_DEADLOCK FALSE
