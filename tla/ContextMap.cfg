SPECIFICATION Spec
CONSTANTS
  Threads = {t1, t2, t3}
  NULL = NULL
  CONTEXTS_MAX = 2
SYMMETRY Alike
INVARIANTS
  SelfFinds
