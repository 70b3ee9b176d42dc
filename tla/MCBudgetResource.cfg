SPECIFICATION Spec
CONSTANTS
  t1 = t1
  t2 = t2
  t3 = t3
  b1 = b1
  b2 = b2
  b3 = b3
  Threads = {t1, t2, t3}
  Blocks = {b1, b2, b3}
  Sizes = {1, 2, 3, 7}
  Limit = 5
  Word = 8
SYMMETRY MCSymmetry
INVARIANTS
  BudgetExact
PROPERTIES
  ImplementsBudget
