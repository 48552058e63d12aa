CONSTANTS
  idle = idle
  low = low
  mid = mid
  high = high
  None = None
  Threads <- MCThreads
  Idle = idle
  Mutexes = {m1, m2}
  Conds = {c}
  Base <- MCBase
  Prios = {3}
  Quantum = 1
  MayUndercut = FALSE
SPECIFICATION Spec
INVARIANTS
  Consistent
  InOrder
  InheritanceExact
PROPERTIES
  HandOverByPriority
  ImplementsLocks
  KernelUnlocks
