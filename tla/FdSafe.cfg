\* Two threads that open and close in every way, but keep the rule OpensApart.
SPECIFICATION RuleSpec
CONSTANTS
  Threads = {th1, th2}
  Txs = {tx1, tx2}
  Rxs = {rx1}
  Files = {f1}
  Fds = {3, 4, 5, 6}
  ExplicitClose = TRUE
  NoFd = NoFd
  Free = Free
  Idle = Idle
SYMMETRY Symmetry
INVARIANTS
  UsesOwnDescriptor
  NoLeak
