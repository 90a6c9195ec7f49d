\* A receiver is dropped while another thread opens a file.
SPECIFICATION Spec
CONSTANTS
  Threads = {th1, th2}
  Txs = {tx1}
  Rxs = {rx1}
  Files = {f1}
  Fds = {3, 4, 5, 6}
  ExplicitClose = FALSE
  NoFd = NoFd
  Free = Free
  Idle = Idle
INVARIANTS
  UsesOwnDescriptor
