SPECIFICATION Spec
CONSTANTS
  idle = idle
  a = a
  b = b
  c = c
  Threads <- McThreads4
  Idle = idle
  Boot <- McBoot2
  Calls <- LifeCalls
  Ecall = {a}
  NoThread = noThread
  UserMutexes = {m1}
  SleepMutex = sleepMutex
  UserConds = {c1}
  SleepCond = sleepCond
  MaxTick = 2
INVARIANTS
  HartInv
  UserInterruptible
  StackOwnership
  NoHang
  EveryThreadFiledOnce
PROPERTIES
  FinishedForGood
  NoEarlyWake
