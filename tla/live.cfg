SPECIFICATION FairSpec
CONSTANTS
  idle = idle
  a = a
  b = b
  c = c
  Threads <- McThreads3
  Idle = idle
  Boot <- McBoot3
  Calls <- LiveCalls
  Ecall = {}
  NoThread = noThread
  UserMutexes = {m1}
  SleepMutex = sleepMutex
  UserConds = {c1}
  SleepCond = sleepCond
  MaxTick = 1
PROPERTIES
  LockReturns
  WokenWaiterReturns
  SleepReturns
