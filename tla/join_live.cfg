SPECIFICATION FairSpec
CONSTANTS
  idle = idle
  a = a
  b = b
  c = c
  Threads <- McThreads3
  Idle = idle
  Boot <- McBoot3
  Calls <- JoinCalls
  Ecall = {}
  NoThread = noThread
  UserMutexes = {m1}
  SleepMutex = sleepMutex
  UserConds = {}
  SleepCond = sleepCond
  MaxTick = 0
PROPERTIES
  JoinReturns
