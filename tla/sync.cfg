SPECIFICATION Spec
CONSTANTS
  idle = idle
  a = a
  b = b
  c = c
  Threads <- McThreads4
  Idle = idle
  Boot <- McBoot4
  Calls <- SyncCalls
  Ecall = {}
  NoThread = noThread
  UserMutexes = {m1}
  SleepMutex = sleepMutex
  UserConds = {c1}
  SleepCond = sleepCond
  MaxTick = 0
INVARIANTS
  TypeOK
  PreemptionRespected
  MutualExclusion
PROPERTIES
  ImplementsFifoLock
