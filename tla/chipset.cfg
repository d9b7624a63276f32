SPECIFICATION ChipSpec
CONSTANTS
  ChannelCount = 1
  MemorySize = 12
  Addresses = {0, 1, 7, 8}
  Sizes = {1, 3, 4, 5, 6}
  MaxJobs = 2
  Sources = {"Video", "Command"}
  DeviceSources = {"Video", "Command"}
  MaxTime = 3
  MaxRaised = 1
  Modes = {TRUE, FALSE}
  WordSize = 3
  Period = 2
  Enables = {{}, {"Command"}}
INVARIANTS DmaInv TimeReadInRange EventsCountedOnce ClockAndLinesRight
PROPERTIES TransferExact NoOverrun EndIsRaised TransferEnds
CHECK_DEADLOCK FALSE
