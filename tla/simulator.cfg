SPECIFICATION SimulatorSpec
CONSTANTS
  SubSize = 2
  SubCount = 2
  SubTotal = 6
  Mapped <- McMapped
  Firmware = {0, 1, 2}
  Cartridge = {4, 5}
  Programs <- McPrograms
  Odd = 12
  None = none
  Targets <- McTargets
  TrapBase = 8
  Vectored = FALSE
  MaxRetired = 4
  Raised = {7}
  Width = 4
  LowBits = 2
  CsrMask = 10
  RegionSize = 12
  DeviceSizes <- McDeviceSizes
  RamRegion = 0
  FlashRegion = 1
  BlockRegion = 2
  Fixed = {28}
  Acknowledge = {24}
  Tried <- McTried
  Patterns <- McPatterns
  MaxStores = 2
  Positions <- McPositions
  Indexes = {0, 5, 128}
  Extents = {16, 33, 64}
  Texts <- McTexts
  LineWidth = 3
  MaxVideoStores = 2
  Modes = {TRUE, FALSE}
  Addresses = {0, 1, 2}
  Buttons = {"power", "run", "step", "reset", "record", "firmware", "cartridge", "breakpoint", "clear", "tick"}
  Inputs = {up}
  Cartridges = {game, misfit}
  Misplaced = {misfit}
  NoCartridge = none
  Faulting = {2}
  Period = 2
  MaxInt = 2
  MaxSteps = 3
  MaxEvents = 2
  FirmwarePrograms <- McFirmwarePrograms
  CartridgePrograms <- McCartridgePrograms
  Source = 99
  Counters = {0, 2, 4, 9}
  EntryPoint = 0
  Regions <- McRegions
  Labels = 3
  AskedLines = {0, 1, 2, 4, 8, 9, 16, 17, 18, 19, 30}
  Screen <- McScreen
  BirdStart <- McBirdStart
  BirdSize <- McBirdSize
  BlockSide = 2
  PillarWidth = 1
  PillarX = 2
  PillarHeights = {3}
  Speed = 1
  Fall = 3
  Drift = 2
  Directions <- McDirections
  MaxPresses = 1
  MaxBeyond = 0
  Objects <- McObjects
  Abbreviations <- McAbbreviations
  LineDown = 5
  LineRange = 14
  OpcodeBase = 13
  Disk <- McDisk
  BlankLine = 0
  WorkingFolder <- McWorkingFolder
  ElfFolder <- McElfFolder
  Library <- McLibrary
INVARIANTS CacheInv TrapsAreTransparent ResultsExact MemoryInv PictureInv RunControlInv ReplayInv ListingInv SourcesInv BoxInv GameInv
PROPERTIES CallbackReturns
CHECK_DEADLOCK FALSE
