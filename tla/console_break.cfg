SPECIFICATION ConsoleSpec
CONSTANTS
  Modes = {TRUE}
  Addresses = {0, 1, 2}
  Buttons = {"power", "run", "breakpoint", "tick"}
INVARIANTS
  StopsAtBreakpoint
