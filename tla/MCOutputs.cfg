CONSTANTS
  panel = panel
  monitor = monitor
  virtual = virtual
  f1 = f1
  f2 = f2
  NoOutput = NoOutput
  Output <- MCOutput
  Remote = virtual
  Flaky <- Unreliable
  Copy <- Copies
SPECIFICATION FairSpec
INVARIANTS CopiesSound DarkIsWakeable
PROPERTIES CopiesAnswered
