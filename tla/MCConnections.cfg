SPECIFICATION FairSpec
CONSTANTS
  c1 = c1
  c2 = c2
  None = none
  Conn <- Two
  Room = 2
INVARIANTS ConnectionsSound
PROPERTIES Disposed Answered
