SPECIFICATION FairSpec
CONSTANTS
  editor = editor
  popup = popup
  game = game
  None = none
  Window <- Two
  Framed <- JustEditor
  Frames = 2
  MaxQueue = 2
  MaxGhosts = 1
INVARIANTS ListSound WaysCurrent ScreenIsServers
PROPERTIES Settles
CHECK_DEADLOCK FALSE
