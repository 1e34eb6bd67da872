SPECIFICATION Spec
CONSTANTS
  editor = editor
  popup = popup
  game = game
  None = none
  Window <- Three
  Framed <- NoneFramed
  Frames = 2
  MaxQueue = 1
  MaxGhosts = 0
INVARIANTS DirectIsOnTop
CHECK_DEADLOCK FALSE
