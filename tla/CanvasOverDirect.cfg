SPECIFICATION Spec
CONSTANTS
  editor = editor
  popup = popup
  game = game
  None = none
  Window <- Two
  Framed <- NoneFramed
  Frames = 2
  MaxQueue = 1
  MaxGhosts = 0
INVARIANTS CanvasHidden
CHECK_DEADLOCK FALSE
