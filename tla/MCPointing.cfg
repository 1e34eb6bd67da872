CONSTANTS
  wayland = wayland
  office = office
  lockScreen = lockScreen
  left = left
  f1 = f1
  None = None
  View <- Windows
  Native <- Natives
  Linux <- Linuxes
  PenAware <- Programs
  Privileged <- LockScreens
  Button = {left}
  Finger = {f1}
  MaxMapped = 2
  MaxHeld = 2
SPECIFICATION Spec
INVARIANTS SeatSound 
PROPERTIES StrokeStays PointerShows
CHECK_DEADLOCK FALSE
