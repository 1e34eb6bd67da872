CONSTANTS
  console = console
  away = away
  Desk <- TwoDesks
  Nowhere = Nowhere
SYMMETRY DesksAlike
SPECIFICATION Spec
INVARIANTS WindowSound
PROPERTIES UserPlaceKept DeskFollowed
