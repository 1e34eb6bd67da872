CONSTANTS
  c1 = c1
  c2 = c2
  desktop = desktop
  program = program
  menu = menu
  admin = admin
  lockScreen = lockScreen
  prompt = prompt
  None = None
  NoView = NoView
  Client <- TwoClients
  View <- SixViews
  Together <- FourOpen
  Owner <- Owners
  Unmanaged <- Menus
  Dialog <- Prompts
  Elevated <- Admins
  Program <- Programs
  Desktop <- Desktops
  Unfocusable = {}
SPECIFICATION FairSpec
INVARIANTS Isolated InputIsolated ScreenIsolated AllBack
PROPERTIES KeyboardAfterUnlock ImplementsModes HoldsEnd
