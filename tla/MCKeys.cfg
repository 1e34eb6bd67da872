CONSTANTS
  l = l
  tab = tab
  a = a
  super = super
  program = program
  desktop = desktop
  elevated = elevated
  lockScreen = lockScreen
  NoKey = NoKey
  NoWindow = NoWindow
  Key <- MCKey
  Reserved <- MCReserved
  MaxConsumed = 2
  Program <- Programs
  Desktop = desktop
  Elevated <- ElevatedOnes
  LockScreen <- LockScreens
  Tab = tab
  AllowVtSwitch = TRUE
SPECIFICATION Spec
INVARIANTS KeysSound NoStuckKey
PROPERTIES  TabNotHanded ConsoleDeaf
