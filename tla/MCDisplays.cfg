CONSTANTS
  d1 = d1
  d2 = d2
  d3 = d3
  t1 = t1
  t2 = t2
  Display <- ThreeDisplays
  Text <- TwoTexts
  Session = Session
  Image = Image
  Nothing = Nothing
  MaxSource = 6
SPECIFICATION Spec
INVARIANTS TornDownOnce ProxiesCurrent
PROPERTIES ImplementsTextFlow
