CONSTANTS
  c1 = c1
  c2 = c2
  c3 = c3
  w1 = w1
  w2 = w2
  s1 = s1
  None = None
  Client <- MCClient
  Watcher <- MCWatcher
  SessionWatcher <- MCSessionWatcher
SPECIFICATION Spec
INVARIANT PromptSaidSecure
