SPECIFICATION MCSpec
CONSTANTS
  Auths = {1, 2, 3, 4}
  Parents = {1, 2}
  Priorities = {0, 1}
  Codex = 1
  ProviderOf <- MCProviderOf
  Lists <- MCLists
INVARIANT TypeOK
PROPERTIES BestPicked TakesTurns
VIEW MCView
