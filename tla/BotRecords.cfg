SPECIFICATION Spec
CONSTANTS
  Workers = {w1}
  NoWorker = NoWorker
  MaxIds = 3
  Tokens = {t1, t2}
  Secrets = {A, B}
  NoSecret = NoSecret
  Garbled = Garbled
  NoToken = NoToken
  Limit = 1
CHECK_DEADLOCK FALSE
INVARIANTS RepositoriesAgree WalkIsSound
PROPERTIES TokenIntact
