\* Two processes, two resets and two rotations of the secret.
SPECIFICATION Spec
CONSTANTS
  t1 = t1  t2 = t2  p1 = p1  p2 = p2
  User = {u1}
  NoUser = NoUser
  Thread <- MCThread
  Process <- MCProcess
  Of <- MCOf
  TokenTtl = 1
  SessionTtl = 1
  MaxTokens = 2
  MaxHashes = 2
  MaxSessions = 1
  MaxSecrets = 3
  MaxRestarts = 3
  MaxTime = 4
INVARIANTS
  TypeOK
  LatestResetWins
  TokenUsesBounded
  RefusedOnlyBeforeRestart
CHECK_DEADLOCK FALSE
