CONSTANTS
  MaxGames <- MCMaxGames
SPECIFICATION Spec
INVARIANT TypeOK
INVARIANT OptionsFollowCore
PROPERTY UnexpectedHaltEndsSession
CHECK_DEADLOCK FALSE
