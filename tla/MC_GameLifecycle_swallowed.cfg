CONSTANTS
  MaxGames <- MCMaxGames
SPECIFICATION Spec
INVARIANT CoreRunsOnlyLiveGames
CHECK_DEADLOCK FALSE
