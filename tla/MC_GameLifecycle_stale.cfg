CONSTANTS
  MaxGames <- MCMaxGames
SPECIFICATION Spec
PROPERTY StopRequestEndsOwnGame
CHECK_DEADLOCK FALSE
