SPECIFICATION Spec
CONSTANTS
  t1 = t1
  t2 = t2
  t3 = t3
  Titles <- MCTitles
  GameList <- MCGameList
  NoTitle = NoTitle
  MaxPosted = 2
INVARIANT TypeOK
INVARIANT NoLeakedLayers
INVARIANT NetReadSeesAnnounced
