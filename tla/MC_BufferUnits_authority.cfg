SPECIFICATION Spec
CONSTANTS
  TypedValues <- MCTypedValues
  Lossy = {}
  RemoteValues <- MCRemoteValues
  Authority = {FALSE, TRUE}
  MaxQueue = 3
PROPERTY AuthorityToggleKeepsBuffers
