SPECIFICATION Spec
CONSTANTS
  TypedValues <- MCTypedValues
  Lossy = {}
  RemoteValues <- MCRemoteValues
  Authority = {FALSE}
  MaxQueue = 3
INVARIANT TypedValueApplied
