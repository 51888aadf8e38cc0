SPECIFICATION Spec
CONSTANTS
  TypedValues <- MCTypedValues
  Lossy <- MCLossy
  RemoteValues <- MCRemoteValues
  Authority = {FALSE}
  MaxQueue = 3
INVARIANT TypeOK
INVARIANT BoxShowsBuffer
PROPERTY EchoesBufferWrites
