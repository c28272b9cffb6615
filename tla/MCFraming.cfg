SPECIFICATION FairSpec
CONSTANTS
  BufferSize = 6
  Magic <- MCMagic
  Version = 6
  Greetings <- MCGreetings
  Bodies <- MCBodies
  MaxPackets = 4
CHECK_DEADLOCK FALSE
INVARIANT TypeOK
INVARIANT GreetingDecides
INVARIANT NoByteLost
PROPERTY PacketsAsPromised
PROPERTY AllHandedOver
