SPECIFICATION Spec
CONSTANTS
  BufferSize = 16
  Magic <- MCMagic
  Version = 6
  Greetings <- MCOneGreeting
  Bodies <- MCBodiesHigh
  MaxPackets = 3
CHECK_DEADLOCK FALSE
INVARIANT PacketsAsSent
