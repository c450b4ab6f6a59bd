SPECIFICATION Spec
CONSTANTS
  Byte = {a, n}
  NL = n
  Zero = z
  MaxContent = 3
  UNGET = 1
  Opens <- Streams
CONSTRAINT NothingLost
VIEW View
INVARIANTS
  BufferSound
PROPERTIES
  KeepsPromise
  FlushedIsOut
