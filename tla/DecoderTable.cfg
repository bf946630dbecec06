SPECIFICATION Spec
CONSTANTS
  ByteCount = 4
  RegCount = 2
  Escape = 3
  Scripts <- MCScripts
  Streams <- MCStreams
INVARIANTS
  Layered
  DecodesScript
  ErrorsHaveReasons
