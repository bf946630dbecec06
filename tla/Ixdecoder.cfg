SPECIFICATION FairSpec
CONSTANTS
  Buffers <- MCBuffers
  Modes = {0, 1, 2}
  Table <- MCTable
  Root = "root"
  Encodings <- MCEncodings
  Invalid <- MCInvalid
  MaxBytes = 30
  MaxInsn = 15
  Origins <- MCOrigins
  HandlerOf <- MCHandlerOf
INVARIANTS
  TypeOK
  FetcherInBuffer
  SizeInBuffer
  PrefixMeaning
  LockOnMemory
  FwaitMeaning
  EffectiveAddress
  OperandBytes
  NumbersReadBack
  NamesReadBack
  WordsReadBack
PROPERTY Terminates
