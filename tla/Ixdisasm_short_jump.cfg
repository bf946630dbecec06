SPECIFICATION Spec
CONSTANTS
  Buffers <- JumpBuffers
  Modes = {0, 1, 2}
  Table <- MCTable
  Root = "root"
  Encodings <- MCEncodings
  Invalid <- MCInvalid
  MaxBytes = 30
  MaxInsn = 15
  Origins <- MCOrigins
  HandlerOf <- MCHandlerOf
INVARIANT Imm64SignExtends
