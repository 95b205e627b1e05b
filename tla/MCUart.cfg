CONSTANTS
  Bytes <- Letters
  Garbage = "garbage"
  Terminator = ";"
  HelloString <- Hello
  EchoString <- Prompt
  MaxSize = 3
  Inputs <- AllInputs
SPECIFICATION Spec
INVARIANTS UartInv EchoIsOfThePeer
PROPERTY PeerIsAnswered
