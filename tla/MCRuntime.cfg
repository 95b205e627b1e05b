SPECIFICATION Spec
CONSTANTS
  SI = 4
  HF <- MCHF
  SF <- MCSF
  DF <- MCDF
  TF <- MCTF
  si = 9
  di = 15
  ti = 20
  Header = 2
  Slots = 16
  Pointer = 2
  Storage_Unit = 2
  Val_Bytes = 2
INVARIANTS
  IntegersAreExact
  CountsAreExact
  ArithmeticIsRounded
  ConversionsAreRight
  ObjectsFit
  PackedArraysAreBits
  DependenciesAreBound
  AttributesAreExact
  ImagesAreRounded
