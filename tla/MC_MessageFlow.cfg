SPECIFICATION Spec
CONSTANTS
  Tables <- Contract
  Kinds <- AllKinds
  Samples <- TheSamples
INVARIANTS
  RoundTrip
  BuildIsDecode
  OrderFree
  AcceptedIsSound
  DigestIsContent
CHECK_DEADLOCK FALSE
