SPECIFICATION Spec
CONSTANTS
  Owners <- AllOwners
  Addresses <- SomeAddresses
  Texts <- SomeTexts
  Messages <- MCMessages
  Strays <- MCStrays
  Block = 8
  MinLen = 24
INVARIANTS
  NeverPastEnd
  DecodesResponse
  OnlyRealData
