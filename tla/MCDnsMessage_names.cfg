SPECIFICATION Spec
CONSTANTS
  Owners <- AllOwners
  Addresses <- OneAddress
  Texts = {}
  Messages <- MCMessages
  Strays = {}
  Block = 8
  MinLen = 24
INVARIANTS
  DecodesEveryResponse
