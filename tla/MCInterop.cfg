CONSTANTS
  alice = alice
  bob = bob
  Identities <- MCIdentities
  EncryptHandshake = {TRUE}
  MaxIDs = 4
  MaxGroups = 1
  MaxDraws = 4
  MaxMessages <- MCMessages
  MaxGeneration = 2
  MaxWire = 5
SPECIFICATION Spec
INVARIANTS NonceUnique Readable PendingIsOwn
CHECK_DEADLOCK FALSE
SYMMETRY Symmetry
