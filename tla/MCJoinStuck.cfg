SPECIFICATION Spec
CONSTANTS
  MaxOps = 2
  MaxDeauths = 1
  MaxGrants = 2
  MaxMsgs = 1
INVARIANT DisconnectIsTimed
