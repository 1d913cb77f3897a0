SPECIFICATION FairSpec
CONSTANTS
  ais = ais
  go = go
  Stas = {ais}
  Aps = {go}
  Deciders = {go}
  Refuses <- NoneRefused
  FwRequests = {}
  SlowFrames = FALSE
PROPERTIES QueuedIsPassedOn LeftIsDisabled
