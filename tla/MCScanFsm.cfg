SPECIFICATION Spec
CONSTANTS
  P2pPresent = TRUE
  SeqErrors <- OffByOne
  FwLoses = TRUE
  MaxScans = 2
  MaxP2pSeq = 2
INVARIANTS TypeOK NobodyWaitsForIdle StartedOnce
PROPERTY P2pCancelledStaysSo
