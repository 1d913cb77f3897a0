SPECIFICATION FairSpec
CONSTANTS
  P2pPresent = FALSE
  SeqErrors <- Exact
  FwLoses = FALSE
  MaxScans = 3
  MaxP2pSeq = 0
PROPERTIES ScanAnswered AisLeavesScan
