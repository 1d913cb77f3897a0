------------------------------ MODULE MCScanFsm ------------------------------
(* Instances of ScanFsm for TLC.                                           *)
EXTENDS ScanFsm

Exact == {0}
OffByOne == {0, 1}
=============================================================================
