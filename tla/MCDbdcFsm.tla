------------------------------ MODULE MCDbdcFsm ------------------------------
(* Instances of DbdcFsm for TLC.                                           *)
EXTENDS DbdcFsm, TLC

CONSTANTS ais, go

NoneRefused == {}

(* The access point has no 802.11n: its streams cannot be changed.         *)
LegacyAp == {go} \X {1, 2}
=============================================================================
