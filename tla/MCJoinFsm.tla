------------------------------ MODULE MCJoinFsm ------------------------------
(* Instances of JoinFsm for TLC.                                           *)
EXTENDS JoinFsm
=============================================================================
