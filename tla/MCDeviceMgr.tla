---------------------------- MODULE MCDeviceMgr ----------------------------
(* DeviceMgr for TLC: its constants are model values and small sets.        *)
EXTENDS DeviceMgr
=============================================================================
