------------------------------ MODULE MCIPCLog ------------------------------
(* The launch states that the channel is checked with: the first one, and   *)
(* one error.                                                               *)
EXTENDS IPCLog

TwoStates == {"OK", "NoSDCard"}
=============================================================================
