---------------------------- MODULE MCEngineJob ----------------------------
(* Instance of EngineJob, with the pump behind it, for TLC.                *)
EXTENDS StreamPump
=============================================================================
